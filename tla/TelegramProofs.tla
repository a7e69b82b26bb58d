------------------------------ MODULE TelegramProofs ------------------------------
(***************************************************************************)
(* Theorems about what a chat reads of a store and what it does to it: the *)
(* projected Orders, the lists it pages through, the notes it posts and    *)
(* the settings it changes.  They hold for any number of projectors,       *)
(* revisions, events, attempts, requests, texts, references and stores,    *)
(* any list of keys and any size of a page.                                *)
(***************************************************************************)
EXTENDS MCTelegram, TelegramLists, NumbersInOrderProofs, FiniteSetTheorems,
        SequenceTheorems, TLAPS

-----------------------------------------------------------------------------
(* Notes: a note is posted once at most and as it was previewed, and what  *)
(* is recorded of it is true.                                              *)

Posting == {"post", "wait", "created", "refused", "unknown"}

Settled == {"SUCCEEDED", "FAILED", "AMBIGUOUS"}

NotesTyped ==
    /\ note \in NoteReference /\ action \in Action /\ old \in BOOLEAN
    /\ request \in [NoteRequests -> Request] /\ wire \in [NoteRequests -> Text]
    /\ cancelled \in BOOLEAN /\ audits \in Nat

\* A reference has no text before its first preview, and one text from then on.
ReferenceInv ==
    /\ note.claimed <=> action # "none"
    /\ note.body \in {NoText, note.print}
    /\ note.purpose = "NOTE_INPUT" =>
          note.print = NoText /\ ~note.claimed /\ previews = {}
    /\ note.purpose = "NOTE_CONFIRM" =>
          note.print \in Texts /\ previews = {note.print}

\* What a request carries: the text it was sent, or the one of the reference.
TextInv ==
    \A r \in NoteRequests :
        /\ At(r, "prepare") \/ At(r, "store") \/ At(r, "look") => request[r].text \in Texts
        /\ At(r, "once") =>
              /\ note.purpose = "NOTE_CONFIRM"
              /\ request[r].text \in {NoText, note.print}
        /\ At(r, "fetch") =>
              /\ note.purpose = "NOTE_CONFIRM"
              /\ request[r].text \in {NoText, note.print}
        /\ At(r, "claim") \/ At(r, "post") =>
              note.purpose = "NOTE_CONFIRM" /\ request[r].text = note.print

\* One request posts, the one that has claimed; what it has sent is on its way or
\* in the store.
PostingInv ==
    /\ \A r, s \in NoteRequests :
          request[r].at \in Posting /\ request[s].at \in Posting => r = s
    /\ \A r \in NoteRequests : request[r].at \in Posting => note.claimed /\ audits = 0
    /\ notes = <<>> \/ (note.claimed /\ notes = <<note.print>>)
    /\ \A r \in NoteRequests : wire[r] # NoText =>
          note.claimed /\ wire[r] = note.print /\ notes = <<>>
    /\ \A r, s \in NoteRequests : wire[r] # NoText /\ wire[s] # NoText => r = s
    /\ \A r \in NoteRequests :
          /\ At(r, "post") \/ At(r, "refused") =>
                notes = <<>> /\ \A s \in NoteRequests : wire[s] = NoText
          /\ At(r, "wait") => wire[r] # NoText
          /\ At(r, "created") => notes # <<>>
          /\ At(r, "overdue") => note.claimed

OutcomeInv ==
    /\ action \in {"SUCCEEDED", "FAILED"} =>
          \A r \in NoteRequests : request[r].at \notin Posting
    /\ action = "SUCCEEDED" => notes # <<>> /\ audits = 1
    /\ action = "FAILED" =>
          /\ notes = <<>> /\ audits = 0
          /\ \A r \in NoteRequests : wire[r] = NoText
    /\ audits = 0 \/ (audits = 1 /\ notes # <<>>)

ErasedInv ==
    /\ action \in Settled \/ cancelled => note.body = NoText
    /\ cancelled => note.expired /\ ~note.claimed

NotesInv ==
    NotesTyped /\ ReferenceInv /\ TextInv /\ PostingInv /\ OutcomeInv /\ ErasedInv
-----------------------------------------------------------------------------
(* Initial states, and the steps that change a request only.               *)

LEMMA NotesInitial == NotesInit => NotesInv
<1> SUFFICES ASSUME NotesInit PROVE NotesInv
  OBVIOUS
<1>1. \A r \in NoteRequests : request[r] = NoRequest /\ wire[r] = NoText
  BY DEF NotesInit
<1>2. NoRequest \in Request /\ NoRequest.at = "idle"
  BY DEF NoRequest, Request, Step, Text
<1>3. NotesTyped
  BY <1>2 DEF NotesInit, NotesTyped, NoteReference, Text, Action
<1>4. ReferenceInv /\ OutcomeInv /\ ErasedInv
  BY DEF NotesInit, ReferenceInv, OutcomeInv, ErasedInv, Settled
<1>5. TextInv /\ PostingInv
  BY <1>1, <1>2 DEF NotesInit, TextInv, PostingInv, At, Posting
<1> QED
  BY <1>3, <1>4, <1>5 DEF NotesInv

\* Only the request of r changes; what the invariant says of its new step is asked for.
LEMMA OneMoves ==
    ASSUME NotesInv, NEW r \in NoteRequests, NEW next \in Request,
           request' = [request EXCEPT ![r] = next], Stays,
           next.at \in {"prepare", "store", "look"} => next.text \in Texts,
           next.at \in {"once", "fetch"} =>
               note.purpose = "NOTE_CONFIRM" /\ next.text \in {NoText, note.print},
           next.at = "claim" =>
               note.purpose = "NOTE_CONFIRM" /\ next.text = note.print,
           next.at = "overdue" => note.claimed,
           next.at \notin Posting \/ (next.at = "unknown" /\ request[r].at \in Posting)
    PROVE  NotesInv'
<1> USE DEF NotesInv, Stays, At
<1>1. NotesTyped'
  BY DEF NotesTyped
<1>2. \A s \in NoteRequests : request'[s] = IF s = r THEN next ELSE request[s]
  BY DEF NotesTyped
<1>3. ReferenceInv'
  BY DEF ReferenceInv
<1>4. TextInv'
  BY <1>2 DEF TextInv, Posting
<1>5. PostingInv'
  BY <1>2 DEF PostingInv, Posting
<1>6. OutcomeInv'
  BY <1>2 DEF OutcomeInv
<1>7. ErasedInv'
  BY DEF ErasedInv
<1> QED
  BY <1>1, <1>3, <1>4, <1>5, <1>6, <1>7

LEMMA Gone == NoRequest \in Request
BY DEF NoRequest, Request, Step, Text

LEMMA EndsSafely ==
    ASSUME NotesInv, NEW r \in NoteRequests, Ends(r), Stays
    PROVE  NotesInv'
BY OneMoves, Gone DEF Ends, NoRequest, Posting

LEMMA StepsOn ==
    ASSUME NotesInv, NEW r \in NoteRequests, NEW step \in Step, GoesTo(r, step)
    PROVE  /\ request' = [request EXCEPT ![r] = [request[r] EXCEPT !.at = step]]
           /\ [request[r] EXCEPT !.at = step] \in Request
BY DEF GoesTo, NotesInv, NotesTyped, Request

LEMMA ReadsSafely ==
    ASSUME NotesInv, NEW r \in NoteRequests,
           \/ GivesUp(r) \/ PrepareReads(r) \/ CancelReads(r) \/ ConfirmReads(r)
           \/ Fetches(r) \/ TimesOut(r)
           \/ Replays(r, "unless", "withdraw") \/ Replays(r, "once", "fetch")
           \/ Replays(r, "settled", "idle")
    PROVE  NotesInv'
<1>1. CASE GivesUp(r)
  BY <1>1, EndsSafely DEF GivesUp
<1>2. CASE PrepareReads(r)
  <2>1. CASE note.expired
    BY <1>2, <2>1, EndsSafely DEF PrepareReads
  <2>2. CASE ~note.expired
    <3>1. GoesTo(r, "store") /\ Stays /\ At(r, "prepare")
      BY <1>2, <2>2 DEF PrepareReads
    <3> DEFINE next == [request[r] EXCEPT !.at = "store"]
    <3>2. request' = [request EXCEPT ![r] = next] /\ next \in Request
      BY <3>1, StepsOn DEF Step
    <3>3. next.at = "store" /\ next.text \in Texts
      BY <3>1 DEF NotesInv, NotesTyped, TextInv, Request, At
    <3> HIDE DEF next
    <3> QED
      BY <3>1, <3>2, <3>3, OneMoves DEF Posting
  <2> QED
    BY <2>1, <2>2
<1>3. CASE CancelReads(r)
  <2>1. CASE note.expired
    BY <1>3, <2>1, EndsSafely DEF CancelReads
  <2>2. CASE ~note.expired
    <3>1. GoesTo(r, "unless") /\ Stays
      BY <1>3, <2>2 DEF CancelReads
    <3> DEFINE next == [request[r] EXCEPT !.at = "unless"]
    <3>2. request' = [request EXCEPT ![r] = next] /\ next \in Request
      BY <3>1, StepsOn DEF Step
    <3>3. next.at = "unless"
      BY DEF NotesInv, NotesTyped, Request
    <3> HIDE DEF next
    <3> QED
      BY <3>1, <3>2, <3>3, OneMoves DEF Posting
  <2> QED
    BY <2>1, <2>2
<1>4. CASE ConfirmReads(r)
  <2> DEFINE next == [at |-> "once", text |-> note.body, expired |-> note.expired]
  <2>1. request' = [request EXCEPT ![r] = next] /\ Stays /\ note.purpose = "NOTE_CONFIRM"
    BY <1>4 DEF ConfirmReads
  <2>2. next \in Request /\ next.at = "once" /\ next.text \in {NoText, note.print}
    BY DEF NotesInv, NotesTyped, ReferenceInv, NoteReference, Request, Step
  <2> HIDE DEF next
  <2> QED
    BY <2>1, <2>2, OneMoves DEF Posting
<1>5. CASE Fetches(r)
  <2>1. GoesTo(r, "claim") /\ Stays /\ At(r, "fetch") /\ request[r].text # NoText
    BY <1>5 DEF Fetches
  <2> DEFINE next == [request[r] EXCEPT !.at = "claim"]
  <2>2. request' = [request EXCEPT ![r] = next] /\ next \in Request
    BY <2>1, StepsOn DEF Step
  <2>3. next.at = "claim" /\ next.text = note.print /\ note.purpose = "NOTE_CONFIRM"
    BY <2>1 DEF NotesInv, NotesTyped, TextInv, Request, At
  <2> HIDE DEF next
  <2> QED
    BY <2>1, <2>2, <2>3, OneMoves DEF Posting
<1>6. CASE TimesOut(r)
  <2>1. GoesTo(r, "unknown") /\ Stays /\ At(r, "wait")
    BY <1>6 DEF TimesOut
  <2> DEFINE next == [request[r] EXCEPT !.at = "unknown"]
  <2>2. request' = [request EXCEPT ![r] = next] /\ next \in Request
    BY <2>1, StepsOn DEF Step
  <2>3. next.at = "unknown" /\ request[r].at \in Posting
    BY <2>1 DEF NotesInv, NotesTyped, Request, At, Posting
  <2> HIDE DEF next
  <2> QED
    BY <2>1, <2>2, <2>3, OneMoves DEF Posting
<1>7. ASSUME NEW step \in {"unless", "once", "settled"}, NEW to \in Step,
             Replays(r, step, to), to \in {"withdraw", "fetch", "idle"},
             to = "fetch" => step = "once"
      PROVE  NotesInv'
  <2>1. At(r, step) /\ Stays
    BY <1>7 DEF Replays
  <2>2. CASE action = "none"
    <3>1. GoesTo(r, to)
      BY <1>7, <2>2 DEF Replays
    <3> DEFINE next == [request[r] EXCEPT !.at = to]
    <3>2. request' = [request EXCEPT ![r] = next] /\ next \in Request
      BY <3>1, StepsOn
    <3>3. /\ next.at = to
          /\ to = "fetch" =>
                note.purpose = "NOTE_CONFIRM" /\ next.text \in {NoText, note.print}
      BY <1>7, <2>1 DEF NotesInv, NotesTyped, TextInv, Request, At
    <3> HIDE DEF next
    <3> QED
      BY <1>7, <2>1, <3>2, <3>3, OneMoves DEF Posting
  <2>3. CASE action = "IN_FLIGHT" /\ old
    <3>1. GoesTo(r, "overdue")
      BY <1>7, <2>3 DEF Replays
    <3> DEFINE next == [request[r] EXCEPT !.at = "overdue"]
    <3>2. request' = [request EXCEPT ![r] = next] /\ next \in Request
      BY <3>1, StepsOn DEF Step
    <3>3. next.at = "overdue" /\ note.claimed
      BY <2>3 DEF NotesInv, NotesTyped, ReferenceInv, Request
    <3> HIDE DEF next
    <3> QED
      BY <2>1, <3>2, <3>3, OneMoves DEF Posting
  <2>4. CASE action # "none" /\ ~(action = "IN_FLIGHT" /\ old)
    BY <1>7, <2>1, <2>4, EndsSafely DEF Replays
  <2> QED
    BY <2>2, <2>3, <2>4
<1>8. Replays(r, "unless", "withdraw") => NotesInv'
  BY <1>7 DEF Step
<1>9. Replays(r, "once", "fetch") => NotesInv'
  BY <1>7 DEF Step
<1>10. Replays(r, "settled", "idle") => NotesInv'
  BY <1>7 DEF Step
<1> QED
  BY <1>1, <1>2, <1>3, <1>4, <1>5, <1>6, <1>8, <1>9, <1>10
-----------------------------------------------------------------------------
(* Steps that change the reference or its action.                          *)

LEMMA BeginsSafely ==
    ASSUME NotesInv, NEW r \in NoteRequests, NEW step \in {"prepare", "cancel", "confirm"},
           NEW text \in Text, Begins(r, step, text), step = "prepare" => text \in Texts
    PROVE  NotesInv'
<1> USE DEF NotesInv, Begins, At
<1> DEFINE next == [at |-> step, text |-> text, expired |-> FALSE]
<1>1. next \in Request /\ next.at = step /\ next.text = text
  BY DEF Request, Step
<1>2. request' = [request EXCEPT ![r] = next]
  OBVIOUS
<1> HIDE DEF next
<1>3. \A s \in NoteRequests : request'[s] = IF s = r THEN next ELSE request[s]
  BY <1>2 DEF NotesTyped
<1>4. /\ note'.purpose = note.purpose /\ note'.print = note.print
      /\ note'.claimed = note.claimed /\ note'.expired = note.expired
      /\ note'.body \in {note.body, NoText}
      /\ note' \in NoteReference
  BY DEF NotesTyped, NoteReference, Text
<1>5. NotesTyped'
  BY <1>1, <1>2, <1>4 DEF NotesTyped
<1>6. ReferenceInv'
  BY <1>4 DEF ReferenceInv
<1>7. TextInv'
  BY <1>1, <1>3, <1>4 DEF TextInv
<1>8. PostingInv'
  BY <1>1, <1>3, <1>4 DEF PostingInv, Posting
<1>9. OutcomeInv'
  BY <1>1, <1>3 DEF OutcomeInv, Posting
<1>10. ErasedInv'
  BY <1>4 DEF ErasedInv
<1> QED
  BY <1>5, <1>6, <1>7, <1>8, <1>9, <1>10

LEMMA TimeIsSafe == NotesInv /\ (NoteExpires \/ MinutePasses) => NotesInv'
<1> SUFFICES ASSUME NotesInv, NoteExpires \/ MinutePasses PROVE NotesInv'
  OBVIOUS
<1>1. /\ note'.purpose = note.purpose /\ note'.print = note.print
      /\ note'.claimed = note.claimed /\ note'.body = note.body
      /\ note.expired => note'.expired
      /\ note' \in NoteReference /\ old' \in BOOLEAN
  BY DEF NotesInv, NotesTyped, NoteReference, NoteExpires, MinutePasses
<1>2. UNCHANGED <<action, request, wire, notes, previews, cancelled, audits>>
  BY DEF NoteExpires, MinutePasses
<1> QED
  BY <1>1, <1>2 DEF NotesInv, NotesTyped, ReferenceInv, TextInv, PostingInv, OutcomeInv,
                    ErasedInv, At

LEMMA PreparesSafely ==
    ASSUME NotesInv, NEW r \in NoteRequests, Prepares(r)
    PROVE  NotesInv'
<1> USE DEF NotesInv
<1>1. request[r].text \in Texts /\ request[r].text # NoText
  BY NotesAssumption DEF Prepares, TextInv
<1>2. CASE note.purpose = "NOTE_INPUT" /\ ~note.expired
  <2>1. /\ note'.purpose = "NOTE_CONFIRM" /\ note'.body = request[r].text
        /\ note'.print = request[r].text /\ note'.claimed = note.claimed
        /\ note'.expired = note.expired /\ note' \in NoteReference
    BY <1>1, <1>2 DEF Prepares, NotesTyped, NoteReference, Text
  <2>2. /\ request' = [request EXCEPT ![r] = NoRequest]
        /\ previews' = previews \cup {request[r].text}
        /\ UNCHANGED <<action, old, wire, notes, cancelled, audits>>
    BY <1>2 DEF Prepares, Previewed, Ends
  <2>3. \A s \in NoteRequests : request'[s] = IF s = r THEN NoRequest ELSE request[s]
    BY <2>2 DEF NotesTyped
  <2>4. NoRequest \in Request /\ NoRequest.at = "idle"
    BY Gone DEF NoRequest
  <2>5. note.print = NoText /\ ~note.claimed /\ previews = {} /\ action = "none"
    BY <1>2 DEF ReferenceInv
  <2>6. NotesTyped'
    BY <2>1, <2>2, <2>4 DEF NotesTyped
  <2>7. ReferenceInv'
    BY <1>1, <2>1, <2>2, <2>5 DEF ReferenceInv
  <2>8. \A s \in NoteRequests :
           ~At(s, "once") /\ ~At(s, "fetch") /\ ~At(s, "claim") /\ ~At(s, "post")
    BY <1>2 DEF TextInv
  <2>9. TextInv'
    BY <2>3, <2>4, <2>8 DEF TextInv, At
  <2>10. PostingInv'
    BY <2>1, <2>2, <2>3, <2>4, <2>5 DEF PostingInv, At, Posting
  <2>11. OutcomeInv'
    BY <2>2, <2>3, <2>4 DEF OutcomeInv, Posting
  <2>12. ErasedInv'
    BY <1>2, <2>1, <2>2, <2>5 DEF ErasedInv, Settled
  <2> QED
    BY <2>6, <2>7, <2>9, <2>10, <2>11, <2>12
<1>3. CASE ~(note.purpose = "NOTE_INPUT" /\ ~note.expired)
  <2>1. GoesTo(r, "look") /\ Stays
    BY <1>3 DEF Prepares, Stays
  <2> DEFINE next == [request[r] EXCEPT !.at = "look"]
  <2>2. request' = [request EXCEPT ![r] = next] /\ next \in Request
    BY <2>1, StepsOn DEF Step
  <2>3. next.at = "look" /\ next.text \in Texts
    BY <1>1 DEF NotesTyped, Request
  <2> HIDE DEF next
  <2> QED
    BY <2>1, <2>2, <2>3, OneMoves DEF Posting
<1> QED
  BY <1>2, <1>3

LEMMA LooksSafely ==
    ASSUME NotesInv, NEW r \in NoteRequests, PrepareLooks(r)
    PROVE  NotesInv'
<1>1. request[r].text \in Texts
  BY DEF PrepareLooks, NotesInv, TextInv
<1>2. previews' = previews
  BY <1>1 DEF PrepareLooks, Previewed, NotesInv, ReferenceInv
<1>3. Ends(r) /\ Stays
  BY <1>2 DEF PrepareLooks, Previewed, Stays
<1> QED
  BY <1>3, EndsSafely

LEMMA WithdrawsSafely ==
    ASSUME NotesInv, NEW r \in NoteRequests, Withdraws(r)
    PROVE  NotesInv'
<1> USE DEF NotesInv
<1>1. CASE ~note.claimed /\ ~note.expired
  <2>1. /\ note'.purpose = note.purpose /\ note'.body = NoText /\ note'.expired
        /\ note'.print = note.print /\ note'.claimed = note.claimed
        /\ note' \in NoteReference
    <3>1. /\ note \in NoteReference /\ NoText \in Text
          /\ note' = [note EXCEPT !.expired = TRUE, !.body = NoText]
      BY <1>1 DEF Withdraws, NotesTyped, Text
    <3> QED
      BY <3>1 DEF NoteReference
  <2>2. /\ request' = [request EXCEPT ![r] = NoRequest] /\ cancelled' = TRUE
        /\ UNCHANGED <<action, old, wire, notes, previews, audits>>
    BY <1>1 DEF Withdraws, Ends
  <2>3. \A s \in NoteRequests : request'[s] = IF s = r THEN NoRequest ELSE request[s]
    BY <2>2 DEF NotesTyped
  <2>4. NoRequest \in Request /\ NoRequest.at = "idle"
    BY Gone DEF NoRequest
  <2>5. NotesTyped'
    BY <2>1, <2>2, <2>4 DEF NotesTyped
  <2>6. ReferenceInv'
    BY <2>1, <2>2 DEF ReferenceInv
  <2>7. TextInv'
    BY <2>1, <2>3, <2>4 DEF TextInv, At
  <2>8. PostingInv'
    BY <2>1, <2>2, <2>3, <2>4 DEF PostingInv, At, Posting
  <2>9. OutcomeInv'
    BY <2>2, <2>3, <2>4 DEF OutcomeInv, Posting
  <2>10. ErasedInv'
    BY <1>1, <2>1 DEF ErasedInv
  <2> QED
    BY <2>5, <2>6, <2>7, <2>8, <2>9, <2>10
<1>2. CASE ~(~note.claimed /\ ~note.expired)
  <2>1. GoesTo(r, "settled") /\ Stays
    BY <1>2 DEF Withdraws, Stays
  <2> DEFINE next == [request[r] EXCEPT !.at = "settled"]
  <2>2. request' = [request EXCEPT ![r] = next] /\ next \in Request
    BY <2>1, StepsOn DEF Step
  <2>3. next.at = "settled"
    BY DEF NotesTyped, Request
  <2> HIDE DEF next
  <2> QED
    BY <2>1, <2>2, <2>3, OneMoves DEF Posting
<1> QED
  BY <1>1, <1>2

\* The request that claims is the only one to post, and finds nothing of the
\* reference in the store or on its way.
LEMMA ClaimsSafely ==
    ASSUME NotesInv, NEW r \in NoteRequests, Claims(r)
    PROVE  NotesInv'
<1> USE DEF NotesInv
<1>1. CASE Claimable
  <2>1. /\ note'.purpose = note.purpose /\ note'.body = note.body /\ note'.claimed
        /\ note'.print = note.print /\ note'.expired = note.expired
        /\ note' \in NoteReference
    BY <1>1 DEF Claims, NotesTyped, NoteReference
  <2> DEFINE next == [request[r] EXCEPT !.at = "post"]
  <2>2. /\ GoesTo(r, "post") /\ action' = "IN_FLIGHT"
        /\ UNCHANGED <<old, wire, notes, previews, cancelled, audits>>
    BY <1>1 DEF Claims
  <2>3. request' = [request EXCEPT ![r] = next] /\ next \in Request
    BY <2>2, StepsOn DEF Step
  <2>4. next.at = "post" /\ next.text = request[r].text
    BY DEF NotesTyped, Request
  <2> HIDE DEF next
  <2>5. \A s \in NoteRequests : request'[s] = IF s = r THEN next ELSE request[s]
    BY <2>3 DEF NotesTyped
  <2>6. /\ note.purpose = "NOTE_CONFIRM" /\ ~note.claimed /\ ~note.expired
        /\ request[r].text = note.print
    BY <1>1 DEF Claims, Claimable, TextInv
  <2>7. /\ \A s \in NoteRequests : request[s].at \notin Posting /\ wire[s] = NoText
        /\ notes = <<>>
    BY <2>6 DEF PostingInv
  <2>8. audits = 0
    BY <2>7 DEF OutcomeInv
  <2>9. NotesTyped'
    BY <2>1, <2>2, <2>3 DEF NotesTyped, Action
  <2>10. ReferenceInv'
    BY <2>1, <2>2, <2>6 DEF ReferenceInv
  <2>11. TextInv'
    BY <2>1, <2>4, <2>5, <2>6 DEF TextInv, At
  <2>12. PostingInv'
    BY <2>1, <2>2, <2>4, <2>5, <2>7, <2>8 DEF PostingInv, At, Posting
  <2>13. OutcomeInv'
    BY <2>2, <2>8 DEF OutcomeInv
  <2>14. ErasedInv'
    BY <2>1, <2>2, <2>6 DEF ErasedInv, Settled
  <2> QED
    BY <2>9, <2>10, <2>11, <2>12, <2>13, <2>14
<1>2. CASE ~Claimable
  <2>1. GoesTo(r, "settled") /\ Stays
    BY <1>2 DEF Claims, Stays
  <2> DEFINE next == [request[r] EXCEPT !.at = "settled"]
  <2>2. request' = [request EXCEPT ![r] = next] /\ next \in Request
    BY <2>1, StepsOn DEF Step
  <2>3. next.at = "settled"
    BY DEF NotesTyped, Request
  <2> HIDE DEF next
  <2> QED
    BY <2>1, <2>2, <2>3, OneMoves DEF Posting
<1> QED
  BY <1>1, <1>2

-----------------------------------------------------------------------------
(* The POST.  A step of it changes the wire or the store, and the request  *)
(* of r at most, from one posting step to another.                         *)

LEMMA WireSafely ==
    ASSUME NotesInv, NEW r \in NoteRequests, NEW next \in Request,
           request' = [request EXCEPT ![r] = next],
           next = request[r] \/ (request[r].at \in Posting /\ next.at \in Posting \ {"post"}),
           wire' \in [NoteRequests -> Text],
           UNCHANGED <<note, action, old, previews, cancelled, audits>>,
           PostingInv',
           action \in {"SUCCEEDED", "FAILED"} => notes' = notes /\ wire' = wire,
           notes # <<>> => notes' # <<>>
    PROVE  NotesInv'
<1> USE DEF NotesInv
<1>1. \A s \in NoteRequests : request'[s] = IF s = r THEN next ELSE request[s]
  BY DEF NotesTyped
<1>2. NotesTyped'
  BY DEF NotesTyped
<1>3. ReferenceInv'
  BY DEF ReferenceInv
<1>4. TextInv'
  BY <1>1 DEF TextInv, At, Posting
<1>5. OutcomeInv'
  BY <1>1 DEF OutcomeInv
<1>6. ErasedInv'
  BY DEF ErasedInv
<1> QED
  BY <1>2, <1>3, <1>4, <1>5, <1>6

LEMMA PostsSafely ==
    ASSUME NotesInv, NEW r \in NoteRequests, Posts(r)
    PROVE  NotesInv'
<1> USE DEF NotesInv
<1>1. CASE wire' = [wire EXCEPT ![r] = request[r].text] /\ GoesTo(r, "wait")
  <2> DEFINE next == [request[r] EXCEPT !.at = "wait"]
  <2>1. request' = [request EXCEPT ![r] = next] /\ next \in Request
    BY <1>1, StepsOn DEF Step
  <2>2. next.at = "wait" /\ request[r].at = "post"
    BY DEF NotesTyped, Request, Posts, At
  <2> HIDE DEF next
  <2>3. \A s \in NoteRequests : request'[s] = IF s = r THEN next ELSE request[s]
    BY <2>1 DEF NotesTyped
  <2>4. /\ request[r].text = note.print /\ note.print \in Texts /\ note.claimed
        /\ notes = <<>> /\ \A s \in NoteRequests : wire[s] = NoText
    BY <2>2 DEF TextInv, PostingInv, ReferenceInv, At, Posting
  <2>5. \A s \in NoteRequests : wire'[s] = IF s = r THEN note.print ELSE NoText
    BY <1>1, <2>4 DEF NotesTyped
  <2>6. UNCHANGED <<note, action, old, notes, previews, cancelled, audits>>
    BY DEF Posts
  <2>7. \A s \in NoteRequests : s # r => request[s].at \notin Posting
    BY <2>2 DEF PostingInv, Posting
  <2>8. PostingInv'
    BY NotesAssumption, <2>2, <2>3, <2>4, <2>5, <2>6, <2>7 DEF PostingInv, At, Posting
  <2>9. action \notin {"SUCCEEDED", "FAILED"}
    BY <2>2 DEF OutcomeInv, Posting
  <2>10. wire' \in [NoteRequests -> Text]
    BY <1>1, <2>4 DEF NotesTyped, Text
  <2> QED
    BY <2>1, <2>2, <2>6, <2>8, <2>9, <2>10, WireSafely DEF Posting
<1>2. CASE GoesTo(r, "unknown") /\ UNCHANGED wire
  <2> DEFINE next == [request[r] EXCEPT !.at = "unknown"]
  <2>1. request' = [request EXCEPT ![r] = next] /\ next \in Request
    BY <1>2, StepsOn DEF Step
  <2>2. next.at = "unknown" /\ request[r].at \in Posting
    BY DEF NotesTyped, Request, Posts, At, Posting
  <2>3. Stays
    BY <1>2 DEF Posts, Stays
  <2> HIDE DEF next
  <2> QED
    BY <2>1, <2>2, <2>3, OneMoves DEF Posting
<1> QED
  BY <1>1, <1>2 DEF Posts

\* What arrives at the store, or is refused there, was the only thing on its way.
LEMMA StoreSafely ==
    ASSUME NotesInv, NEW r \in NoteRequests, StoreCreates(r) \/ StoreRefuses(r)
    PROVE  NotesInv'
<1> USE DEF NotesInv
<1>1. /\ wire[r] = note.print /\ note.claimed /\ notes = <<>> /\ note.print \in Text
      /\ \A s \in NoteRequests : s # r => wire[s] = NoText
  BY DEF PostingInv, StoreCreates, StoreRefuses, NotesTyped, NoteReference
<1>2. /\ \A s \in NoteRequests : wire'[s] = NoText
      /\ wire' \in [NoteRequests -> Text]
      /\ UNCHANGED <<note, action, old, previews, cancelled, audits>>
  BY <1>1 DEF StoreCreates, StoreRefuses, NotesTyped, Text
<1>3. notes' = <<>> \/ notes' = <<note.print>>
  BY <1>1 DEF StoreCreates, StoreRefuses
<1>4. action \notin {"SUCCEEDED", "FAILED"}
  <2>1. wire[r] # NoText
    BY DEF StoreCreates, StoreRefuses
  <2> QED
    BY <1>1, <2>1 DEF OutcomeInv
<1>5. CASE At(r, "wait")
  <2>1. PICK step \in {"created", "unknown", "refused"} :
            /\ GoesTo(r, step)
            /\ step = "created" => notes' = <<note.print>>
            /\ step = "refused" => notes' = <<>>
    BY <1>1, <1>5 DEF StoreCreates, StoreRefuses, At
  <2> DEFINE next == [request[r] EXCEPT !.at = step]
  <2>2. request' = [request EXCEPT ![r] = next] /\ next \in Request
    BY <2>1, StepsOn DEF Step
  <2>3. next.at = step
    BY DEF NotesTyped, Request
  <2> HIDE DEF next
  <2>4. \A s \in NoteRequests : request'[s] = IF s = r THEN next ELSE request[s]
    BY <2>2 DEF NotesTyped
  <2>5. request[r].at \in Posting
    BY <1>5 DEF At, Posting
  <2>6. audits = 0 /\ \A s \in NoteRequests : s # r => request[s].at \notin Posting
    BY <2>5 DEF PostingInv
  <2>7. <<note.print>> # <<>>
    OBVIOUS
  <2>8. PostingInv'
    BY <1>1, <1>2, <1>3, <2>1, <2>3, <2>4, <2>6, <2>7 DEF PostingInv, At, Posting
  <2> QED
    BY <1>1, <1>2, <1>4, <2>2, <2>3, <2>5, <2>8, WireSafely DEF Posting
<1>6. CASE ~At(r, "wait")
  <2>1. request' = request
    BY <1>6 DEF StoreCreates, StoreRefuses
  <2>2. request[r] \in Request /\ request' = [request EXCEPT ![r] = request[r]]
    BY <2>1 DEF NotesTyped
  <2>3. \A s \in NoteRequests : ~At(s, "wait") /\ ~At(s, "post") /\ ~At(s, "refused")
                                /\ ~At(s, "created")
    <3>1. wire[r] # NoText
      BY DEF StoreCreates, StoreRefuses
    <3> QED
      BY <1>1, <1>6, <3>1 DEF PostingInv, At
  <2>4. PostingInv'
    BY <1>1, <1>2, <1>3, <2>1, <2>3 DEF PostingInv, At
  <2> QED
    BY <1>1, <1>2, <1>4, <2>2, <2>4, WireSafely
<1> QED
  BY <1>5, <1>6

-----------------------------------------------------------------------------
(* The outcome.                                                            *)

\* A request ends with an outcome that is true.
LEMMA CompletesSafely ==
    ASSUME NotesInv, NEW r \in NoteRequests, NEW outcome \in Settled,
           Completes(outcome), Ends(r), note.claimed,
           UNCHANGED <<old, wire, notes, previews, cancelled>>,
           outcome # "AMBIGUOUS" => request[r].at \in Posting,
           outcome = "SUCCEEDED" => notes # <<>> /\ audits' = 1,
           outcome = "FAILED" => notes = <<>> /\ \A s \in NoteRequests : wire[s] = NoText,
           outcome # "SUCCEEDED" => audits' = audits
    PROVE  NotesInv'
<1> USE DEF NotesInv
<1>1. /\ note'.purpose = note.purpose /\ note'.body = NoText
      /\ note'.print = note.print /\ note'.claimed = note.claimed
      /\ note'.expired = note.expired /\ note' \in NoteReference
  BY DEF Completes, NotesTyped, NoteReference, Text
<1>2. action' = outcome /\ request' = [request EXCEPT ![r] = NoRequest]
  BY DEF Completes, Ends
<1>3. \A s \in NoteRequests : request'[s] = IF s = r THEN NoRequest ELSE request[s]
  BY <1>2 DEF NotesTyped
<1>4. NoRequest \in Request /\ NoRequest.at = "idle"
  BY Gone DEF NoRequest
<1>5. outcome # "AMBIGUOUS" =>
          audits = 0 /\ \A s \in NoteRequests : s # r => request[s].at \notin Posting
  BY DEF PostingInv
<1>6. audits' \in Nat
  BY DEF NotesTyped, Settled
<1>7. NotesTyped'
  BY <1>1, <1>2, <1>4, <1>6 DEF NotesTyped, Settled, Action
<1>8. ReferenceInv'
  BY <1>1, <1>2 DEF ReferenceInv, Settled
<1>9. TextInv'
  BY <1>1, <1>3, <1>4 DEF TextInv, At
<1>10. PostingInv'
  <2>1. \A s \in NoteRequests : request'[s].at \in Posting =>
            request[s].at \in Posting /\ s # r /\ audits' = audits
    BY <1>3, <1>4, <1>5 DEF Posting, Settled
  <2> QED
    BY <1>1, <1>3, <1>4, <2>1 DEF PostingInv, At
<1>11. OutcomeInv'
  BY <1>2, <1>3, <1>4, <1>5 DEF OutcomeInv, Posting, Settled
<1>12. ErasedInv'
  BY <1>1 DEF ErasedInv
<1> QED
  BY <1>7, <1>8, <1>9, <1>10, <1>11, <1>12

LEMMA RecordsSafely ==
    ASSUME NotesInv, NEW r \in NoteRequests,
           Succeeds(r) \/ Concludes(r) \/ CallsAmbiguous(r)
    PROVE  NotesInv'
<1> USE DEF NotesInv
<1>1. CASE CallsAmbiguous(r)
  <2>1. note.claimed
    BY <1>1 DEF CallsAmbiguous, PostingInv
  <2> QED
    BY <1>1, <2>1, CompletesSafely DEF CallsAmbiguous, Settled
<1>2. CASE Concludes(r)
  <2>1. note.claimed /\ request[r].at \in Posting
    BY <1>2 DEF Concludes, PostingInv, Posting, At
  <2>2. CASE At(r, "refused") /\ Completes("FAILED")
    <3>1. notes = <<>> /\ \A s \in NoteRequests : wire[s] = NoText
      BY <2>2 DEF PostingInv
    <3> QED
      BY <1>2, <2>1, <2>2, <3>1, CompletesSafely DEF Concludes, Settled
  <2>3. CASE At(r, "unknown") /\ Completes("AMBIGUOUS")
    BY <1>2, <2>1, <2>3, CompletesSafely DEF Concludes, Settled
  <2> QED
    BY <1>2, <2>2, <2>3 DEF Concludes
<1>3. CASE Succeeds(r)
  <2>1. note.claimed /\ request[r].at \in Posting /\ notes # <<>> /\ audits = 0
    BY <1>3 DEF Succeeds, PostingInv, Posting, At
  <2>2. CASE Completes("SUCCEEDED") /\ audits' = audits + 1 /\ Ends(r)
    BY <1>3, <2>1, <2>2, CompletesSafely DEF Succeeds, Settled
  <2>3. CASE GoesTo(r, "unknown") /\ UNCHANGED <<note, action, audits>>
    <3> DEFINE next == [request[r] EXCEPT !.at = "unknown"]
    <3>1. request' = [request EXCEPT ![r] = next] /\ next \in Request
      BY <2>3, StepsOn DEF Step
    <3>2. next.at = "unknown"
      BY DEF NotesTyped, Request
    <3>3. Stays
      BY <1>3, <2>3 DEF Succeeds, Stays
    <3> HIDE DEF next
    <3> QED
      BY <2>1, <3>1, <3>2, <3>3, OneMoves DEF Posting
  <2> QED
    BY <1>3, <2>2, <2>3 DEF Succeeds
<1> QED
  BY <1>1, <1>2, <1>3

-----------------------------------------------------------------------------
(* The theorems.                                                           *)

LEMMA NotesStep == NotesInv /\ [NotesNext]_noteVars => NotesInv'
<1> SUFFICES ASSUME NotesInv, [NotesNext]_noteVars PROVE NotesInv'
  OBVIOUS
<1>1. CASE UNCHANGED noteVars
  BY <1>1 DEF NotesInv, NotesTyped, ReferenceInv, TextInv, PostingInv, OutcomeInv, ErasedInv,
              At, noteVars
<1>2. CASE NoteExpires \/ MinutePasses
  BY <1>2, TimeIsSafe
<1>3. ASSUME NEW r \in NoteRequests,
             \/ \E text \in Texts : Begins(r, "prepare", text)
             \/ Begins(r, "cancel", NoText) \/ Begins(r, "confirm", NoText)
      PROVE  NotesInv'
  BY <1>3, BeginsSafely DEF Text
<1>4. ASSUME NEW r \in NoteRequests,
             \/ GivesUp(r) \/ PrepareReads(r) \/ CancelReads(r) \/ ConfirmReads(r)
             \/ Fetches(r) \/ TimesOut(r)
             \/ Replays(r, "unless", "withdraw") \/ Replays(r, "once", "fetch")
             \/ Replays(r, "settled", "idle")
      PROVE  NotesInv'
  BY <1>4, ReadsSafely
<1>5. ASSUME NEW r \in NoteRequests,
             Prepares(r) \/ PrepareLooks(r) \/ Withdraws(r) \/ Claims(r)
      PROVE  NotesInv'
  BY <1>5, PreparesSafely, LooksSafely, WithdrawsSafely, ClaimsSafely
<1>6. ASSUME NEW r \in NoteRequests, Posts(r) \/ StoreCreates(r) \/ StoreRefuses(r)
      PROVE  NotesInv'
  BY <1>6, PostsSafely, StoreSafely
<1>7. ASSUME NEW r \in NoteRequests, Succeeds(r) \/ Concludes(r) \/ CallsAmbiguous(r)
      PROVE  NotesInv'
  BY <1>7, RecordsSafely
<1>8. CASE NotesNext
  BY <1>2, <1>3, <1>4, <1>5, <1>6, <1>7, <1>8 DEF NotesNext
<1> QED
  BY <1>1, <1>8

LEMMA NotesStay == NotesSpec => []NotesInv
BY NotesInitial, NotesStep, PTL DEF NotesSpec

\* The requests that have something on its way are one at most.
LEMMA OneOnTheWire ==
    ASSUME NotesInv
    PROVE  LET onWire == {r \in NoteRequests : wire[r] # NoText}
           IN  IF notes = <<>> THEN Cardinality(onWire) \in {0, 1} ELSE onWire = {}
<1> DEFINE onWire == {r \in NoteRequests : wire[r] # NoText}
<1>1. notes # <<>> => onWire = {}
  BY DEF NotesInv, PostingInv
<1>2. onWire = {} \/ \E r \in NoteRequests : onWire = {r}
  BY DEF NotesInv, PostingInv
<1>3. Cardinality(onWire) \in {0, 1}
  BY <1>2, FS_EmptySet, FS_Singleton
<1> QED
  BY <1>1, <1>3

LEMMA NotesTypes == NotesInv => NotesTypeOK
<1> SUFFICES ASSUME NotesInv PROVE NotesTypeOK
  OBVIOUS
<1> DEFINE posting == {r \in NoteRequests : request[r].at \in
                          {"post", "wait", "created", "refused", "unknown"}}
<1>1. Cardinality(posting) <= 1
  <2>1. posting = {} \/ \E r \in NoteRequests : posting = {r}
    BY DEF NotesInv, PostingInv, Posting
  <2> HIDE DEF posting
  <2>2. Cardinality(posting) \in {0, 1}
    BY <2>1, FS_EmptySet, FS_Singleton
  <2> QED
    BY <2>2
<1>2. note.purpose \in {"NOTE_INPUT", "NOTE_CONFIRM"}
  BY DEF NotesInv, NotesTyped, NoteReference
<1>3. previews \subseteq Texts /\ (note.claimed => note.print \in Texts)
  BY <1>2 DEF NotesInv, ReferenceInv
<1>4. notes \in Seq(Texts)
  <2>1. notes = <<>> \/ (note.claimed /\ notes = <<note.print>>)
    BY DEF NotesInv, PostingInv
  <2>2. CASE notes = <<>>
    BY <2>2
  <2>3. CASE note.claimed /\ notes = <<note.print>>
    <3>1. note.print \in Texts
      BY <1>3, <2>3
    <3>2. PICK text \in Texts : text = note.print
      BY <3>1
    <3>3. <<text>> \in Seq(Texts)
      OBVIOUS
    <3> QED
      BY <2>3, <3>2, <3>3
  <2> QED
    BY <2>1, <2>2, <2>3
<1> QED
  BY <1>1, <1>3, <1>4 DEF NotesTypeOK, NotesInv, NotesTyped, ReferenceInv

\* The reference, its action and the requests keep their types; a reference is claimed
\* exactly when it has its action, and one request at most is posting under it.
THEOREM NotesTypeCorrect == NotesSpec => []NotesTypeOK
BY NotesTypes, NotesStay, PTL

\* However often a note is prepared, cancelled and confirmed, and whatever fails, it
\* is posted once at most, with the text its author was shown, and never after its
\* cancellation was confirmed (prepareNote, cancelNote and confirmNote).
THEOREM NotesAreSentAsConfirmed == NotesSpec => []SentAsConfirmed
<1>1. NotesInv => SentAsConfirmed
  <2> SUFFICES ASSUME NotesInv PROVE SentAsConfirmed
    OBVIOUS
  <2>1. \A text \in Sent : note.claimed /\ text = note.print
    <3>1. \A i \in DOMAIN notes : note.claimed /\ notes[i] = note.print
      BY DEF NotesInv, PostingInv
    <3> QED
      BY <3>1 DEF Sent, NotesInv, PostingInv
  <2>2. \A text \in Sent : previews = {text}
    BY <2>1 DEF NotesInv, ReferenceInv, NotesTyped, NoteReference
  <2>3. cancelled => Sent = {}
    BY <2>1 DEF NotesInv, ErasedInv
  <2>4. Len(notes) + Cardinality({r \in NoteRequests : wire[r] # NoText}) <= 1
    <3>1. CASE notes = <<>>
      BY <3>1, OneOnTheWire
    <3>2. CASE notes # <<>>
      <4>1. Len(notes) = 1
        BY <3>2 DEF NotesInv, PostingInv
      <4>2. {r \in NoteRequests : wire[r] # NoText} = {}
        BY <3>2, OneOnTheWire
      <4>3. Cardinality({r \in NoteRequests : wire[r] # NoText}) = 0
        BY <4>2, FS_EmptySet
      <4> QED
        BY <4>1, <4>3
    <3> QED
      BY <3>1, <3>2
  <2> QED
    BY <2>2, <2>3, <2>4 DEF SentAsConfirmed, PostedAsPreviewed, CancelledIsUnsent
<1> QED
  BY <1>1, NotesStay, PTL

\* A note recorded as SUCCEEDED is in the store and audited once, one recorded as
\* FAILED neither is nor will be there, and no text outlives its action's outcome
\* (completeNoteAction).
THEOREM NotesEndTruly == NotesSpec => []NoteEndsAreTrue
<1>1. NotesInv => NoteEndsAreTrue
  <2> SUFFICES ASSUME NotesInv PROVE NoteEndsAreTrue
    OBVIOUS
  <2>1. action = "FAILED" => Sent = {}
    BY DEF NotesInv, OutcomeInv, Sent
  <2>2. audits <= Len(notes)
    <3>1. notes = <<>> \/ notes = <<note.print>>
      BY DEF NotesInv, PostingInv
    <3>2. audits = 0 \/ (audits = 1 /\ notes # <<>>)
      BY DEF NotesInv, OutcomeInv
    <3>3. Len(<<>>) = 0 /\ Len(<<note.print>>) = 1
      OBVIOUS
    <3> QED
      BY <3>1, <3>2, <3>3
  <2>3. NoteOutcomesAreTrue
    BY <2>1, <2>2 DEF NotesInv, OutcomeInv, NoteOutcomesAreTrue
  <2>4. NoteBodiesErased
    BY DEF NotesInv, ErasedInv, NoteBodiesErased, Settled
  <2> QED
    BY <2>3, <2>4 DEF NoteEndsAreTrue
<1> QED
  BY <1>1, NotesStay, PTL

-----------------------------------------------------------------------------
(* Settings: the journal explains them.  Its entries came through          *)
(* references of their own store; a reference for a typed value is used    *)
(* up by its entry, whatever became of the request that checked it.        *)

Value == {"on", "off"} \cup Nat \cup Languages \cup Timezones \cup Thresholds \cup Modes

SettingName == {"language", "timezone", "threshold", "mode", "category", "recipient"}

JournalEntry == [setting : SettingName, of : Categories \cup {""}, was : Value,
                 is : Value, token : Tokens]

\* The settings have finitely many recipients, and the journal explains them.
JournalInv ==
    /\ journal \in [Owners -> Seq(JournalEntry)]
    /\ \A o \in Owners : IsFiniteSet(settings[o].selected)
    /\ JournalExplains

\* A reference in the journal of a store is one of that store, and used up if it
\* was for a typed value.
EntryTokens ==
    \A o \in Owners : \A i \in DOMAIN journal[o] :
        LET t == journal[o][i].token
        IN  /\ token[t] # NoToken /\ (o \in Stores => token[t].store = o)
            /\ token[t].use # "action" => token[t].age = "consumed"

\* A request has a reference that exists, and applies one of its own store.
FormTokens ==
    \A f \in Forms :
        LET r == form[f]
        IN  /\ r.step # "off" => r.store \in Stores
            /\ r.step \in {"check", "apply"} => r.token \in Tokens /\ token[r.token] # NoToken
            /\ r.step = "check" => r.kind # "summary"
            /\ r.step = "apply" =>
                  /\ token[r.token].store = r.store
                  /\ r.kind \in {"input", "action"}
                  /\ (r.kind = "action") <=> (token[r.token].use = "action")

SettingsInv ==
    /\ SettingsTypeOK /\ JournalInv /\ EntryTokens /\ FormTokens /\ InputUsedOnce

-----------------------------------------------------------------------------
(* What a change does to a setting.                                        *)

\* The five things the settings hold, by their names.
LEMMA WantKinds ==
    ASSUME NEW want \in Desires
    PROVE  \/ want.setting = "category" /\ want.of \in Categories /\ want.value \in {"on", "off"}
           \/ want.setting = "recipient" /\ want.of \in Members /\ want.value \in {"on", "off"}
           \/ want.setting = "language" /\ want.value \in Languages
           \/ want.setting = "timezone" /\ want.value \in Timezones
           \/ want.setting = "threshold" /\ want.value \in Thresholds
           \/ want.setting = "mode" /\ want.value \in Modes
  BY DEF Desires

LEMMA SettingsFields ==
    ASSUME NEW s \in Settings
    PROVE  /\ s.language \in Languages /\ s.timezone \in Timezones
           /\ s.threshold \in Thresholds /\ s.categories \subseteq Categories
           /\ s.mode \in Modes /\ s.selected \subseteq Members /\ s.version \in Nat
           /\ s = [language |-> s.language, timezone |-> s.timezone,
                   threshold |-> s.threshold, categories |-> s.categories,
                   mode |-> s.mode, selected |-> s.selected, version |-> s.version]
  BY DEF Settings

\* A change of one setting leaves the others.
LEMMA AppliedFields ==
    ASSUME NEW s \in Settings, NEW want \in Desires, NEW r, r = Applied(s, want)
    PROVE  /\ r \in Settings
           /\ r.language = IF want.setting = "language" THEN want.value ELSE s.language
           /\ r.timezone = IF want.setting = "timezone" THEN want.value ELSE s.timezone
           /\ r.threshold = IF want.setting = "threshold" THEN want.value ELSE s.threshold
           /\ r.mode = IF want.setting = "mode" THEN want.value ELSE s.mode
           /\ r.categories = IF want.setting = "category"
                             THEN Put(s.categories, want.of, want.value) ELSE s.categories
           /\ r.selected = IF want.setting = "recipient"
                           THEN Put(s.selected, want.of, want.value) ELSE s.selected
  <1>1. s = [language |-> s.language, timezone |-> s.timezone,
             threshold |-> s.threshold, categories |-> s.categories,
             mode |-> s.mode, selected |-> s.selected, version |-> s.version]
    BY SettingsFields
  <1>2. CASE want.setting = "category"
    <2>1. r = [language |-> s.language, timezone |-> s.timezone, threshold |-> s.threshold,
               categories |-> Put(s.categories, want.of, want.value), mode |-> s.mode,
               selected |-> s.selected,
               version |-> IF want.of = "LOW_STOCK" THEN s.version + 1 ELSE s.version]
      BY <1>1, <1>2 DEF Applied
    <2>2. Put(s.categories, want.of, want.value) \subseteq Categories
      BY <1>2, WantKinds, SettingsFields DEF Put
    <2> QED
      BY <1>2, <2>1, <2>2, SettingsFields DEF Settings
  <1>3. CASE want.setting = "recipient"
    <2>1. r = [language |-> s.language, timezone |-> s.timezone, threshold |-> s.threshold,
               categories |-> s.categories, mode |-> s.mode,
               selected |-> Put(s.selected, want.of, want.value), version |-> s.version + 1]
      BY <1>1, <1>3 DEF Applied
    <2>2. Put(s.selected, want.of, want.value) \subseteq Members
      BY <1>3, WantKinds, SettingsFields DEF Put
    <2> QED
      BY <1>3, <2>1, <2>2, SettingsFields DEF Settings
  <1>4. CASE want.setting = "mode"
    <2>1. r = [language |-> s.language, timezone |-> s.timezone, threshold |-> s.threshold,
               categories |-> s.categories, mode |-> want.value, selected |-> s.selected,
               version |-> s.version + 1]
      BY <1>1, <1>4 DEF Applied
    <2> QED
      BY <1>4, <2>1, WantKinds, SettingsFields DEF Settings
  <1>5. CASE want.setting = "language"
    <2>1. r = [language |-> want.value, timezone |-> s.timezone, threshold |-> s.threshold,
               categories |-> s.categories, mode |-> s.mode, selected |-> s.selected,
               version |-> s.version]
      BY <1>1, <1>5 DEF Applied
    <2> QED
      BY <1>5, <2>1, WantKinds, SettingsFields DEF Settings
  <1>6. CASE want.setting = "timezone"
    <2>1. r = [language |-> s.language, timezone |-> want.value, threshold |-> s.threshold,
               categories |-> s.categories, mode |-> s.mode, selected |-> s.selected,
               version |-> s.version]
      BY <1>1, <1>6 DEF Applied
    <2> QED
      BY <1>6, <2>1, WantKinds, SettingsFields DEF Settings
  <1>7. CASE want.setting = "threshold"
    <2>1. r = [language |-> s.language, timezone |-> s.timezone, threshold |-> want.value,
               categories |-> s.categories, mode |-> s.mode, selected |-> s.selected,
               version |-> s.version]
      BY <1>1, <1>7 DEF Applied
    <2> QED
      BY <1>7, <2>1, WantKinds, SettingsFields DEF Settings
  <1> QED
    BY <1>2, <1>3, <1>4, <1>5, <1>6, <1>7, WantKinds

LEMMA OldIs ==
    ASSUME NEW s \in Settings, NEW want \in Desires, IsFiniteSet(s.selected)
    PROVE  /\ want.setting = "category" =>
                 Old(s, want) = IF want.of \in s.categories THEN "on" ELSE "off"
           /\ want.setting = "recipient" => Old(s, want) = Cardinality(s.selected)
           /\ want.setting = "language" => Old(s, want) = s.language
           /\ want.setting = "timezone" => Old(s, want) = s.timezone
           /\ want.setting = "threshold" => Old(s, want) = s.threshold
           /\ want.setting = "mode" => Old(s, want) = s.mode
           /\ Old(s, want) \in Value
  <1>1. Cardinality(s.selected) \in Nat
    BY FS_CardinalityType
  <1>2. CASE want.setting = "category"
    BY <1>2 DEF Old, Value
  <1>3. CASE want.setting = "recipient"
    BY <1>1, <1>3 DEF Old, Value
  <1>4. CASE want.setting = "language"
    BY <1>4, SettingsFields DEF Old, Value
  <1>5. CASE want.setting = "timezone"
    BY <1>5, SettingsFields DEF Old, Value
  <1>6. CASE want.setting = "threshold"
    BY <1>6, SettingsFields DEF Old, Value
  <1>7. CASE want.setting = "mode"
    BY <1>7, SettingsFields DEF Old, Value
  <1> QED
    BY <1>2, <1>3, <1>4, <1>5, <1>6, <1>7, WantKinds

\* Recipients come and go one at a time, so that their number tells.
LEMMA RecipientsChange ==
    ASSUME NEW S, IsFiniteSet(S), NEW x, NEW v \in {"on", "off"}
    PROVE  /\ IsFiniteSet(Put(S, x, v))
           /\ (x \in S) # (v = "on") => Cardinality(Put(S, x, v)) # Cardinality(S)
  <1>1. Cardinality(S) \in Nat
    BY FS_CardinalityType
  <1>2. CASE v = "on"
    <2>1. Put(S, x, v) = S \cup {x}
      BY <1>2 DEF Put
    <2> QED
      BY <1>1, <1>2, <2>1, FS_AddElement
  <1>3. CASE v = "off"
    <2>1. Put(S, x, v) = S \ {x}
      BY <1>3 DEF Put
    <2> QED
      BY <1>1, <1>3, <2>1, FS_RemoveElement
  <1> QED
    BY <1>2, <1>3

\* A change is seen in the setting it is about, and in no other.
LEMMA ChangeIsSeen ==
    ASSUME NEW s \in Settings, NEW want \in Desires, IsFiniteSet(s.selected),
           Changes(s, want)
    PROVE  /\ IsFiniteSet(Applied(s, want).selected)
           /\ Old(Applied(s, want), want) # Old(s, want)
  <1> DEFINE r == Applied(s, want)
  <1>1. r \in Settings
    BY AppliedFields
  <1>2. IsFiniteSet(r.selected)
    <2>1. CASE want.setting = "recipient"
      BY <2>1, AppliedFields, RecipientsChange, WantKinds
    <2>2. CASE want.setting # "recipient"
      BY <2>2, AppliedFields
    <2> QED
      BY <2>1, <2>2
  <1>3. CASE want.setting = "recipient"
    <2>1. (want.of \in s.selected) # (want.value = "on")
      BY <1>3 DEF Changes
    <2> QED
      BY <1>1, <1>2, <1>3, <2>1, AppliedFields, RecipientsChange, WantKinds, OldIs
  <1>4. CASE want.setting = "category"
    <2>1. (want.of \in s.categories) # (want.value = "on")
      BY <1>4 DEF Changes
    <2>2. (want.of \in r.categories) = (want.value = "on")
      <3>1. r.categories = Put(s.categories, want.of, want.value)
        BY <1>4, AppliedFields
      <3>2. want.value = "on" => want.of \in r.categories
        BY <3>1 DEF Put
      <3>3. want.value # "on" => want.of \notin r.categories
        BY <3>1 DEF Put
      <3> QED
        BY <3>2, <3>3
    <2> QED
      BY <1>1, <1>2, <1>4, <2>1, <2>2, OldIs
  <1>5. CASE want.setting = "language"
    <2>1. s.language # want.value
      BY <1>5, SettingsFields DEF Changes
    <2> QED
      BY <1>1, <1>2, <1>5, <2>1, AppliedFields, OldIs
  <1>6. CASE want.setting = "timezone"
    <2>1. s.timezone # want.value
      BY <1>6, SettingsFields DEF Changes
    <2> QED
      BY <1>1, <1>2, <1>6, <2>1, AppliedFields, OldIs
  <1>7. CASE want.setting = "threshold"
    <2>1. s.threshold # want.value
      BY <1>7, SettingsFields DEF Changes
    <2> QED
      BY <1>1, <1>2, <1>7, <2>1, AppliedFields, OldIs
  <1>8. CASE want.setting = "mode"
    <2>1. s.mode # want.value
      BY <1>8, SettingsFields DEF Changes
    <2> QED
      BY <1>1, <1>2, <1>8, <2>1, AppliedFields, OldIs
  <1> QED
    BY <1>2, <1>3, <1>4, <1>5, <1>6, <1>7, <1>8, WantKinds

LEMMA EntryIs ==
    ASSUME NEW s \in Settings, NEW done \in Desires, IsFiniteSet(s.selected),
           IsFiniteSet(Applied(s, done).selected), NEW t \in Tokens
    PROVE  Entry(s, done, t) \in JournalEntry
  <1>1. Old(s, done) \in Value /\ Old(Applied(s, done), done) \in Value
    BY AppliedFields, OldIs
  <1>2. done.setting \in SettingName /\ (done.setting = "category" => done.of \in Categories)
    BY WantKinds DEF SettingName
  <1> QED
    BY <1>1, <1>2 DEF Entry, JournalEntry

\* What an entry about a setting says is what every desire about it sees.
LEMMA AboutTheSame ==
    ASSUME NEW s \in Settings, NEW done \in Desires, NEW want \in Desires,
           IsFiniteSet(s.selected), IsFiniteSet(Applied(s, done).selected), NEW t \in Tokens
    PROVE  IF IsAbout(Entry(s, done, t), want)
           THEN /\ Entry(s, done, t).was = Old(s, want)
                /\ Entry(s, done, t).is = Old(Applied(s, done), want)
           ELSE Old(Applied(s, done), want) = Old(s, want)
  <1> DEFINE e == Entry(s, done, t)
             r == Applied(s, done)
  <1>1. /\ e.setting = done.setting /\ e.was = Old(s, done) /\ e.is = Old(r, done)
        /\ e.of = IF done.setting = "category" THEN done.of ELSE ""
    BY DEF Entry
  <1>2. r \in Settings /\ IsFiniteSet(r.selected)
    BY AppliedFields
  <1>3. CASE IsAbout(e, want)
    <2>1. want.setting = done.setting /\ (want.setting = "category" => want.of = done.of)
      BY <1>1, <1>3 DEF IsAbout
    <2>2. \A q \in Settings : Old(q, done) = Old(q, want)
      BY <2>1 DEF Old
    <2> QED
      BY <1>1, <1>2, <1>3, <2>2
  <1>4. CASE ~IsAbout(e, want)
    <2>1. want.setting # done.setting \/ (want.setting = "category" /\ want.of # done.of)
      BY <1>1, <1>4 DEF IsAbout
    <2>2. /\ r.language = s.language \/ want.setting # "language"
          /\ r.timezone = s.timezone \/ want.setting # "timezone"
          /\ r.threshold = s.threshold \/ want.setting # "threshold"
          /\ r.mode = s.mode \/ want.setting # "mode"
          /\ r.selected = s.selected \/ want.setting # "recipient"
      BY <2>1, AppliedFields
    <2>3. want.setting = "category" => (want.of \in r.categories <=> want.of \in s.categories)
      <3>1. CASE done.setting # "category"
        BY <3>1, AppliedFields
      <3>2. CASE done.setting = "category"
        <4>1. r.categories = Put(s.categories, done.of, done.value)
          BY <3>2, AppliedFields
        <4>2. want.setting = "category" => want.of # done.of
          BY <2>1, <3>2
        <4> QED
          BY <4>1, <4>2 DEF Put
      <3> QED
        BY <3>1, <3>2
    <2> HIDE DEF r
    <2>4. want.setting = "category" => Old(r, want) = Old(s, want)
      BY <1>2, <2>3, OldIs
    <2>5. want.setting = "recipient" => Old(r, want) = Old(s, want)
      BY <1>2, <2>2, OldIs
    <2>6. want.setting \in {"language", "timezone", "threshold", "mode"} => Old(r, want) = Old(s, want)
      BY <1>2, <2>2, OldIs
    <2>7. Old(r, want) = Old(s, want)
      BY <2>4, <2>5, <2>6, WantKinds
    <2> QED
      BY <1>4, <2>7 DEF r
  <1> QED
    BY <1>3, <1>4

\* The journal explains the settings after a change with its entry.
LEMMA LogGrows ==
    ASSUME NEW s \in Settings, NEW done \in Desires, NEW want \in Desires,
           IsFiniteSet(s.selected), Changes(s, done), NEW t \in Tokens,
           NEW log \in Seq(JournalEntry), NEW whole \in BOOLEAN,
           Explains(log, s, want, whole)
    PROVE  Explains(Append(log, Entry(s, done, t)), Applied(s, done), want, whole)
  <1> DEFINE e == Entry(s, done, t)
             r == Applied(s, done)
             before == {i \in DOMAIN log : IsAbout(log[i], want)}
             longer == Append(log, e)
             entries == {i \in DOMAIN longer : IsAbout(longer[i], want)}
             n == Len(log) + 1
  <1>1. /\ IsFiniteSet(r.selected) /\ Old(r, done) # Old(s, done)
        /\ e \in JournalEntry
    BY ChangeIsSeen, EntryIs
  <1>2. IF IsAbout(e, want) THEN e.was = Old(s, want) /\ e.is = Old(r, want)
        ELSE Old(r, want) = Old(s, want)
    BY <1>1, AboutTheSame
  <1>3. e.was # e.is
    BY <1>1 DEF Entry
  <1> HIDE DEF e, r
  <1>4. /\ \A i \in DOMAIN log : i \in Nat /\ i < n /\ longer[i] = log[i]
        /\ longer[n] = e /\ n \in Nat
        /\ \A i : i \in DOMAIN longer <=> i \in DOMAIN log \/ i = n
    BY <1>1
  <1> HIDE DEF longer, n
  <1>5. \A i \in entries : i \in before \/ (i = n /\ IsAbout(e, want))
    BY <1>4
  <1>6. \A i \in before : i \in entries /\ i \in Nat /\ i < n /\ longer[i] = log[i]
    BY <1>4
  <1>7. IsAbout(e, want) => n \in entries
    BY <1>4
  <1>8. /\ \A i \in before : log[i].was # log[i].is
        /\ \A i, j \in before :
              i < j /\ (\A k \in before : k <= i \/ k >= j) => log[j].was = log[i].is
        /\ whole => \A i \in before : (\A k \in before : k >= i)
              => log[i].was = Old(DefaultSettings, want)
        /\ \A i \in before : (\A k \in before : k <= i) => log[i].is = Old(s, want)
        /\ whole => (before = {} => Old(s, want) = Old(DefaultSettings, want))
    BY DEF Explains
  <1> HIDE DEF before, entries
  <1>9. \A i \in entries : longer[i].was # longer[i].is
    BY <1>3, <1>4, <1>5, <1>6, <1>8
  <1>10. ASSUME NEW i \in entries, NEW j \in entries, i < j,
                \A k \in entries : k <= i \/ k >= j
         PROVE  longer[j].was = longer[i].is
    <2>1. i \in before
      BY <1>4, <1>5, <1>6, <1>10
    <2>2. CASE j \in before
      BY <1>6, <1>8, <1>10, <2>1, <2>2
    <2>3. CASE j = n /\ IsAbout(e, want)
      <3>1. \A k \in before : k <= i
        BY <1>6, <1>10, <2>3, <1>4
      <3>2. log[i].is = Old(s, want)
        BY <1>8, <2>1, <3>1
      <3> QED
        BY <1>2, <1>4, <1>6, <2>1, <2>3, <3>2
    <2> QED
      BY <1>5, <2>2, <2>3
  <1>11. ASSUME whole, NEW i \in entries, \A k \in entries : k >= i
         PROVE  longer[i].was = Old(DefaultSettings, want)
    <2>1. CASE i \in before
      BY <1>6, <1>8, <1>11, <2>1
    <2>2. CASE i = n /\ IsAbout(e, want)
      <3>1. before = {}
        BY <1>4, <1>6, <1>11, <2>2
      <3> QED
        BY <1>2, <1>4, <1>8, <1>11, <2>2, <3>1
    <2> QED
      BY <1>5, <2>1, <2>2
  <1>12. ASSUME NEW i \in entries, \A k \in entries : k <= i
         PROVE  longer[i].is = Old(r, want)
    <2>1. CASE IsAbout(e, want)
      <3>1. i = n
        BY <1>4, <1>5, <1>6, <1>7, <1>12, <2>1
      <3> QED
        BY <1>2, <1>4, <2>1, <3>1
    <2>2. CASE ~IsAbout(e, want)
      <3>1. i \in before /\ \A k \in before : k <= i
        BY <1>5, <1>6, <1>12, <2>2
      <3> QED
        BY <1>2, <1>6, <1>8, <2>2, <3>1
    <2> QED
      BY <2>1, <2>2
  <1>13. whole => (entries = {} => Old(r, want) = Old(DefaultSettings, want))
    <2> SUFFICES ASSUME whole, entries = {} PROVE Old(r, want) = Old(DefaultSettings, want)
      OBVIOUS
    <2>1. before = {} /\ ~IsAbout(e, want)
      BY <1>6, <1>7
    <2> QED
      BY <1>2, <1>8, <2>1
  <1> QED
    BY <1>9, <1>10, <1>11, <1>12, <1>13 DEF Explains, entries, longer, e, r

\* Of a log without its oldest entry the rest holds as before.
LEMMA LogShrinks ==
    ASSUME NEW s, NEW want, NEW whole, NEW log \in Seq(JournalEntry), log # <<>>,
           Explains(log, s, want, whole)
    PROVE  Explains(Tail(log), s, want, FALSE)
  <1> DEFINE rest == Tail(log)
             before == {i \in DOMAIN log : IsAbout(log[i], want)}
             entries == {i \in DOMAIN rest : IsAbout(rest[i], want)}
  <1>1. /\ Len(log) \in Nat \ {0} /\ DOMAIN log = 1 .. Len(log)
        /\ DOMAIN rest = 1 .. (Len(log) - 1)
        /\ \A i \in 1 .. (Len(log) - 1) : rest[i] = log[i + 1]
    OBVIOUS
  <1>2. /\ \A i \in before : log[i].was # log[i].is
        /\ \A i, j \in before :
              i < j /\ (\A k \in before : k <= i \/ k >= j) => log[j].was = log[i].is
        /\ \A i \in before : (\A k \in before : k <= i) => log[i].is = Old(s, want)
    BY DEF Explains
  <1> HIDE DEF rest
  <1>3. \A i \in entries : i \in Nat \ {0} /\ i + 1 \in before /\ rest[i] = log[i + 1]
    BY <1>1
  <1>4. \A k \in before : k \in Nat /\ (k = 1 \/ k - 1 \in entries)
    <2> SUFFICES ASSUME NEW k \in before, k # 1 PROVE k - 1 \in entries
      BY <1>1
    <2>1. k - 1 \in 1 .. (Len(log) - 1) /\ (k - 1) + 1 = k
      BY <1>1
    <2> QED
      BY <1>1, <2>1
  <1> HIDE DEF before, entries
  <1>5. \A i \in entries : rest[i].was # rest[i].is
    BY <1>2, <1>3
  <1>6. ASSUME NEW i \in entries, NEW j \in entries, i < j,
               \A k \in entries : k <= i \/ k >= j
        PROVE  rest[j].was = rest[i].is
    <2>1. i + 1 \in before /\ j + 1 \in before /\ i + 1 < j + 1
      BY <1>3, <1>6
    <2>2. ASSUME NEW k \in before PROVE k <= i + 1 \/ k >= j + 1
      <3>1. i \in Nat /\ j \in Nat /\ k \in Nat /\ (k = 1 \/ k - 1 \in entries)
        BY <1>3, <1>4
      <3>2. k - 1 \in entries => k - 1 <= i \/ k - 1 >= j
        BY <1>6
      <3> QED
        BY <3>1, <3>2
    <2>3. log[j + 1].was = log[i + 1].is
      BY <1>2, <2>1, <2>2
    <2> QED
      BY <1>3, <2>3
  <1>7. ASSUME NEW i \in entries, \A k \in entries : k <= i
        PROVE  rest[i].is = Old(s, want)
    <2>1. i + 1 \in before /\ \A k \in before : k <= i + 1
      BY <1>3, <1>4, <1>7
    <2> QED
      BY <1>2, <1>3, <2>1
  <1> QED
    BY <1>5, <1>6, <1>7 DEF Explains, entries, rest

\* A log explains a setting, whatever else has changed.
LEMMA ExplainsStill ==
    ASSUME NEW s, NEW s2, NEW want, NEW log, NEW whole,
           Old(s2, want) = Old(s, want), Explains(log, s, want, whole)
    PROVE  Explains(log, s2, want, whole)
  BY DEF Explains

-----------------------------------------------------------------------------
(* Initial states, and the steps that leave the journal alone.             *)

LEMMA SettingsInvInit == SettingsInit => SettingsInv
  <1> SUFFICES ASSUME SettingsInit PROVE SettingsInv
    OBVIOUS
  <1> USE SettingsAssumption DEF SettingsInit
  <1>1. DefaultSettings \in Settings /\ DefaultSettings.selected = {}
    BY DEF DefaultSettings, Settings, Languages, Timezones, Thresholds, Categories, Modes
  <1>2. \A f \in Forms : form[f] = NoForm
    OBVIOUS
  <1>3. \A o \in Owners : journal[o] = <<>> /\ settings[o] = DefaultSettings
    OBVIOUS
  <1>4. SettingsTypeOK
    BY <1>1, <1>2, <1>3 DEF SettingsTypeOK, NoForm, Kind
  <1>5. JournalInv
    <2>1. IsFiniteSet({})
      BY FS_EmptySet
    <2>2. <<>> \in Seq(JournalEntry) /\ DOMAIN <<>> = {}
      OBVIOUS
    <2>3. \A want \in Asked : Explains(<<>>, DefaultSettings, want, TRUE)
      BY <2>2 DEF Explains
    <2> QED
      BY <1>1, <1>3, <2>1, <2>2, <2>3 DEF JournalInv, JournalExplains
  <1>6. EntryTokens /\ InputUsedOnce
    BY <1>3 DEF EntryTokens, InputUsedOnce
  <1>7. FormTokens
    BY <1>2 DEF FormTokens, NoForm
  <1> QED
    BY <1>4, <1>5, <1>6, <1>7 DEF SettingsInv

Form == [step : {"off", "check", "apply", "summary"}, kind : Kind,
         token : Tokens \cup {NoToken}, store : Stores \cup {NoStore}, manages : BOOLEAN]

\* A form moves, and nothing that its step asks for is missing.
FormMoves(f, to) ==
    /\ to \in Form /\ form' = [form EXCEPT ![f] = to]
    /\ to.step # "off" => to.store \in Stores
    /\ to.step \in {"check", "apply"} => to.token \in Tokens /\ token[to.token] # NoToken
    /\ to.step = "check" => to.kind # "summary"
    /\ to.step = "apply" =>
          /\ token[to.token].store = to.store
          /\ to.kind \in {"input", "action"}
          /\ (to.kind = "action") <=> (token[to.token].use = "action")

\* No reference changes but in its age, or by being issued.
TokensKeep ==
    /\ token' \in [Tokens -> Token \cup {NoToken}]
    /\ \A t \in Tokens : token[t] # NoToken =>
          /\ token'[t] # NoToken /\ token'[t].store = token[t].store
          /\ token'[t].use = token[t].use
          /\ token[t].use # "action" /\ token[t].age = "consumed" => token'[t].age = "consumed"

LEMMA NoFormMoves == NoForm \in Form /\ NoForm.step = "off"
  BY DEF NoForm, Form, Kind

LEMMA TokensStay == ASSUME SettingsInv, token' = token PROVE TokensKeep
  BY DEF SettingsInv, SettingsTypeOK, TokensKeep

\* A form that moves, or none, and the references.
LEMMA FormsStep ==
    ASSUME SettingsInv, NEW f \in Forms, NEW to, FormMoves(f, to), TokensKeep
    PROVE  FormTokens' /\ form' \in [Forms -> Form] /\ \A g \in Forms :
              form'[g].step \in {"check", "apply"} => form'[g].token # NoToken
  <1>1. form \in [Forms -> Form]
    BY DEF SettingsInv, SettingsTypeOK, Form
  <1>2. \A g \in Forms : form'[g] = IF g = f THEN to ELSE form[g]
    BY <1>1 DEF FormMoves
  <1>3. form' \in [Forms -> Form]
    BY <1>1 DEF FormMoves
  <1>4. FormTokens'
    <2> SUFFICES ASSUME NEW g \in Forms
                 PROVE  /\ form'[g].step # "off" => form'[g].store \in Stores
                        /\ form'[g].step \in {"check", "apply"} =>
                              form'[g].token \in Tokens /\ token'[form'[g].token] # NoToken
                        /\ form'[g].step = "check" => form'[g].kind # "summary"
                        /\ form'[g].step = "apply" =>
                              /\ token'[form'[g].token].store = form'[g].store
                              /\ form'[g].kind \in {"input", "action"}
                              /\ (form'[g].kind = "action") <=>
                                     (token'[form'[g].token].use = "action")
      BY DEF FormTokens
    <2>1. CASE g = f
      BY <1>2, <2>1 DEF FormMoves, TokensKeep
    <2>2. CASE g # f
      BY <1>2, <2>2 DEF SettingsInv, FormTokens, TokensKeep
    <2> QED
      BY <2>1, <2>2
  <1>5. \A g \in Forms : form'[g].step \in {"check", "apply"} => form'[g].token # NoToken
    BY <1>2, SettingsAssumption DEF FormMoves, SettingsInv, SettingsTypeOK
  <1> QED
    BY <1>3, <1>4, <1>5

LEMMA EntriesTyped ==
    ASSUME SettingsInv, NEW s \in Owners, NEW i \in DOMAIN journal[s]
    PROVE  /\ journal[s][i] \in JournalEntry /\ journal[s][i].token \in Tokens
           /\ token[journal[s][i].token] # NoToken
           /\ s \in Stores => token[journal[s][i].token].store = s
           /\ token[journal[s][i].token].use # "action" =>
                 token[journal[s][i].token].age = "consumed"
  <1>1. journal[s] \in Seq(JournalEntry)
    BY DEF SettingsInv, JournalInv
  <1>2. journal[s][i] \in JournalEntry
    BY <1>1
  <1>3. journal[s][i].token \in Tokens
    BY <1>2 DEF JournalEntry
  <1>4. EntryTokens
    BY DEF SettingsInv
  <1> QED
    BY <1>2, <1>3, <1>4 DEF EntryTokens

LEMMA EntriesStay ==
    ASSUME SettingsInv, TokensKeep, UNCHANGED journal
    PROVE  EntryTokens' /\ InputUsedOnce'
  <1>1. ASSUME NEW s \in Owners, NEW i \in DOMAIN journal[s], NEW t, t = journal[s][i].token
        PROVE  /\ token'[t] # NoToken /\ (s \in Stores => token'[t].store = s)
               /\ token'[t].use = token[t].use
               /\ token'[t].use # "action" => token'[t].age = "consumed"
    BY <1>1, EntriesTyped DEF TokensKeep
  <1>2. EntryTokens'
    BY <1>1 DEF EntryTokens
  <1>3. InputUsedOnce'
    BY <1>1 DEF InputUsedOnce, SettingsInv
  <1> QED
    BY <1>2, <1>3

\* The settings and their journal stay.
LEMMA QuietStep ==
    ASSUME SettingsInv, NEW f \in Forms, NEW to, FormMoves(f, to), TokensKeep,
           UNCHANGED <<settings, contextVars, journal, pastVars>>
    PROVE  SettingsInv'
  <1>1. /\ FormTokens' /\ form' \in [Forms -> Form]
        /\ \A g \in Forms : form'[g].step \in {"check", "apply"} => form'[g].token # NoToken
    BY FormsStep
  <1>2. SettingsTypeOK'
    BY <1>1 DEF SettingsInv, SettingsTypeOK, contextVars, pastVars, TokensKeep, Form
  <1>3. JournalInv'
    BY DEF SettingsInv, JournalInv, JournalExplains, pastVars
  <1>4. EntryTokens' /\ InputUsedOnce'
    BY EntriesStay
  <1> QED
    BY <1>1, <1>2, <1>3, <1>4 DEF SettingsInv

LEMMA ResolvesStep ==
    ASSUME SettingsInv, NEW f \in Forms, NEW k \in Kind, NEW t \in Tokens, Resolves(f, k, t)
    PROVE  SettingsInv'
  <1> DEFINE to == [step |-> IF k = "summary" THEN "summary" ELSE "check",
                    kind |-> k, token |-> IF k = "summary" THEN NoToken ELSE t,
                    store |-> context, manages |-> role # "MEMBER"]
  <1>1. to \in Form
    BY DEF Form, SettingsInv, SettingsTypeOK
  <1>2. context \in Stores
    BY DEF Resolves, SettingsInv, SettingsTypeOK
  <1>3. FormMoves(f, to)
    BY <1>1, <1>2 DEF FormMoves, Resolves, Becomes
  <1> HIDE DEF to
  <1> QED
    BY <1>3, TokensStay, QuietStep DEF Resolves

LEMMA AnsweredStep ==
    ASSUME SettingsInv, NEW f \in Forms, Answered(f), TokensKeep,
           UNCHANGED <<settings, contextVars, journal, pastVars>>
    PROVE  SettingsInv'
  <1>1. FormMoves(f, NoForm)
    BY NoFormMoves DEF Answered, Becomes, FormMoves
  <1> QED
    BY <1>1, QuietStep

LEMMA CheckReferenceStep ==
    ASSUME SettingsInv, NEW f \in Forms, CheckReference(f)
    PROVE  SettingsInv'
  <1>1. TokensKeep /\ UNCHANGED <<settings, contextVars, journal, pastVars>>
    BY TokensStay DEF CheckReference
  <1>2. CASE Answered(f)
    BY <1>1, <1>2, AnsweredStep
  <1>3. CASE ~Answered(f)
    <2> DEFINE r == form[f]
               to == [r EXCEPT !.step = "apply"]
    <2>1. /\ r.step = "check" /\ Becomes(f, to) /\ r.kind # "start"
          /\ Valid(r.token, r.store) /\ (r.kind = "action") = (token[r.token].use = "action")
      BY <1>3 DEF CheckReference
    <2>2. r \in Form /\ r.token \in Tokens /\ token[r.token] # NoToken
      BY <2>1 DEF SettingsInv, SettingsTypeOK, Form, FormTokens
    <2>3. r = [step |-> r.step, kind |-> r.kind, token |-> r.token, store |-> r.store,
               manages |-> r.manages]
      BY <2>2 DEF Form
    <2>4. to = [step |-> "apply", kind |-> r.kind, token |-> r.token, store |-> r.store,
                manages |-> r.manages]
      BY <2>2 DEF Form
    <2>9. r.kind \in {"input", "action"}
      BY <2>1, <2>2 DEF Form, Kind, SettingsInv, FormTokens
    <2> HIDE DEF to, r
    <2>5. token[r.token] \in Token
      BY <2>2 DEF SettingsInv, SettingsTypeOK
    <2>6. token[r.token].store = r.store /\ r.store \in Stores
      BY <2>1, <2>5 DEF Valid, Token
    <2>7. to \in Form
      BY <2>2, <2>4 DEF Form
    <2>8. FormMoves(f, to)
      BY <2>1, <2>2, <2>4, <2>6, <2>7, <2>9 DEF FormMoves, Becomes
    <2> QED
      BY <1>1, <2>8, QuietStep
  <1> QED
    BY <1>2, <1>3

-----------------------------------------------------------------------------
(* The steps that change the settings.                                     *)

LEMMA ChangeExplains ==
    ASSUME SettingsInv, NEW s \in Stores, NEW want \in Asked, NEW t \in Tokens,
           Change(s, want, t), UNCHANGED pastVars,
           NEW o, o = Owner(s, want)
    PROVE  /\ settings' \in [Owners -> Settings] /\ JournalInv' /\ o \in Owners
           /\ \A o2 \in Owners :
                 journal'[o2] = <<>> /\ o2 \notin purged => settings'[o2] = DefaultSettings
           /\ \/ journal' = journal
              \/ \E e \in JournalEntry :
                    e.token = t /\ journal' = [journal EXCEPT ![o] = Append(@, e)]
  <1>1. want \in Desires /\ \A want2 \in Asked : want2 \in Desires
    BY SettingsAssumption
  <1> DEFINE Told2(o2, w) == ~(w.setting = "recipient" /\ o2 \in erased)
  <1>2. /\ settings \in [Owners -> Settings] /\ journal \in [Owners -> Seq(JournalEntry)]
        /\ \A o2 \in Owners :
              /\ IsFiniteSet(settings[o2].selected)
              /\ \A want2 \in Asked :
                    Told2(o2, want2) =>
                        Explains(journal[o2], settings[o2], want2, o2 \notin purged)
              /\ journal[o2] = <<>> /\ o2 \notin purged => settings[o2] = DefaultSettings
    BY DEF SettingsInv, SettingsTypeOK, JournalInv, JournalExplains
  <1>3. o \in Owners /\ purged' = purged /\ erased' = erased
    BY DEF Owner, Owners, pastVars
  <1>4. CASE UNCHANGED <<settings, journal>>
    BY <1>2, <1>3, <1>4 DEF JournalInv, JournalExplains
  <1>5. CASE ~UNCHANGED <<settings, journal>>
    <2> DEFINE e == Entry(settings[o], want, t)
               r == Applied(settings[o], want)
    <2>1. /\ Changes(settings[o], want)
          /\ settings' = [settings EXCEPT ![o] = r]
          /\ journal' = [journal EXCEPT ![o] = Append(@, e)]
      BY <1>5 DEF Change, WritesSetting
    <2>2. IsFiniteSet(r.selected) /\ r \in Settings
      BY <1>1, <1>2, <1>3, <2>1, ChangeIsSeen, AppliedFields
    <2>3. e \in JournalEntry /\ e.token = t
      <3>1. e \in JournalEntry
        BY <1>1, <1>2, <1>3, <2>2, EntryIs
      <3> QED
        BY <3>1 DEF Entry
    <2>4. ASSUME NEW want2 \in Asked, Told2(o, want2)
          PROVE  Explains(Append(journal[o], e), r, want2, o \notin purged)
      <3>1. Explains(journal[o], settings[o], want2, o \notin purged)
        BY <1>2, <1>3, <2>4
      <3> QED
        BY <1>1, <1>2, <1>3, <2>1, <3>1, LogGrows
    <2> HIDE DEF e, r
    <2>5. Append(journal[o], e) \in Seq(JournalEntry) /\ Append(journal[o], e) # <<>>
      <3>1. journal[o] \in Seq(JournalEntry)
        BY <1>2, <1>3
      <3>2. Append(journal[o], e) \in Seq(JournalEntry)
        BY <2>3, <3>1
      <3>3. Len(Append(journal[o], e)) # Len(<<>>)
        BY <2>3, <3>1
      <3> QED
        BY <3>2, <3>3
    <2>6. \A o2 \in Owners :
             /\ settings'[o2] = IF o2 = o THEN r ELSE settings[o2]
             /\ journal'[o2] = IF o2 = o THEN Append(journal[o], e) ELSE journal[o2]
      BY <1>2, <1>3, <2>1
    <2>7. settings' \in [Owners -> Settings] /\ journal' \in [Owners -> Seq(JournalEntry)]
      BY <1>2, <1>3, <2>1, <2>2, <2>5
    <2>8. \A o2 \in Owners : IsFiniteSet(settings'[o2].selected)
      BY <1>2, <2>2, <2>6
    <2>9. ASSUME NEW o2 \in Owners, NEW want2 \in Asked, Told2(o2, want2)
          PROVE  Explains(journal'[o2], settings'[o2], want2, o2 \notin purged)
      <3>1. CASE o2 = o
        BY <2>4, <2>6, <2>9, <3>1
      <3>2. CASE o2 # o
        BY <1>2, <2>6, <2>9, <3>2
      <3> QED
        BY <3>1, <3>2
    <2>10. JournalInv'
      BY <1>3, <2>7, <2>8, <2>9 DEF JournalInv, JournalExplains
    <2>11. \A o2 \in Owners :
              journal'[o2] = <<>> /\ o2 \notin purged => settings'[o2] = DefaultSettings
      BY <1>2, <2>5, <2>6
    <2> QED
      BY <1>3, <2>1, <2>3, <2>7, <2>10, <2>11
  <1> QED
    BY <1>4, <1>5

\* A change with its reference, which a typed value has used up.
LEMMA ChangeStep ==
    ASSUME SettingsInv, NEW s \in Stores, NEW want \in Asked, NEW t \in Tokens,
           Change(s, want, t), TokensKeep, token[t] # NoToken, token[t].store = s,
           token[t].use # "action" => token[t].age = "fresh" /\ token'[t].age = "consumed",
           NEW f \in Forms, NEW to, FormMoves(f, to), UNCHANGED <<contextVars, pastVars>>
    PROVE  SettingsInv'
  <1> DEFINE o == Owner(s, want)
  <1>1. /\ settings' \in [Owners -> Settings] /\ JournalInv' /\ o \in Owners
        /\ \A o2 \in Owners :
              journal'[o2] = <<>> /\ o2 \notin purged => settings'[o2] = DefaultSettings
        /\ \/ journal' = journal
           \/ \E e \in JournalEntry :
                 e.token = t /\ journal' = [journal EXCEPT ![o] = Append(@, e)]
    BY ChangeExplains
  <1>6. o \in Stores => o = s
    BY SettingsAssumption DEF Owner
  <1> HIDE DEF o
  <1>2. /\ FormTokens' /\ form' \in [Forms -> Form]
        /\ \A g \in Forms : form'[g].step \in {"check", "apply"} => form'[g].token # NoToken
    BY FormsStep
  <1>3. SettingsTypeOK'
    BY <1>1, <1>2 DEF SettingsInv, SettingsTypeOK, contextVars, pastVars, TokensKeep, Form
  <1>4. CASE journal' = journal
    BY <1>1, <1>2, <1>3, <1>4, EntriesStay DEF SettingsInv
  <1>5. ASSUME NEW e \in JournalEntry, e.token = t,
               journal' = [journal EXCEPT ![o] = Append(@, e)]
        PROVE  SettingsInv'
    <2> DEFINE n == Len(journal[o]) + 1
    <2>1. journal \in [Owners -> Seq(JournalEntry)]
      BY DEF SettingsInv, JournalInv
    <2>2. /\ \A s2 \in Owners : s2 # o => journal'[s2] = journal[s2]
          /\ \A i \in DOMAIN journal'[o] :
                \/ i \in DOMAIN journal[o] /\ journal'[o][i] = journal[o][i] /\ i # n
                \/ i = n /\ journal'[o][i] = e
      BY <1>1, <1>5, <2>1
    <2> HIDE DEF n
    <2>3. ASSUME NEW s2 \in Owners, NEW i \in DOMAIN journal[s2], NEW k,
                 k = journal[s2][i].token
          PROVE  /\ token'[k] # NoToken /\ (s2 \in Stores => token'[k].store = s2)
                 /\ token'[k].use = token[k].use
                 /\ token'[k].use # "action" => token'[k].age = "consumed"
                 /\ token'[k].use # "action" => k # t
      BY <2>3, EntriesTyped DEF TokensKeep
    <2>4. /\ token'[t] # NoToken /\ token'[t].store = s /\ token'[t].use = token[t].use
          /\ token'[t].use # "action" => token'[t].age = "consumed"
      BY DEF TokensKeep
    <2>5. EntryTokens'
      <3> SUFFICES ASSUME NEW s2 \in Owners, NEW i \in DOMAIN journal'[s2],
                          NEW k, k = journal'[s2][i].token
                   PROVE  /\ token'[k] # NoToken /\ (s2 \in Stores => token'[k].store = s2)
                          /\ token'[k].use # "action" => token'[k].age = "consumed"
        BY DEF EntryTokens
      <3>1. CASE s2 # o
        BY <2>2, <2>3, <3>1
      <3>2. CASE s2 = o
        BY <1>5, <1>6, <2>2, <2>3, <2>4, <3>2
      <3> QED
        BY <3>1, <3>2
    <2>6. InputUsedOnce'
      <3> SUFFICES ASSUME NEW s2 \in Owners, NEW i \in DOMAIN journal'[s2],
                          NEW j \in DOMAIN journal'[s2], i # j,
                          journal'[s2][i].token = journal'[s2][j].token
                   PROVE  token'[journal'[s2][i].token].use = "action"
        BY DEF InputUsedOnce
      <3>1. CASE s2 # o
        BY <2>2, <2>3, <3>1 DEF SettingsInv, InputUsedOnce
      <3>2. CASE s2 = o
        <4>1. CASE i # n /\ j # n
          BY <2>2, <2>3, <3>2, <4>1 DEF SettingsInv, InputUsedOnce
        <4>2. CASE i = n \/ j = n
          BY <1>5, <2>2, <2>3, <2>4, <3>2, <4>2
        <4> QED
          BY <4>1, <4>2
      <3> QED
        BY <3>1, <3>2
    <2> QED
      BY <1>1, <1>2, <1>3, <2>5, <2>6 DEF SettingsInv
  <1> QED
    BY <1>1, <1>4, <1>5

\* A reference grows old.
LEMMA AgeChanges ==
    ASSUME SettingsInv, NEW t \in Tokens, token[t] # NoToken,
           NEW a \in {"consumed", "expired"}, token[t].age = "fresh",
           a = "consumed" => token[t].use # "action",
           token' = [token EXCEPT ![t].age = a]
    PROVE  TokensKeep /\ token'[t].age = a
  <1>1. token \in [Tokens -> Token \cup {NoToken}] /\ token[t] \in Token
    BY DEF SettingsInv, SettingsTypeOK
  <1>2. PICK r : r = [token[t] EXCEPT !.age = a]
    OBVIOUS
  <1>3. r \in Token /\ r.store = token[t].store /\ r.use = token[t].use /\ r.age = a
    <2>1. CASE token[t].use = "action"
      <3>1. token[t] \in [store : Stores, use : {"action"}, want : Asked,
                          age : {"fresh", "expired"}]
        BY <1>1, <2>1 DEF Token, Typed
      <3>2. r = [store |-> token[t].store, use |-> token[t].use, want |-> token[t].want,
                 age |-> a]
        BY <1>2, <3>1
      <3> QED
        BY <2>1, <3>1, <3>2 DEF Token
    <2>2. CASE token[t].use # "action"
      <3>1. token[t] \in [store : Stores, use : Typed, age : {"fresh", "consumed", "expired"}]
        BY <1>1, <2>2 DEF Token
      <3>2. r = [store |-> token[t].store, use |-> token[t].use, age |-> a]
        BY <1>2, <3>1
      <3> QED
        BY <2>2, <3>1, <3>2 DEF Token
    <2> QED
      BY <2>1, <2>2
  <1>4. token' = [token EXCEPT ![t] = r]
    BY <1>2
  <1>5. /\ token' \in [Tokens -> Token \cup {NoToken}]
        /\ \A k \in Tokens : token'[k] = IF k = t THEN r ELSE token[k]
    BY <1>1, <1>3, <1>4
  <1>6. r # NoToken
    BY <1>3, SettingsAssumption
  <1> QED
    BY <1>3, <1>5, <1>6 DEF TokensKeep

LEMMA ExpiresStep ==
    ASSUME SettingsInv, NEW t \in Tokens, Expires(t)
    PROVE  SettingsInv'
  <1>1. TokensKeep
    BY AgeChanges DEF Expires
  <1>2. UNCHANGED <<settings, contextVars, form, journal, pastVars>>
    BY DEF Expires
  <1>3. SettingsTypeOK'
    BY <1>1, <1>2 DEF SettingsInv, SettingsTypeOK, contextVars, pastVars, TokensKeep
  <1>4. JournalInv'
    BY <1>2 DEF SettingsInv, JournalInv, JournalExplains, pastVars
  <1>5. FormTokens'
    BY <1>1, <1>2 DEF SettingsInv, FormTokens, TokensKeep
  <1> QED
    BY <1>1, <1>2, <1>3, <1>4, <1>5, EntriesStay DEF SettingsInv

LEMMA ContextChangesStep == ASSUME SettingsInv, ContextChanges PROVE SettingsInv'
  <1>1. UNCHANGED <<settings, token, form, journal, purged, erased>>
    BY DEF ContextChanges
  <1>2. SettingsTypeOK'
    BY <1>1 DEF ContextChanges, SettingsInv, SettingsTypeOK
  <1> QED
    BY <1>1, <1>2 DEF SettingsInv, JournalInv, JournalExplains, EntryTokens, FormTokens,
                      InputUsedOnce

\* References that are about a member expire.
LEMMA AboutExpire ==
    ASSUME SettingsInv, NEW m,
           token' = [t \in Tokens |->
                         IF t \in AreAbout(m) THEN [token[t] EXCEPT !.age = "expired"]
                         ELSE token[t]]
    PROVE  TokensKeep
  <1>1. token \in [Tokens -> Token \cup {NoToken}]
    BY DEF SettingsInv, SettingsTypeOK
  <1>2. ASSUME NEW t \in AreAbout(m)
        PROVE  /\ t \in Tokens /\ token'[t] \in Token /\ token'[t].store = token[t].store
               /\ token'[t].use = token[t].use /\ token[t].use = "action"
    <2>1. t \in Tokens /\ token[t] \in Token /\ token[t].use = "action"
      BY <1>1, <1>2 DEF AreAbout
    <2>2. token[t] \in [store : Stores, use : {"action"}, want : Asked,
                        age : {"fresh", "expired"}]
      BY <2>1 DEF Token, Typed
    <2>3. token'[t] = [token[t] EXCEPT !.age = "expired"]
      BY <1>2, <2>1
    <2>4. token'[t] = [store |-> token[t].store, use |-> token[t].use,
                       want |-> token[t].want, age |-> "expired"]
      BY <2>2, <2>3
    <2> QED
      BY <2>1, <2>2, <2>4 DEF Token
  <1>3. ASSUME NEW t \in Tokens, t \notin AreAbout(m) PROVE token'[t] = token[t]
    BY <1>3
  <1>4. NoToken \notin Token
    BY SettingsAssumption
  <1>5. token' \in [Tokens -> Token \cup {NoToken}]
    <2>1. \A t \in Tokens : token'[t] \in Token \cup {NoToken}
      BY <1>1, <1>2, <1>3
    <2> QED
      BY <2>1
  <1>6. ASSUME NEW t \in Tokens, token[t] # NoToken
        PROVE  /\ token'[t] # NoToken /\ token'[t].store = token[t].store
               /\ token'[t].use = token[t].use
               /\ token[t].use # "action" /\ token[t].age = "consumed"
                     => token'[t].age = "consumed"
    BY <1>2, <1>3, <1>4, <1>6
  <1> QED
    BY <1>5, <1>6 DEF TokensKeep

\* Without a recipient the other settings are what they were.
Unselected(s, m) == [s EXCEPT !.selected = @ \ {m}]

LEMMA WithoutRecipient ==
    ASSUME NEW s \in Settings, NEW m, IsFiniteSet(s.selected),
           NEW r, r = Unselected(s, m)
    PROVE  /\ r \in Settings /\ IsFiniteSet(r.selected)
           /\ m \notin s.selected => r = s
           /\ \A want \in Desires : want.setting # "recipient" => Old(r, want) = Old(s, want)
  <1>1. r = [language |-> s.language, timezone |-> s.timezone, threshold |-> s.threshold,
             categories |-> s.categories, mode |-> s.mode, selected |-> s.selected \ {m},
             version |-> s.version]
    BY DEF Settings, Unselected
  <1>2. r \in Settings
    BY <1>1, SettingsFields DEF Settings
  <1>3. IsFiniteSet(r.selected)
    BY <1>1, FS_RemoveElement
  <1>4. m \notin s.selected => r = s
    <2>1. m \notin s.selected => s.selected \ {m} = s.selected
      OBVIOUS
    <2> QED
      BY <1>1, <2>1, SettingsFields
  <1>5. ASSUME NEW want \in Desires, want.setting # "recipient"
        PROVE  Old(r, want) = Old(s, want)
    <2>1. /\ r.language = s.language /\ r.timezone = s.timezone
          /\ r.threshold = s.threshold /\ r.mode = s.mode /\ r.categories = s.categories
      BY <1>1
    <2> QED
      BY <1>2, <1>3, <1>5, <2>1, OldIs, WantKinds
  <1> QED
    BY <1>2, <1>3, <1>4, <1>5

LEMMA ErasesIdentityStep ==
    ASSUME SettingsInv, NEW m \in Members, ErasesIdentity(m)
    PROVE  SettingsInv'
  <1>1. TokensKeep /\ UNCHANGED <<context, role, editing, journal, purged>>
    BY AboutExpire DEF ErasesIdentity
  <1>2. \A f \in Forms : form'[f] = NoForm
    BY DEF ErasesIdentity
  <1>3. form' \in [Forms -> Form] /\ FormTokens'
    BY <1>2, NoFormMoves DEF ErasesIdentity, FormTokens
  <1>4. /\ settings \in [Owners -> Settings] /\ journal \in [Owners -> Seq(JournalEntry)]
        /\ \A o \in Owners : IsFiniteSet(settings[o].selected)
    BY DEF SettingsInv, SettingsTypeOK, JournalInv
  <1>5. /\ settings' = [o \in Owners |-> [settings[o] EXCEPT !.selected = @ \ {m}]]
        /\ erased' = erased \cup {o \in Owners : m \in settings[o].selected}
        /\ staff' = staff \ {m}
    BY DEF ErasesIdentity
  <1>6. ASSUME NEW o \in Owners
        PROVE  /\ settings'[o] \in Settings /\ IsFiniteSet(settings'[o].selected)
               /\ m \notin settings[o].selected => settings'[o] = settings[o]
               /\ \A want \in Desires :
                     want.setting # "recipient" => Old(settings'[o], want) = Old(settings[o], want)
    <2>1. settings'[o] = Unselected(settings[o], m)
      BY <1>5 DEF Unselected
    <2>2. settings[o] \in Settings /\ IsFiniteSet(settings[o].selected)
      BY <1>4
    <2> QED
      BY <2>1, <2>2, WithoutRecipient
  <1>7. SettingsTypeOK'
    <2>1. settings' \in [Owners -> Settings]
      BY <1>5, <1>6
    <2>2. ASSUME NEW o \in Owners, journal[o] = <<>>, o \notin purged
          PROVE  settings'[o] = DefaultSettings
      <3>1. settings[o] = DefaultSettings
        BY <2>2 DEF SettingsInv, SettingsTypeOK
      <3> QED
        BY <1>6, <3>1 DEF DefaultSettings
    <2>3. token' \in [Tokens -> Token \cup {NoToken}]
      BY <1>1 DEF TokensKeep
    <2>4. \A f \in Forms : form'[f].step \in {"check", "apply"} => form'[f].token # NoToken
      BY <1>2, NoFormMoves
    <2>5. staff' \subseteq Members /\ erased' \subseteq Owners
      BY <1>5 DEF SettingsInv, SettingsTypeOK
    <2> QED
      BY <1>1, <1>3, <2>1, <2>2, <2>3, <2>4, <2>5 DEF SettingsInv, SettingsTypeOK, Form
  <1>8. ASSUME NEW o \in Owners, NEW want \in Asked,
               ~(want.setting = "recipient" /\ o \in erased')
        PROVE  Explains(journal[o], settings'[o], want, o \notin purged)
    <2>1. want \in Desires
      BY SettingsAssumption
    <2>2. Explains(journal[o], settings[o], want, o \notin purged)
      BY <1>5, <1>8 DEF SettingsInv, JournalInv, JournalExplains
    <2>3. Old(settings'[o], want) = Old(settings[o], want)
      BY <1>5, <1>6, <1>8, <2>1
    <2> QED
      BY <2>2, <2>3, ExplainsStill
  <1>9. JournalInv'
    BY <1>1, <1>4, <1>6, <1>8 DEF JournalInv, JournalExplains
  <1> QED
    BY <1>1, <1>3, <1>7, <1>9, EntriesStay DEF SettingsInv

LEMMA PurgesStep ==
    ASSUME SettingsInv, NEW o \in Owners, Purges(o)
    PROVE  SettingsInv'
  <1>1. /\ UNCHANGED <<settings, contextVars, token, form, erased>> /\ journal[o] # <<>>
        /\ journal' = [journal EXCEPT ![o] = Tail(@)] /\ purged' = purged \cup {o}
    BY DEF Purges
  <1>2. /\ journal \in [Owners -> Seq(JournalEntry)]
        /\ \A o2 \in Owners : IsFiniteSet(settings[o2].selected)
        /\ JournalExplains
    BY DEF SettingsInv, JournalInv
  <1>3. journal[o] \in Seq(JournalEntry)
    BY <1>2
  <1>4. /\ Tail(journal[o]) \in Seq(JournalEntry)
        /\ \A i \in DOMAIN Tail(journal[o]) :
              i \in Nat /\ i + 1 \in DOMAIN journal[o] /\ Tail(journal[o])[i] = journal[o][i + 1]
    BY <1>1, <1>3
  <1>5. \A o2 \in Owners :
           journal'[o2] = IF o2 = o THEN Tail(journal[o]) ELSE journal[o2]
    BY <1>1, <1>2
  <1>6. journal' \in [Owners -> Seq(JournalEntry)]
    BY <1>1, <1>2, <1>4
  <1>7. SettingsTypeOK'
    <2>1. ASSUME NEW o2 \in Owners, journal'[o2] = <<>>, o2 \notin purged'
          PROVE  settings'[o2] = DefaultSettings
      BY <1>1, <1>5, <2>1 DEF SettingsInv, SettingsTypeOK
    <2> QED
      BY <1>1, <2>1 DEF SettingsInv, SettingsTypeOK, contextVars
  <1>8. ASSUME NEW o2 \in Owners, NEW want \in Asked,
               ~(want.setting = "recipient" /\ o2 \in erased)
        PROVE  Explains(journal'[o2], settings[o2], want, o2 \notin purged')
    <2>1. Explains(journal[o2], settings[o2], want, o2 \notin purged)
      BY <1>2, <1>8 DEF JournalExplains
    <2>2. CASE o2 = o
      <3>1. Explains(Tail(journal[o]), settings[o], want, FALSE)
        BY <1>1, <1>3, <2>1, <2>2, LogShrinks
      <3>2. (o2 \notin purged') = FALSE
        BY <1>1, <2>2
      <3> QED
        BY <1>5, <2>2, <3>1, <3>2
    <2>3. CASE o2 # o
      <3>1. (o2 \notin purged') = (o2 \notin purged)
        BY <1>1, <2>3
      <3> QED
        BY <1>5, <2>1, <2>3, <3>1
    <2> QED
      BY <2>2, <2>3
  <1>9. JournalInv'
    BY <1>1, <1>2, <1>6, <1>8 DEF JournalInv, JournalExplains
  <1>10. EntryTokens'
    <2> SUFFICES ASSUME NEW o2 \in Owners, NEW i \in DOMAIN journal'[o2],
                        NEW k, k = journal'[o2][i].token
                 PROVE  /\ token[k] # NoToken /\ (o2 \in Stores => token[k].store = o2)
                        /\ token[k].use # "action" => token[k].age = "consumed"
      BY <1>1 DEF EntryTokens
    <2>1. CASE o2 # o
      BY <1>5, <2>1, EntriesTyped
    <2>2. CASE o2 = o
      <3>1. i + 1 \in DOMAIN journal[o] /\ k = journal[o][i + 1].token
        BY <1>4, <1>5, <2>2
      <3> QED
        BY <2>2, <3>1, EntriesTyped
    <2> QED
      BY <2>1, <2>2
  <1>11. InputUsedOnce'
    <2> SUFFICES ASSUME NEW o2 \in Owners, NEW i \in DOMAIN journal'[o2],
                        NEW j \in DOMAIN journal'[o2], i # j,
                        journal'[o2][i].token = journal'[o2][j].token
                 PROVE  token[journal'[o2][i].token].use = "action"
      BY <1>1 DEF InputUsedOnce
    <2>1. CASE o2 # o
      BY <1>5, <2>1 DEF SettingsInv, InputUsedOnce
    <2>2. CASE o2 = o
      <3>1. i \in DOMAIN Tail(journal[o]) /\ j \in DOMAIN Tail(journal[o])
        BY <1>5, <2>2
      <3>2. journal'[o] = Tail(journal[o])
        BY <1>5
      <3>3. /\ i + 1 \in DOMAIN journal[o] /\ journal'[o][i] = journal[o][i + 1]
            /\ j + 1 \in DOMAIN journal[o] /\ journal'[o][j] = journal[o][j + 1]
        BY <1>4, <3>1, <3>2
      <3>4. i + 1 # j + 1
        BY <1>4, <3>1
      <3> QED
        BY <2>2, <3>3, <3>4 DEF SettingsInv, InputUsedOnce
    <2> QED
      BY <2>1, <2>2
  <1>12. FormTokens'
    BY <1>1 DEF SettingsInv, FormTokens
  <1> QED
    BY <1>7, <1>9, <1>10, <1>11, <1>12 DEF SettingsInv

\* What a request that applies has, and what it goes on with.
LEMMA AppliesWith ==
    ASSUME SettingsInv, NEW f \in Forms, form[f].step = "apply"
    PROVE  /\ form[f].token \in Tokens /\ token[form[f].token] # NoToken
           /\ token[form[f].token] \in Token
           /\ token[form[f].token].store = form[f].store /\ form[f].store \in Stores
           /\ (form[f].kind = "action") <=> (token[form[f].token].use = "action")
           /\ [form[f] EXCEPT !.step = "summary"] \in Form
           /\ [form[f] EXCEPT !.step = "summary"].step = "summary"
           /\ [form[f] EXCEPT !.step = "summary"].store = form[f].store
  <1>1. form[f] \in Form /\ token \in [Tokens -> Token \cup {NoToken}]
    BY DEF SettingsInv, SettingsTypeOK, Form
  <1>2. form[f].token \in Tokens /\ token[form[f].token] # NoToken
    BY DEF SettingsInv, FormTokens
  <1> QED
    BY <1>1, <1>2 DEF SettingsInv, FormTokens, Form

LEMMA ApplyInputStep ==
    ASSUME SettingsInv, NEW f \in Forms, NEW want \in Asked, ApplyInput(f, want)
    PROVE  SettingsInv'
  <1>1. PICK r, t : r = form[f] /\ t = r.token
    OBVIOUS
  <1>2. /\ r.step = "apply" /\ r.kind = "input"
        /\ UNCHANGED <<contextVars, pastVars>>
    BY <1>1 DEF ApplyInput
  <1>3. /\ t \in Tokens /\ token[t] # NoToken /\ token[t].store = r.store
        /\ r.store \in Stores /\ token[t].use # "action"
    BY <1>1, <1>2, AppliesWith
  <1>4. CASE Consumable(t)
    <2>1. /\ token' = [token EXCEPT ![t].age = "consumed"] /\ Change(r.store, want, t)
          /\ Becomes(f, [r EXCEPT !.step = "summary"]) /\ token[t].age = "fresh"
      BY <1>1, <1>4 DEF ApplyInput, Consumable
    <2>2. TokensKeep /\ token'[t].age = "consumed"
      BY <1>3, <2>1, AgeChanges
    <2>3. FormMoves(f, [r EXCEPT !.step = "summary"])
      BY <1>1, <1>2, <2>1, AppliesWith DEF FormMoves, Becomes
    <2> QED
      BY <1>2, <1>3, <2>1, <2>2, <2>3, ChangeStep
  <1>5. CASE ~Consumable(t)
    <2>1. Answered(f) /\ UNCHANGED <<settings, journal, token>>
      BY <1>1, <1>5 DEF ApplyInput
    <2> QED
      BY <1>2, <2>1, TokensStay, AnsweredStep
  <1> QED
    BY <1>4, <1>5

LEMMA ApplyDesiredActionStep ==
    ASSUME SettingsInv, NEW f \in Forms, ApplyDesiredAction(f)
    PROVE  SettingsInv'
  <1>1. PICK r, t : r = form[f] /\ t = r.token
    OBVIOUS
  <1>2. /\ r.step = "apply" /\ r.kind = "action" /\ token' = token
        /\ UNCHANGED <<contextVars, pastVars>> /\ Change(r.store, token[t].want, t)
    BY <1>1 DEF ApplyDesiredAction
  <1>3. /\ t \in Tokens /\ token[t] # NoToken /\ token[t].store = r.store
        /\ r.store \in Stores /\ token[t].use = "action" /\ token[t] \in Token
    BY <1>1, <1>2, AppliesWith
  <1>4. token[t].want \in Asked
    BY <1>3 DEF Token, Typed
  <1>5. PICK to : FormMoves(f, to)
    <2>1. CASE Answered(f)
      BY <2>1, NoFormMoves DEF Answered, Becomes, FormMoves
    <2>2. CASE Becomes(f, [r EXCEPT !.step = "summary"])
      BY <1>1, <1>2, <2>2, AppliesWith DEF FormMoves, Becomes
    <2> QED
      BY <1>1, <2>1, <2>2 DEF ApplyDesiredAction
  <1> QED
    BY <1>2, <1>3, <1>4, <1>5, TokensStay, ChangeStep

\* A reference is issued.
LEMMA IssueKeeps ==
    ASSUME SettingsInv, NEW t \in Tokens, token[t] = NoToken, NEW r \in Token,
           token' = [token EXCEPT ![t] = r]
    PROVE  TokensKeep
  BY DEF SettingsInv, SettingsTypeOK, TokensKeep

LEMMA BuildSummaryStep ==
    ASSUME SettingsInv, NEW f \in Forms, BuildSummary(f)
    PROVE  SettingsInv'
  <1>1. Answered(f) /\ UNCHANGED <<settings, contextVars, journal, pastVars>>
    BY DEF BuildSummary
  <1>2. form[f].store \in Stores
    BY DEF BuildSummary, SettingsInv, FormTokens
  <1>3. ASSUME NEW t \in Tokens, token[t] = NoToken, NEW r,
               token' = [token EXCEPT ![t] = r],
               \/ \E want \in Asked :
                     r = [store |-> form[f].store, use |-> "action", want |-> want,
                          age |-> "fresh"]
               \/ \E use \in Typed : r = [store |-> form[f].store, use |-> use,
                                        age |-> "fresh"]
        PROVE  TokensKeep
    <2>1. r \in Token
      BY <1>2, <1>3 DEF Token
    <2> QED
      BY <1>3, <2>1, IssueKeeps
  <1>4. TokensKeep
    BY <1>3, TokensStay DEF BuildSummary
  <1> QED
    BY <1>1, <1>4, AnsweredStep

LEMMA BreaksStep ==
    ASSUME SettingsInv, NEW f \in Forms, Breaks(f)
    PROVE  SettingsInv'
  BY TokensStay, AnsweredStep DEF Breaks

LEMMA SettingsStep == SettingsInv /\ [SettingsNext]_settingsVars => SettingsInv'
  <1> SUFFICES ASSUME SettingsInv, [SettingsNext]_settingsVars PROVE SettingsInv'
    OBVIOUS
  <1>1. ASSUME NEW f \in Forms, NEW k \in Kind, NEW t \in Tokens, Resolves(f, k, t)
        PROVE  SettingsInv'
    BY <1>1, ResolvesStep
  <1>2. ASSUME NEW f \in Forms, CheckReference(f) PROVE SettingsInv'
    BY <1>2, CheckReferenceStep
  <1>3. ASSUME NEW f \in Forms, ApplyDesiredAction(f) PROVE SettingsInv'
    BY <1>3, ApplyDesiredActionStep
  <1>4. ASSUME NEW f \in Forms, BuildSummary(f) PROVE SettingsInv'
    BY <1>4, BuildSummaryStep
  <1>5. ASSUME NEW f \in Forms, Breaks(f) PROVE SettingsInv'
    BY <1>5, BreaksStep
  <1>6. ASSUME NEW f \in Forms, NEW want \in Asked, ApplyInput(f, want) PROVE SettingsInv'
    BY <1>6, ApplyInputStep
  <1>7. ASSUME NEW t \in Tokens, Expires(t) PROVE SettingsInv'
    BY <1>7, ExpiresStep
  <1>9. ASSUME NEW m \in Members, ErasesIdentity(m) PROVE SettingsInv'
    BY <1>9, ErasesIdentityStep
  <1>10. ASSUME NEW o \in Owners, Purges(o) PROVE SettingsInv'
    BY <1>10, PurgesStep
  <1>8. CASE UNCHANGED settingsVars
    <2>1. /\ UNCHANGED <<settings, token, form, journal, purged, erased>>
          /\ UNCHANGED <<context, role, editing, staff>>
      BY <1>8 DEF settingsVars, contextVars, pastVars
    <2>2. SettingsTypeOK'
      BY <2>1 DEF SettingsInv, SettingsTypeOK
    <2> QED
      BY <2>1, <2>2 DEF SettingsInv, JournalInv, JournalExplains, EntryTokens, FormTokens,
                        InputUsedOnce
  <1> QED
    BY <1>1, <1>2, <1>3, <1>4, <1>5, <1>6, <1>7, <1>8, <1>9, <1>10, ContextChangesStep
       DEF SettingsNext

LEMMA SettingsInvariant == SettingsSpec => []SettingsInv
  BY SettingsInvInit, SettingsStep, PTL DEF SettingsSpec

\* The settings, the references and the requests keep their types.
THEOREM SettingsTypeCorrect == SettingsSpec => []SettingsTypeOK
  <1>1. SettingsInv => SettingsTypeOK
    BY DEF SettingsInv
  <1> QED
    BY <1>1, SettingsInvariant, PTL

\* Whatever comes between a reference's issue, its check and the transaction: the
\* settings of a store, and those of the tenant, are the outcome of what is left of
\* their journal, but for recipients whom an erasure has taken without an entry;
\* each entry of a store came through a reference of that store, one for a typed
\* value once at most (applyInput, applyDesiredAction, consumeReference).
THEOREM JournalsExplainSettings == SettingsSpec => []SettingsAreExplained
  <1>1. SettingsInv => SettingsAreExplained
    <2> SUFFICES ASSUME SettingsInv PROVE SettingsAreExplained
      OBVIOUS
    <2>1. OwnStoreOnly
      BY EntriesTyped DEF OwnStoreOnly, Owners
    <2>2. JournalExplains
      BY DEF SettingsInv, JournalInv
    <2> QED
      BY <2>1, <2>2 DEF SettingsAreExplained, SettingsInv
  <1> QED
    BY <1>1, SettingsInvariant, PTL

-----------------------------------------------------------------------------
(* Orders: what an event's completion says of the row, whether or not      *)
(* revisions share their modification time; CurrentWhenCompleted when they *)
(* do not, DeletionAtRest when moreover one projector takes the events in  *)
(* order.                                                                  *)

\* What p may hold in its local variables once it has left a transaction.
LEMMA LeavesType ==
    ASSUME TypeOK, NEW p \in Projectors,
           NEW step \in {"idle", "fetch", "read", "commit", "finish"},
           Leaves(p, step)
    PROVE  /\ pc' \in [Projectors -> {"idle", "fetch", "read", "commit", "finish"}]
           /\ candidate' \in [Projectors -> Snapshot]
           /\ authoritative' \in [Projectors -> BOOLEAN]
           /\ existing' \in [Projectors -> Row \cup {NoRow}]
           /\ attempt' \in [Projectors -> 1..PROJECTION_TRANSACTION_ATTEMPTS]
  <1>1. 1 \in 1..PROJECTION_TRANSACTION_ATTEMPTS
    BY ProjectionAssumption
  <1>2. [rev |-> 0, time |-> 0] \in Snapshot
    BY DEF Snapshot
  <1>3. authoritative' \in [Projectors -> BOOLEAN]
    BY Zenon DEF Leaves, TypeOK
  <1> QED
    BY <1>1, <1>2, <1>3 DEF Leaves, Goes, TypeOK

\* A step that only puts p to rest keeps every type.
LEMMA RestsType ==
    ASSUME TypeOK, NEW p \in Projectors, Rests(p),
           UNCHANGED <<remoteVars, arrivals, inbox, row>>,
           completed' \in SUBSET inbox, failed' \in SUBSET inbox
    PROVE  TypeOK'
  <1>1. /\ pc' = [pc EXCEPT ![p] = "idle"]
        /\ event' = [event EXCEPT ![p] = Refresh]
    BY DEF Rests, Leaves, Goes
  <1>2. Refresh \in WebhookEvent
    BY DEF Refresh, WebhookEvent
  <1>3. Leaves(p, "idle")
    BY DEF Rests
  <1>4. /\ event' \in [Projectors -> WebhookEvent]
        /\ \A q \in Projectors : event'[q] \in inbox \cup {Refresh}
    BY <1>1, <1>2 DEF TypeOK
  <1> QED
    BY <1>3, <1>4, LeavesType DEF TypeOK, remoteVars

\* The row p would store is a row.
LEMMA ProjectionType ==
    ASSUME TypeOK, NEW p \in Projectors
    PROVE  Projection(p) \in Row
  BY DEF TypeOK, Projection, Row, Snapshot, Never

LEMMA TypeStep ==
    ASSUME TypeOK, [Next]_vars
    PROVE  TypeOK'
  <1>1. CASE Revise \/ Trash
    <2>1. remote' \in [rev : Nat, time : Nat, trashed : BOOLEAN]
      <3>1. CASE Revise
        <4>1. PICK time \in {remote.time, remote.time + 1} :
                 remote' = [rev |-> remote.rev + 1, time |-> time,
                            trashed |-> FALSE]
          BY <3>1 DEF Revise
        <4> QED
          BY <4>1 DEF TypeOK
      <3>2. CASE Trash
        BY <3>2 DEF Trash, TypeOK
      <3> QED
        BY <1>1, <3>1, <3>2
    <2>2. ASSUME Revise
          PROVE  published' \in SUBSET Emitted
      <3>1. PICK topic \in Topic : Emits(topic, remote')
        BY <2>2 DEF Revise, Topic
      <3>2. PICK readable \in BOOLEAN :
               published' = published \cup
                   {[topic |-> topic, rev |-> remote'.rev,
                     time |-> remote'.time, readable |-> readable]}
        <4>1. PICK readable \in IF Unmappable THEN BOOLEAN ELSE {TRUE} :
                 published' = published \cup
                     {[topic |-> topic, rev |-> remote'.rev,
                       time |-> remote'.time, readable |-> readable]}
          BY <3>1, Zenon DEF Emits
        <4>2. readable \in BOOLEAN
          OBVIOUS
        <4> QED
          BY <4>1, <4>2
      <3>3. [topic |-> topic, rev |-> remote'.rev, time |-> remote'.time,
             readable |-> readable] \in Emitted
        BY <2>1 DEF Emitted
      <3> QED
        BY <3>2, <3>3 DEF TypeOK
    <2>3. ASSUME Trash
          PROVE  published' \in SUBSET Emitted
      <3>1. [topic |-> "deleted", rev |-> remote.rev, time |-> remote.time,
             readable |-> TRUE] \in Emitted
        BY DEF Emitted, Topic, TypeOK
      <3> QED
        BY <2>3, <3>1 DEF Trash, TypeOK
    <2>4. UNCHANGED <<eventVars, row, pc, localVars>>
      BY <1>1 DEF Revise, Trash
    <2> QED
      BY <1>1, <2>1, <2>2, <2>3, <2>4 DEF TypeOK, eventVars, localVars
  <1>2. ASSUME NEW e \in published, Arrive(e)
        PROVE  TypeOK'
    <2>1. PICK at \in Nat :
             /\ inbox' = inbox \cup
                   {[topic |-> e.topic, rev |-> e.rev, time |-> e.time,
                     readable |-> e.readable, receivedAt |-> at]}
             /\ arrivals' \in Nat
      BY <1>2 DEF Arrive, TypeOK
    <2>2. inbox' \in SUBSET WebhookEvent /\ inbox \subseteq inbox'
      BY <2>1 DEF TypeOK, Emitted, WebhookEvent
    <2> QED
      BY <1>2, <2>1, <2>2 DEF Arrive, TypeOK, localVars
  <1>3. ASSUME NEW p \in Projectors, ProjectorRuns(p)
        PROVE  TypeOK'
    <2>1. ASSUME NEW e \in inbox, Take(p, e)
          PROVE  TypeOK'
      <3>1. [rev |-> e.rev, time |-> e.time] \in Snapshot
        BY DEF TypeOK, WebhookEvent, Snapshot
      <3>2. candidate' \in [Projectors -> Snapshot]
        BY <2>1, <3>1 DEF Take, TypeOK
      <3>3. /\ event' = [event EXCEPT ![p] = e]
            /\ pc' \in [Projectors -> {"idle", "fetch", "read", "commit", "finish"}]
            BY <2>1 DEF Take, Goes, TypeOK
      <3> QED
        BY <2>1, <3>2, <3>3 DEF Take, TypeOK, remoteVars, eventVars
    <2>2. CASE BeginRefresh(p)
      BY <2>2 DEF BeginRefresh, Goes, TypeOK, Refresh, remoteVars, eventVars,
                  localVars, WebhookEvent
    <2>3. CASE Fetch(p)
      <3>1. [rev |-> remote.rev, time |-> remote.time] \in Snapshot
        BY DEF TypeOK, Snapshot
      <3>2. authoritative' \in [Projectors -> BOOLEAN]
        BY <2>3, Zenon DEF Fetch, TypeOK
      <3> QED
        BY <2>3, <3>1, <3>2 DEF Fetch, Goes, TypeOK, remoteVars, eventVars
    <2>4. ASSUME NEW r, Fails(p, r)
          PROVE  TypeOK'
      <3>1. failed' \in SUBSET inbox /\ completed' \in SUBSET inbox
        BY <2>4 DEF Fails, TypeOK
      <3> QED
        BY <2>4, <3>1, RestsType DEF Fails
    <2>5. CASE FetchFails(p)
      BY <2>4, <2>5 DEF FetchFails
    <2>6. CASE ReadRow(p)
      BY <2>6 DEF ReadRow, Goes, TypeOK, remoteVars, eventVars
    <2>7. CASE Apply(p) \/ Delete(p)
      <3>1. PICK step \in {"finish", "fetch"} : Leaves(p, step)
        BY <2>7 DEF Apply, Delete, Writes
      <3>2. row' \in Row \cup {NoRow}
        <4>1. CASE Apply(p)
          BY <4>1, ProjectionType DEF Apply, Writes, TypeOK
        <4>2. CASE Delete(p)
          <5>1. ~AlreadyDeleted(p) =>
                   [existing[p] EXCEPT !.deletedAt = event[p].receivedAt] \in Row
            BY DEF AlreadyDeleted, TypeOK, Row, WebhookEvent
          <5> QED
            BY <4>2, <5>1 DEF Delete, Writes, TypeOK
        <4> QED
          BY <2>7, <4>1, <4>2
      <3>3. /\ pc[p] # "idle" /\ pc' = [pc EXCEPT ![p] = step]
            /\ UNCHANGED <<remoteVars, eventVars, event>>
        BY <2>7, <3>1 DEF Apply, Delete, Leaves, Goes
      <3> QED
        BY <3>1, <3>2, <3>3, LeavesType DEF TypeOK, remoteVars, eventVars
    <2>8. CASE Conflict(p)
      <3>1. CASE /\ attempt[p] < PROJECTION_TRANSACTION_ATTEMPTS
                 /\ attempt' = [attempt EXCEPT ![p] = @ + 1]
                 /\ pc' = [pc EXCEPT ![p] = "read"]
                 /\ existing' = [existing EXCEPT ![p] = NoRow]
                 /\ UNCHANGED <<remoteVars, eventVars, row, event, candidate,
                                authoritative>>
        <4>1. attempt[p] \in 1..PROJECTION_TRANSACTION_ATTEMPTS
          BY DEF TypeOK
        <4>2. attempt[p] + 1 \in 1..PROJECTION_TRANSACTION_ATTEMPTS
          BY <3>1, <4>1, ProjectionAssumption
        <4>3. attempt' \in [Projectors -> 1..PROJECTION_TRANSACTION_ATTEMPTS]
          BY <3>1, <4>2 DEF TypeOK
        <4> QED
          BY <3>1, <4>3 DEF TypeOK, remoteVars, eventVars
      <3>2. CASE Fails(p, TRUE)
        BY <2>4, <3>2
      <3> QED
        BY <2>8, <3>1, <3>2 DEF Conflict, Goes
    <2>9. CASE Finish(p)
      <3>1. completed' \in SUBSET inbox /\ failed' \in SUBSET inbox
        BY <2>9 DEF Finish, TypeOK
      <3> QED
        BY <2>9, <3>1, RestsType DEF Finish
    <2>10. CASE Crash(p)
      BY <2>10, RestsType DEF Crash, TypeOK, eventVars
    <2> QED
      BY <1>3, <2>1, <2>2, <2>3, <2>5, <2>6, <2>7, <2>8, <2>9, <2>10
      DEF ProjectorRuns
  <1>4. CASE UNCHANGED vars
    BY <1>4 DEF vars, remoteVars, eventVars, localVars, TypeOK
  <1> QED
    BY <1>1, <1>2, <1>3, <1>4 DEF Next

LEMMA TypeInit == Init => TypeOK
  BY ProjectionAssumption DEF Init, TypeOK, Refresh, WebhookEvent, Snapshot, Row

\* Every variable keeps its type: events, the stored Order, each projection.
THEOREM TypeCorrect == Spec => []TypeOK
  BY TypeInit, TypeStep, PTL DEF Spec

-----------------------------------------------------------------------------
(* The row moves forward in the store's time.                              *)

\* A projection's write keeps or raises the modification time of the row.
LEMMA RowGrows ==
    ASSUME TypeOK, [Next]_vars, row # NoRow
    PROVE  row' # NoRow /\ row'.time >= row.time
  <1>1. row \in Row /\ row.time \in Nat /\ row.time >= row.time
    BY DEF TypeOK, Row
  <1>2. ASSUME NEW p \in Projectors, Apply(p)
        PROVE  row' # NoRow /\ row'.time >= row.time
    <2>1. CASE row' = row
      BY <1>1, <2>1
    <2>2. CASE Decision(p) = "apply" /\ row = existing[p] /\ row' = Projection(p)
      <3>1. /\ Projection(p) \in Row
            /\ Projection(p).time \in Nat
        BY ProjectionType DEF Row
      <3>2. Decide(row, Projection(p), authoritative[p]) = "apply"
        BY <2>2 DEF Decision
      <3>3. ~(Projection(p).time < row.time)
        BY <3>2 DEF Decide
      <3> QED
        BY <1>1, <2>2, <3>1, <3>3, ProjectionAssumption
    <2> QED
      BY <1>2, <2>1, <2>2 DEF Apply, Writes, Unmoved
  <1>3. ASSUME NEW p \in Projectors, Delete(p)
        PROVE  row' # NoRow /\ row'.time >= row.time
    <2>1. CASE row' = row
      BY <1>1, <2>1
    <2>2. CASE row = existing[p] /\ row' = [row EXCEPT !.deletedAt = event[p].receivedAt]
      <3>1. row' \in Row /\ row'.time = row.time
        BY <1>1, <2>2 DEF Row, TypeOK, WebhookEvent
      <3> QED
        BY <1>1, <3>1, ProjectionAssumption
    <2> QED
      BY <1>3, <2>1, <2>2 DEF Delete, Writes, Unmoved
  <1>4. CASE row' = row
    BY <1>1, <1>4
  <1>5. \/ \E p \in Projectors : Apply(p) \/ Delete(p)
        \/ row' = row
    BY DEF Next, Revise, Trash, Arrive, ProjectorRuns, Take, BeginRefresh, Fetch,
           FetchFails, Fails, ReadRow, Conflict, Finish, Crash, vars, eventVars
  <1> QED
    BY <1>2, <1>3, <1>4, <1>5

\* The stored Order never goes back in the store's time (optimisticOrderWhere
\* and decideOrderProjection).
THEOREM OrderNeverOlder == Spec => NeverOlder
  <1>1. TypeOK /\ [Next]_vars
        => [row # NoRow => row' # NoRow /\ row'.time >= row.time]_row
    BY RowGrows
  <1> QED
    BY <1>1, TypeCorrect, PTL DEF Spec, NeverOlder

-----------------------------------------------------------------------------
(* A COMPLETED event is covered.  The invariant follows an event from the  *)
(* store, whose time never goes back, through a projection, whose snapshot *)
(* is at least as recent as its event and whose view of the row is at most *)
(* as recent as the row.                                                   *)

Covered(e) == e.topic # "deleted" => row # NoRow /\ row.time >= e.time

EventsArePast == \A e \in inbox \cup published : e.time <= remote.time

Applying(p) == pc[p] \in {"read", "commit"}

CandidateIsRecent ==
    \A p \in Projectors : Applying(p) => candidate[p].time >= event[p].time

ViewIsPast ==
    \A p \in Projectors :
        pc[p] = "commit" /\ existing[p] # NoRow
        => row # NoRow /\ row.time >= existing[p].time

FinishedIsCovered ==
    \A p \in Projectors : pc[p] = "finish" => Covered(event[p])

CoverInv ==
    /\ TypeOK
    /\ EventsArePast /\ CandidateIsRecent /\ ViewIsPast
    /\ FinishedIsCovered
    /\ \A e \in completed : Covered(e)

CoveredNext(e) == e.topic # "deleted" => row' # NoRow /\ row'.time >= e.time

\* What is covered stays so.
LEMMA CoveredStays ==
    ASSUME TypeOK, [Next]_vars
    PROVE  \A e \in WebhookEvent : Covered(e) => CoveredNext(e)
  <1> SUFFICES ASSUME NEW e \in WebhookEvent, Covered(e)
               PROVE  CoveredNext(e)
    OBVIOUS
  <1>1. CASE row = NoRow
    BY <1>1 DEF Covered, CoveredNext
  <1>2. CASE row # NoRow
    <2>1. row' # NoRow /\ row'.time >= row.time
      BY <1>2, RowGrows
    <2>2. row \in Row /\ row' \in Row
      BY <1>2, <2>1, TypeStep DEF TypeOK
    <2> QED
      BY <2>1, <2>2 DEF Covered, CoveredNext, Row, WebhookEvent
  <1> QED
    BY <1>1, <1>2

\* The store's time and the events: no event is from its future.
LEMMA EventsStayPast ==
    ASSUME CoverInv, [Next]_vars
    PROVE  EventsArePast'
  <1>0. TypeOK /\ EventsArePast
    BY DEF CoverInv
  <1>1. CASE Revise
    <2>1. PICK time \in {remote.time, remote.time + 1} :
             remote' = [rev |-> remote.rev + 1, time |-> time, trashed |-> FALSE]
      BY <1>1 DEF Revise
    <2>7. PICK topic : Emits(topic, remote')
      BY <1>1 DEF Revise
    <2>8. PICK readable :
             published' = published \cup
                 {[topic |-> topic, rev |-> remote'.rev, time |-> remote'.time,
                   readable |-> readable]}
      BY <2>7, Zenon DEF Emits
    <2>2. remote.time \in Nat /\ remote'.time \in Nat /\ remote.time <= remote'.time
      BY <1>0, <2>1 DEF TypeOK
    <2>3. inbox' = inbox
      BY <1>1 DEF Revise, eventVars
    <2>4. \A e \in inbox \cup published : e.time \in Nat
      BY <1>0 DEF TypeOK, WebhookEvent, Emitted
    <2>5. \A e \in inbox' \cup published' :
             e \in inbox \cup published \/ e.time = remote'.time
      BY <2>3, <2>8
    <2>6. ASSUME NEW e \in inbox' \cup published'
          PROVE  e.time <= remote'.time
      <3>1. CASE e \in inbox \cup published
        BY <1>0, <2>2, <2>4, <3>1 DEF EventsArePast
      <3>2. CASE e.time = remote'.time
        BY <2>2, <3>2
      <3> QED
        BY <2>5, <3>1, <3>2
    <2> QED
      BY <2>6 DEF EventsArePast
  <1>2. CASE Trash
    <2>1. remote'.time = remote.time /\ remote.time \in Nat
      BY <1>0, <1>2 DEF Trash, TypeOK
    <2> QED
      BY <1>0, <1>2, <2>1 DEF Trash, EventsArePast, eventVars
  <1>3. ASSUME NEW e \in published, Arrive(e)
        PROVE  EventsArePast'
    BY <1>0, <1>3 DEF Arrive, EventsArePast
  <1>4. CASE UNCHANGED <<remote, published, inbox>>
    BY <1>0, <1>4 DEF EventsArePast
  <1>5. Revise \/ Trash \/ (\E e \in published : Arrive(e))
        \/ UNCHANGED <<remote, published, inbox>>
    BY DEF Next, ProjectorRuns, Take, BeginRefresh, Fetch, FetchFails, Fails,
           ReadRow, Apply, Delete, Conflict, Finish, Crash, vars, eventVars,
           remoteVars
  <1> QED
    BY <1>1, <1>2, <1>3, <1>4, <1>5

\* p's step leaves the other projectors alone.
LEMMA OthersUntouched ==
    ASSUME TypeOK, NEW p \in Projectors, ProjectorRuns(p),
           NEW q \in Projectors, q # p
    PROVE  /\ pc'[q] = pc[q] /\ event'[q] = event[q]
           /\ candidate'[q] = candidate[q] /\ existing'[q] = existing[q]
  BY DEF ProjectorRuns, Take, BeginRefresh, Fetch, FetchFails, Fails, ReadRow,
         Apply, Delete, Writes, Conflict, Finish, Crash, Rests, Leaves, Goes,
         localVars, TypeOK

\* p comes out of its transaction with its event covered.
LEMMA TransactionCovers ==
    ASSUME CoverInv, NEW p \in Projectors, Apply(p) \/ Delete(p),
           pc'[p] = "finish"
    PROVE  CoveredNext(event[p])
  <1>0. TypeOK /\ pc[p] = "commit"
    BY DEF CoverInv, Apply, Delete
  <1>1. CASE Delete(p)
    BY <1>1 DEF Delete, CoveredNext
  <1>2. CASE Apply(p)
    <2>1. /\ candidate[p].time \in Nat /\ event[p].time \in Nat
          /\ candidate[p].time >= event[p].time
      BY <1>0 DEF CoverInv, CandidateIsRecent, Applying, TypeOK, Snapshot,
                  WebhookEvent
    <2>2. Projection(p) \in Row /\ Projection(p).time = candidate[p].time
      BY <1>0, ProjectionType DEF Projection
    <2>3. CASE row' = Projection(p)
      BY <2>1, <2>2, <2>3, ProjectionAssumption DEF CoveredNext
    <2>4. CASE Decision(p) = "noop" /\ row' = row
      <3>1. /\ existing[p] # NoRow /\ existing[p] \in Row
            /\ Decide(existing[p], Projection(p), authoritative[p]) = "noop"
        BY <1>0, <2>4 DEF Decision, TypeOK
      <3>2. existing[p].time \in Nat /\ existing[p].time >= candidate[p].time
        BY <2>1, <2>2, <3>1 DEF Decide, Row
      <3>3. row # NoRow /\ row \in Row /\ row.time >= existing[p].time
        BY <1>0, <3>1 DEF CoverInv, ViewIsPast, TypeOK
      <3> QED
        BY <2>1, <2>4, <3>2, <3>3 DEF CoveredNext, Row
    <2>5. pc' = [pc EXCEPT ![p] = "fetch"] => pc'[p] = "fetch"
      BY <1>0 DEF TypeOK
    <2> QED
      BY <1>2, <2>3, <2>4, <2>5 DEF Apply, Writes, Leaves, Goes
  <1> QED
    BY <1>1, <1>2

\* A projector's step keeps the invariant.
LEMMA ProjectorKeepsCover ==
    ASSUME CoverInv, NEW p \in Projectors, ProjectorRuns(p)
    PROVE  /\ CandidateIsRecent' /\ ViewIsPast' /\ FinishedIsCovered'
           /\ \A e \in completed' : CoveredNext(e)
  <1>0. TypeOK /\ [Next]_vars /\ TypeOK'
    BY TypeStep DEF CoverInv, Next
  <1>1. /\ \A q \in Projectors : event[q] \in WebhookEvent
        /\ \A e \in completed : e \in WebhookEvent
    BY <1>0 DEF TypeOK
  <1>2. \A e \in WebhookEvent : Covered(e) => CoveredNext(e)
    BY <1>0, CoveredStays
  <1>3. row # NoRow => row' # NoRow /\ row'.time >= row.time
    BY <1>0, RowGrows
  <1>4. CandidateIsRecent'
    <2>1. ASSUME Applying(p)'
          PROVE  candidate'[p].time >= event'[p].time
      <3>1. ASSUME NEW e \in inbox, Take(p, e)
            PROVE  candidate'[p].time >= event'[p].time
        <4>1. e.readable
          BY <1>0, <2>1, <3>1 DEF Take, Goes, Applying, TypeOK
        <4>2. event'[p] = e /\ candidate'[p].time = e.time
          BY <1>0, <3>1, <4>1 DEF Take, TypeOK
        <4> QED
          BY <1>0, <4>2 DEF TypeOK, WebhookEvent
      <3>2. CASE Fetch(p)
        <4>1. /\ event'[p] = event[p] /\ candidate'[p].time = remote.time
          BY <1>0, <3>2 DEF Fetch, TypeOK
        <4>2. event[p].time <= remote.time /\ event[p].time \in Nat
              /\ remote.time \in Nat
          <5>1. CASE event[p] \in inbox
            BY <1>0, <1>1, <5>1 DEF CoverInv, EventsArePast, TypeOK, WebhookEvent
          <5>2. CASE event[p] = Refresh
            BY <1>0, <5>2 DEF Refresh, TypeOK
          <5> QED
            BY <1>0, <5>1, <5>2 DEF TypeOK
        <4> QED
          BY <4>1, <4>2
      <3>3. CASE /\ pc[p] \in {"read", "commit"}
                 /\ UNCHANGED <<candidate, event>>
        BY <3>3 DEF CoverInv, CandidateIsRecent, Applying
      <3>4. \/ \E e \in inbox : Take(p, e)
            \/ Fetch(p)
            \/ /\ pc[p] \in {"read", "commit"}
               /\ UNCHANGED <<candidate, event>>
            \/ pc'[p] \in {"idle", "fetch", "finish"}
        BY <1>0
        DEF ProjectorRuns, BeginRefresh, FetchFails, Fails, ReadRow, Apply,
            Delete, Writes, Conflict, Finish, Crash, Rests, Leaves, Goes,
            localVars, TypeOK
      <3> QED
        BY <2>1, <3>1, <3>2, <3>3, <3>4 DEF Applying
    <2> QED
      BY <1>0, <2>1, OthersUntouched DEF CoverInv, CandidateIsRecent, Applying
  <1>5. ViewIsPast'
    <2>1. ASSUME pc'[p] = "commit"
          PROVE  existing'[p] = row /\ row' = row
      BY <1>0, <2>1
      DEF ProjectorRuns, Take, BeginRefresh, Fetch, FetchFails, Fails, ReadRow,
          Apply, Delete, Writes, Conflict, Finish, Crash, Rests, Leaves, Goes,
          localVars, TypeOK
    <2>2. ASSUME NEW q \in Projectors, pc'[q] = "commit", existing'[q] # NoRow
          PROVE  row' # NoRow /\ row'.time >= existing'[q].time
      <3>1. CASE q = p
        BY <1>0, <2>1, <2>2, <3>1 DEF TypeOK, Row
      <3>2. CASE q # p
        <4>1. row # NoRow /\ row.time >= existing[q].time
              /\ existing'[q] = existing[q] /\ existing[q] # NoRow
          BY <1>0, <2>2, <3>2, OthersUntouched DEF CoverInv, ViewIsPast
        <4>2. row \in Row /\ row' \in Row /\ existing[q] \in Row
          BY <1>0, <1>3, <4>1 DEF TypeOK
        <4> QED
          BY <1>3, <4>1, <4>2 DEF Row
      <3> QED
        BY <3>1, <3>2
    <2> QED
      BY <2>2 DEF ViewIsPast
  <1>6. FinishedIsCovered'
    <2>1. ASSUME pc'[p] = "finish"
          PROVE  CoveredNext(event[p]) /\ event'[p] = event[p]
      <3>1. (Apply(p) \/ Delete(p)) /\ event' = event
        BY <1>0, <2>1
        DEF ProjectorRuns, Take, BeginRefresh, Fetch, FetchFails, Fails,
            ReadRow, Apply, Delete, Conflict, Finish, Crash, Rests, Leaves,
            Goes, TypeOK
      <3> QED
        BY <2>1, <3>1, TransactionCovers
    <2>2. ASSUME NEW q \in Projectors, pc'[q] = "finish"
          PROVE  CoveredNext(event'[q])
      BY <1>0, <1>1, <1>2, <2>1, <2>2, OthersUntouched
      DEF CoverInv, FinishedIsCovered
    <2> QED
      BY <2>2 DEF FinishedIsCovered, Covered, CoveredNext
  <1>7. ASSUME NEW e \in completed'
        PROVE  CoveredNext(e)
    <2>1. e \in completed \/ (Finish(p) /\ e = event[p])
      BY DEF ProjectorRuns, Take, BeginRefresh, Fetch, FetchFails, Fails,
             ReadRow, Apply, Delete, Conflict, Finish, Crash, eventVars
    <2>2. Covered(e) /\ e \in WebhookEvent
      BY <1>1, <2>1 DEF CoverInv, FinishedIsCovered, Finish
    <2> QED
      BY <1>2, <2>2
  <1> QED
    BY <1>4, <1>5, <1>6, <1>7

LEMMA CoverStep ==
    ASSUME CoverInv, [Next]_vars
    PROVE  CoverInv'
  <1>1. TypeOK' /\ EventsArePast'
    BY TypeStep, EventsStayPast DEF CoverInv
  <1>2. ASSUME NEW p \in Projectors, ProjectorRuns(p)
        PROVE  CoverInv'
    BY <1>1, <1>2, ProjectorKeepsCover DEF CoverInv, Covered, CoveredNext
  <1>3. CASE UNCHANGED <<completed, row, pc, localVars>>
    BY <1>1, <1>3
    DEF CoverInv, CandidateIsRecent, Applying, ViewIsPast, FinishedIsCovered,
        Covered, localVars
  <1>4. UNCHANGED <<completed, row, pc, localVars>>
        \/ \E p \in Projectors : ProjectorRuns(p)
    BY DEF Next, Revise, Trash, Arrive, vars, eventVars
  <1> QED
    BY <1>2, <1>3, <1>4

\* A COMPLETED event has had its effect for good, whether its snapshot was
\* applied, found to be old, or reconciled.
THEOREM CompletedStaysCovered == Spec => []CompletedIsCovered
  <1>1. Init => CoverInv
    <2>1. Init => TypeOK
      BY ProjectionAssumption
      DEF Init, TypeOK, Refresh, WebhookEvent, Snapshot, Row
    <2> QED
      BY <2>1 DEF Init, CoverInv, EventsArePast, CandidateIsRecent, Applying,
                  ViewIsPast, FinishedIsCovered
  <1>2. CoverInv => CompletedIsCovered
    BY DEF CoverInv, CompletedIsCovered, Covered
  <1> QED
    BY <1>1, <1>2, CoverStep, PTL DEF Spec
-----------------------------------------------------------------------------
(* Revisions of distinct seconds.  Then a snapshot of the store's present  *)
(* time is of its present revision, so that a row as recent as the event   *)
(* of that revision is that revision, in any order and with any number of  *)
(* projectors.                                                             *)

Seen(s) ==
    \/ s.rev < remote.rev /\ s.time < remote.time
    \/ s.rev = remote.rev /\ s.time = remote.time

SeenInv ==
    /\ TypeOK
    /\ remote.rev = 0 <=> remote.time = 0
    /\ \A e \in inbox \cup published : Seen(e)
    /\ row # NoRow => Seen(row)
    /\ \A p \in Projectors : Seen(candidate[p])

LEMMA SeenStep ==
    ASSUME SameSecond = FALSE
    PROVE  SeenInv /\ [Next]_vars => SeenInv'
  <1> SUFFICES ASSUME SeenInv, [Next]_vars
               PROVE  SeenInv'
    OBVIOUS
  <1>0. TypeOK /\ TypeOK'
    BY TypeStep DEF SeenInv
  <1>1. CASE Revise
    <2>1. PICK time \in {remote.time, remote.time + 1} :
             /\ time > remote.time
             /\ remote' = [rev |-> remote.rev + 1, time |-> time, trashed |-> FALSE]
      BY <1>1 DEF Revise
    <2>2. PICK topic : Emits(topic, remote')
      BY <1>1 DEF Revise
    <2>3. PICK readable :
             published' = published \cup
                 {[topic |-> topic, rev |-> remote'.rev, time |-> remote'.time,
                   readable |-> readable]}
      BY <2>2, Zenon DEF Emits
    <2>4. /\ remote.rev \in Nat /\ remote.time \in Nat
          /\ remote'.rev = remote.rev + 1 /\ remote'.time = remote.time + 1
      BY <1>0, <2>1 DEF TypeOK
    <2>5. ASSUME NEW s, s.rev \in Nat, s.time \in Nat, Seen(s)
          PROVE  s.rev < remote'.rev /\ s.time < remote'.time
      BY <2>4, <2>5 DEF Seen
    <2>6. inbox' = inbox /\ row' = row /\ candidate' = candidate
      BY <1>1 DEF Revise, eventVars, localVars
    <2>7. /\ \A e \in inbox \cup published : e.rev \in Nat /\ e.time \in Nat
          /\ row # NoRow => row.rev \in Nat /\ row.time \in Nat
          /\ \A p \in Projectors :
                candidate[p].rev \in Nat /\ candidate[p].time \in Nat
      BY <1>0 DEF TypeOK, WebhookEvent, Emitted, Row, Snapshot
    <2>8. \A e \in inbox' \cup published' :
             \/ e \in inbox \cup published
             \/ e.rev = remote'.rev /\ e.time = remote'.time
      BY <2>3, <2>6
    <2>9. \A e \in inbox' \cup published' :
             \/ e.rev < remote'.rev /\ e.time < remote'.time
             \/ e.rev = remote'.rev /\ e.time = remote'.time
      BY <2>5, <2>7, <2>8 DEF SeenInv
    <2>10. row' # NoRow => row'.rev < remote'.rev /\ row'.time < remote'.time
      BY <2>5, <2>6, <2>7 DEF SeenInv
    <2>11. \A p \in Projectors :
              candidate'[p].rev < remote'.rev /\ candidate'[p].time < remote'.time
      BY <2>5, <2>6, <2>7 DEF SeenInv
    <2>12. remote'.rev # 0 /\ remote'.time # 0
      BY <2>4
    <2> QED
      BY <1>0, <2>9, <2>10, <2>11, <2>12 DEF SeenInv, Seen
  <1>2. CASE Trash
    <2>1. remote'.time = remote.time /\ remote'.rev = remote.rev
      BY <1>0, <1>2 DEF Trash, TypeOK
    <2>2. /\ inbox' = inbox /\ row' = row /\ candidate' = candidate
          /\ \A e \in published' :
                e \in published \/ (e.rev = remote.rev /\ e.time = remote.time)
      BY <1>2 DEF Trash, eventVars, localVars
    <2> QED
      BY <1>0, <2>1, <2>2 DEF SeenInv, Seen
  <1>3. ASSUME NEW e \in published, Arrive(e)
        PROVE  SeenInv'
    <2>1. /\ published' \subseteq published
          /\ \A f \in inbox' : f \in inbox \/ (f.rev = e.rev /\ f.time = e.time)
          /\ UNCHANGED <<remote, row, candidate>>
      BY <1>3 DEF Arrive, localVars
    <2> QED
      BY <1>0, <2>1 DEF SeenInv, Seen
  <1>4. ASSUME NEW p \in Projectors, ProjectorRuns(p)
        PROVE  SeenInv'
    <2>1. inbox' = inbox /\ UNCHANGED remoteVars
      BY <1>4
      DEF ProjectorRuns, Take, BeginRefresh, Fetch, FetchFails, Fails, ReadRow,
          Apply, Delete, Conflict, Finish, Crash, eventVars, remoteVars
    <2>2. row' # NoRow => Seen(row')
      <3>1. CASE row' = row
        BY <3>1 DEF SeenInv
      <3>2. CASE row' = Projection(p)
        BY <3>2 DEF SeenInv, Seen, Projection
      <3>3. CASE row' = [row EXCEPT !.deletedAt = event[p].receivedAt] /\ row # NoRow
        BY <1>0, <3>3 DEF SeenInv, Seen, TypeOK, Row
      <3>4. \/ row' = row \/ row' = Projection(p)
            \/ row' = [row EXCEPT !.deletedAt = event[p].receivedAt] /\ row # NoRow
        BY <1>4
        DEF ProjectorRuns, Take, BeginRefresh, Fetch, FetchFails, Fails, ReadRow,
            Apply, Delete, Writes, Unmoved, AlreadyDeleted, Conflict, Finish, Crash
      <3> QED
        BY <3>1, <3>2, <3>3, <3>4
    <2>3. \/ candidate'[p] = candidate[p]
          \/ candidate'[p] = [rev |-> 0, time |-> 0]
          \/ candidate'[p] = [rev |-> remote.rev, time |-> remote.time]
          \/ \E e \in inbox : candidate'[p] = [rev |-> e.rev, time |-> e.time]
      BY <1>0, <1>4
      DEF ProjectorRuns, Take, BeginRefresh, Fetch, FetchFails, Fails, ReadRow,
          Apply, Delete, Writes, Conflict, Finish, Crash, Rests, Leaves, localVars,
          TypeOK
    <2>4. \/ 0 < remote.rev /\ 0 < remote.time
          \/ 0 = remote.rev /\ 0 = remote.time
      <3>1. remote.rev \in Nat /\ remote.time \in Nat
        BY <1>0 DEF TypeOK
      <3> QED
        BY <3>1 DEF SeenInv
    <2>5. Seen(candidate'[p])
      <3>1. CASE candidate'[p] = [rev |-> 0, time |-> 0]
        BY <2>4, <3>1, SMT DEF Seen
      <3>2. CASE candidate'[p] = candidate[p]
        BY <3>2 DEF SeenInv
      <3>3. CASE candidate'[p] = [rev |-> remote.rev, time |-> remote.time]
        BY <3>3 DEF Seen
      <3>4. ASSUME NEW e \in inbox, candidate'[p] = [rev |-> e.rev, time |-> e.time]
            PROVE  Seen(candidate'[p])
        BY <3>4 DEF SeenInv, Seen
      <3> QED
        BY <2>3, <3>1, <3>2, <3>3, <3>4
    <2>6. \A q \in Projectors : Seen(candidate'[q])
      BY <1>0, <1>4, <2>5, OthersUntouched DEF SeenInv
    <2> QED
      BY <1>0, <2>1, <2>2, <2>6 DEF SeenInv, Seen, remoteVars
  <1>5. CASE UNCHANGED vars
    BY <1>0, <1>5 DEF SeenInv, Seen, vars, remoteVars, eventVars, localVars
  <1> QED
    BY <1>1, <1>2, <1>3, <1>4, <1>5 DEF Next

\* What was seen stays in the store's past.
LEMMA SeenHolds ==
    ASSUME SameSecond = FALSE
    PROVE  Spec => []SeenInv
  <1>1. Init => SeenInv
    <2>1. Init => TypeOK
      BY ProjectionAssumption
      DEF Init, TypeOK, Refresh, WebhookEvent, Snapshot, Row
    <2> QED
      BY <2>1 DEF Init, SeenInv, Seen
  <1>2. SeenInv /\ [Next]_vars => SeenInv'
    BY SeenStep
  <1> QED
    BY <1>1, <1>2, PTL DEF Spec

\* If no two revisions share a second, the event of the store's present revision
\* is COMPLETED only when the Order is that revision, also for events in any
\* order, refreshes and any number of projectors.
THEOREM DistinctSecondsAreCurrent ==
    ASSUME SameSecond = FALSE
    PROVE  Spec => []CurrentWhenCompleted
  <1>1. SeenInv /\ CompletedIsCovered => CurrentWhenCompleted
    <2> SUFFICES ASSUME SeenInv, CompletedIsCovered,
                        NEW e \in completed, e.topic # "deleted", e.rev = remote.rev
                 PROVE  row # NoRow /\ row.rev = remote.rev
      BY DEF CurrentWhenCompleted
    <2>1. row # NoRow /\ row.time >= e.time /\ Seen(row) /\ Seen(e)
      BY DEF CompletedIsCovered, SeenInv, TypeOK
    <2>2. /\ row.time \in Nat /\ e.time \in Nat /\ remote.time \in Nat
          /\ remote.rev \in Nat
      BY <2>1 DEF SeenInv, TypeOK, Row, WebhookEvent
    <2>3. e.time = remote.time
      BY <2>1, <2>2 DEF Seen
    <2> QED
      BY <2>1, <2>2, <2>3 DEF Seen
  <1> QED
    BY <1>1, SeenHolds, CompletedStaysCovered, PTL

-----------------------------------------------------------------------------
(* Lists: they can be read from end to end and back.                       *)

\* A reference by which a list can be read.
Grounded(r, list) ==
    IF kind # "orders"
    THEN r.direction = "CURRENT" /\ \E n \in Nat : r.offset = n * PAGE_SIZE
    ELSE CASE r.direction = "CURRENT" -> r.offset = 0
           [] r.direction = "NEXT" ->
                 /\ r.boundary \in list /\ r.offset <= Place(list, r.boundary)
                 /\ \E k \in list : k > r.boundary
           [] r.direction = "PREVIOUS" ->
                 /\ r.boundary \in list /\ Place(list, r.boundary) > 1
                 /\ r.offset > 0 => r.offset + PAGE_SIZE < Place(list, r.boundary)

\* These are the rows that r leads to in a list, or in the list as it was.
Leads(r, shown, list) ==
    /\ r \in PageReference /\ list \in SUBSET Keys /\ Grounded(r, list)
    /\ shown = RowsShown(r, list)
    /\ kind = "orders" => list \subseteq rows[r.store]

PageInv ==
    page # NoPage =>
        /\ Leads(page.current, page.rows, page.list)
        /\ page.store = page.current.store /\ page.offset = page.current.offset
        /\ page.next = IF HasNext(page.current, page.list)
                       THEN NextPage(page.current, page.rows) ELSE NoPage
        /\ page.previous = IF HasPrevious(page.current, page.list)
                           THEN PreviousPage(page.current, page.rows) ELSE NoPage

\* Where a reference back to a page comes from: its rows, or nowhere.
Returns(r, from) ==
    (from.rows = <<>> /\ r = FirstPage(r.store)) \/ Leads(r, from.rows, from.list)

CardInv ==
    card # NoCard =>
        /\ card.back.store \in ListStores /\ Returns(card.back, card.from)

\* And a reference to the page after r, or before it.
Turns(what, to, r, from) ==
    /\ Leads(r, from.rows, from.list)
    /\ what = "next" => HasNext(r, from.list) /\ to = NextPage(r, from.rows)
    /\ what = "previous" => HasPrevious(r, from.list) /\ to = PreviousPage(r, from.rows)

TapInv ==
    tap # NoTap =>
        /\ tap.store = tap.of /\ tap.store \in ListStores /\ tap.page.store = tap.store
        /\ tap.what \in {"row", "back"} => Returns(tap.page, tap.from)
        /\ tap.what \in {"next", "previous"} =>
              \E r \in PageReference :
                 r.store = tap.store /\ Turns(tap.what, tap.page, r, tap.from)

ListsTyped ==
    /\ kind \in Kinds /\ here \in ListStores
    /\ rows \in [ListStores -> SUBSET Keys]

ListsInv == ListsTyped /\ PageInv /\ CardInv /\ TapInv /\ ListsAgree

-----------------------------------------------------------------------------
(* The rows of a page are those at consecutive places of the list.         *)

LEMMA ListOfKeys ==
    ASSUME NEW list \in SUBSET Keys
    PROVE  /\ list \in SUBSET Nat /\ IsFiniteSet(list) /\ Cardinality(list) \in Nat
           /\ \A k \in list : k \in Nat /\ k > 0
  <1>1. IsFiniteSet(list)
    BY ListsAssumption, FS_Subset
  <1>2. \A k \in list : k \in Nat /\ k > 0
    BY ListsAssumption
  <1> QED
    BY <1>1, <1>2, FS_CardinalityType

LEMMA FirstOfIs ==
    ASSUME NEW T, NEW s \in Seq(T), NEW n \in Nat
    PROVE  /\ FirstOf(s, n) \in Seq(T)
           /\ Len(FirstOf(s, n)) = IF Len(s) < n THEN Len(s) ELSE n
           /\ \A i \in 1..Len(FirstOf(s, n)) : FirstOf(s, n)[i] = s[i]
  <1> DEFINE m == IF Len(s) < n THEN Len(s) ELSE n
  <1>1. m \in Nat /\ m <= Len(s) /\ FirstOf(s, n) = SubSeq(s, 1, m)
    BY DEF FirstOf
  <1> HIDE DEF m
  <1>2. \A i \in 1..m : s[i] \in T
    BY <1>1
  <1>3. /\ SubSeq(s, 1, m) \in Seq(T) /\ Len(SubSeq(s, 1, m)) = m
        /\ \A i \in 1..m : SubSeq(s, 1, m)[i] = s[i]
    BY <1>1, <1>2, SubSeqProperties
  <1> QED
    BY <1>1, <1>3 DEF m

LEMMA ReversedIs ==
    ASSUME NEW T, NEW s \in Seq(T)
    PROVE  /\ Reverse(s) \in Seq(T) /\ Len(Reverse(s)) = Len(s)
           /\ \A i \in 1..Len(s) : Reverse(s)[i] = s[Len(s) - i + 1]
  <1>1. \A i \in 1..Len(s) : s[(Len(s) - i) + 1] \in T
    OBVIOUS
  <1>2. Reverse(s) \in [1..Len(s) -> T]
    BY <1>1 DEF Reverse
  <1>3. Reverse(s) \in Seq(T) /\ Len(Reverse(s)) = Len(s)
    BY <1>2
  <1> QED
    BY <1>3 DEF Reverse

\* How many rows of the list are before those of the page, and up to its last.
Before(r, list) ==
    LET n == Cardinality(list)
    IN  IF kind # "orders" THEN IF r.offset <= n THEN r.offset ELSE n
        ELSE CASE r.direction = "CURRENT" -> 0
               [] r.direction = "NEXT" -> Place(list, r.boundary)
               [] r.direction = "PREVIOUS" ->
                     IF Place(list, r.boundary) <= PAGE_SIZE THEN 0
                     ELSE Place(list, r.boundary) - 1 - PAGE_SIZE

UpTo(r, list) ==
    LET n == Cardinality(list)
    IN  IF kind = "orders" /\ r.direction = "PREVIOUS" THEN Place(list, r.boundary) - 1
        ELSE IF Before(r, list) + PAGE_SIZE < n THEN Before(r, list) + PAGE_SIZE ELSE n

Window(shown, list, a, e) ==
    /\ a \in Nat /\ e \in Nat /\ a <= e /\ e <= Cardinality(list)
    /\ shown \in Seq(list) /\ Len(shown) = e - a
    /\ \A i \in 1..(e - a) : shown[i] = Sorted(list)[a + i]

\* A page of a sequence from its start.
LEMMA PageIs ==
    ASSUME NEW T, NEW s \in Seq(T)
    PROVE  LET records == FirstOf(s, PAGE_SIZE + 1)
               shown == FirstOf(records, PAGE_SIZE)
           IN  /\ Len(records) > PAGE_SIZE <=> Len(s) > PAGE_SIZE
               /\ shown \in Seq(T)
               /\ Len(shown) = IF Len(s) < PAGE_SIZE THEN Len(s) ELSE PAGE_SIZE
               /\ \A i \in 1..Len(shown) : shown[i] = s[i]
  <1> DEFINE records == FirstOf(s, PAGE_SIZE + 1)
             shown == FirstOf(records, PAGE_SIZE)
  <1>1. PAGE_SIZE \in Nat /\ PAGE_SIZE + 1 \in Nat /\ Len(s) \in Nat
    BY ListsAssumption
  <1>2. /\ records \in Seq(T)
        /\ Len(records) = IF Len(s) < PAGE_SIZE + 1 THEN Len(s) ELSE PAGE_SIZE + 1
        /\ \A i \in 1..Len(records) : records[i] = s[i]
    BY <1>1, FirstOfIs
  <1> HIDE DEF records
  <1>3. /\ shown \in Seq(T)
        /\ Len(shown) = IF Len(records) < PAGE_SIZE THEN Len(records) ELSE PAGE_SIZE
        /\ \A i \in 1..Len(shown) : shown[i] = records[i]
    BY <1>1, <1>2, FirstOfIs
  <1> HIDE DEF shown
  <1>4. Len(shown) = IF Len(s) < PAGE_SIZE THEN Len(s) ELSE PAGE_SIZE
    BY <1>1, <1>2, <1>3
  <1>5. \A i \in 1..Len(shown) : shown[i] = s[i]
    BY <1>1, <1>2, <1>3
  <1>6. Len(records) > PAGE_SIZE <=> Len(s) > PAGE_SIZE
    BY <1>1, <1>2
  <1> QED
    BY <1>3, <1>4, <1>5, <1>6 DEF shown, records

LEMMA Shown ==
    ASSUME kind \in Kinds, NEW r \in PageReference, NEW list \in SUBSET Keys,
           Grounded(r, list)
    PROVE  /\ Window(RowsShown(r, list), list, Before(r, list), UpTo(r, list))
           /\ kind # "orders" \/ r.direction # "PREVIOUS" =>
                 (Len(Records(r, list)) > PAGE_SIZE
                     <=> Before(r, list) + PAGE_SIZE < Cardinality(list))
  <1> DEFINE n == Cardinality(list)
             a == Before(r, list)
             e == UpTo(r, list)
  <1>1. /\ PAGE_SIZE \in Nat \ {0} /\ n \in Nat /\ list \in SUBSET Nat /\ IsFiniteSet(list)
        /\ r.offset \in Nat /\ r.boundary \in Nat
    BY ListsAssumption, ListOfKeys DEF PageReference
  <1>2. /\ Sorted(list) \in [1..n -> list] /\ Sorted(list) \in Seq(list)
        /\ Len(Sorted(list)) = n
    BY <1>1, SortedIs
  <1>3. CASE kind # "orders"
    <2> DEFINE last == IF n < r.offset + PAGE_SIZE + 1 THEN n ELSE r.offset + PAGE_SIZE + 1
               records == SubSeq(Sorted(list), r.offset + 1, last)
               shown == FirstOf(records, PAGE_SIZE)
    <2>1. r.direction = "CURRENT" /\ Records(r, list) = records
          /\ RowsShown(r, list) = shown
      BY <1>2, <1>3 DEF Grounded, Records, RowsShown
    <2>2. last \in Nat /\ last <= n
      BY <1>1
    <2>3. a = IF r.offset <= n THEN r.offset ELSE n
      BY <1>3 DEF Before
    <2>4. a \in Nat /\ a <= n
      BY <1>1, <2>3
    <2>5. e = IF a + PAGE_SIZE < n THEN a + PAGE_SIZE ELSE n
      BY <1>3 DEF UpTo
    <2> HIDE DEF last, a, e
    <2>6. \A i \in (r.offset + 1)..last : Sorted(list)[i] \in list
      BY <1>1, <1>2, <2>2
    <2>7. /\ records \in Seq(list)
          /\ Len(records) = IF r.offset + 1 <= last THEN last - r.offset ELSE 0
          /\ \A i \in 1..(last - r.offset) : records[i] = Sorted(list)[r.offset + i]
      <3>1. r.offset + 1 \in Int /\ last \in Int /\ last - (r.offset + 1) + 1 = last - r.offset
        BY <1>1, <2>2
      <3>2. /\ records \in Seq(list)
            /\ Len(records) = IF r.offset + 1 <= last THEN last - (r.offset + 1) + 1 ELSE 0
            /\ \A i \in 1..(last - (r.offset + 1) + 1) :
                  records[i] = Sorted(list)[r.offset + 1 + i - 1]
        BY <2>6, <3>1, SubSeqProperties
      <3>3. \A i \in Int : r.offset + 1 + i - 1 = r.offset + i
        BY <1>1
      <3> QED
        BY <3>1, <3>2, <3>3
    <2> HIDE DEF records
    <2>8. /\ shown \in Seq(list)
          /\ Len(shown) = IF Len(records) < PAGE_SIZE THEN Len(records) ELSE PAGE_SIZE
          /\ \A i \in 1..Len(shown) : shown[i] = records[i]
      BY <1>1, <2>7, FirstOfIs
    <2> HIDE DEF shown
    <2>9. /\ PAGE_SIZE \in Nat \ {0} /\ n \in Nat /\ r.offset \in Nat
          /\ e \in Nat /\ a <= e /\ e <= n
      BY <1>1, <2>4, <2>5
    <2>10. Len(records) = IF a + PAGE_SIZE < n THEN PAGE_SIZE + 1 ELSE n - a
      <3>1. CASE n < r.offset + PAGE_SIZE + 1
        <4>1. Len(records) = IF r.offset + 1 <= n THEN n - r.offset ELSE 0
          BY <2>7, <3>1 DEF last
        <4> QED
          BY <2>3, <2>9, <3>1, <4>1
      <3>2. CASE ~(n < r.offset + PAGE_SIZE + 1)
        <4>1. last = r.offset + PAGE_SIZE + 1
          BY <3>2 DEF last
        <4>2. Len(records) = PAGE_SIZE + 1
          BY <2>7, <2>9, <4>1
        <4> QED
          BY <2>3, <2>9, <3>2, <4>2
      <3> QED
        BY <3>1, <3>2
    <2>11. Len(shown) = e - a /\ (Len(records) > PAGE_SIZE <=> a + PAGE_SIZE < n)
      BY <2>4, <2>5, <2>8, <2>9, <2>10
    <2>12. \A i \in 1..(e - a) : shown[i] = Sorted(list)[a + i]
      <3> SUFFICES ASSUME NEW i \in 1..(e - a) PROVE shown[i] = Sorted(list)[a + i]
        OBVIOUS
      <3>1. a \in Nat /\ i \in Nat /\ 1 <= i /\ i <= e - a
        BY <2>4, <2>9
      <3>2. r.offset = a
        BY <2>3, <2>5, <2>9, <3>1
      <3>3. e <= last /\ last \in Nat
        <4>1. e <= a + PAGE_SIZE
          BY <2>5, <2>9, <3>1
        <4> QED
          BY <2>2, <2>9, <3>1, <3>2, <4>1 DEF last
      <3>4. i \in 1..Len(shown) /\ i \in 1..(last - r.offset)
        <4>1. i <= Len(shown) /\ Len(shown) \in Int
          BY <2>9, <2>11, <3>1
        <4>2. i <= last - r.offset
          BY <2>9, <3>1, <3>2, <3>3
        <4> QED
          BY <2>9, <3>1, <3>3, <4>1, <4>2
      <3> QED
        BY <2>7, <2>8, <3>2, <3>4
    <2>13. Window(shown, list, a, e)
      BY <2>4, <2>8, <2>9, <2>11, <2>12 DEF Window
    <2> QED
      BY <2>1, <2>11, <2>13 DEF a, e
  <1>4. ASSUME kind = "orders", r.direction # "PREVIOUS",
               NEW U \in SUBSET list, a \in Nat, n = a + Cardinality(U),
               Records(r, list) = FirstOf(Sorted(U), PAGE_SIZE + 1),
               \A i \in 1..Cardinality(U) : Sorted(U)[i] = Sorted(list)[a + i]
        PROVE  /\ Window(RowsShown(r, list), list, a, e)
               /\ Len(Records(r, list)) > PAGE_SIZE <=> a + PAGE_SIZE < n
    <2> DEFINE records == FirstOf(Sorted(U), PAGE_SIZE + 1)
               shown == FirstOf(records, PAGE_SIZE)
    <2>1. /\ U \in SUBSET Nat /\ IsFiniteSet(U) /\ Cardinality(U) \in Nat
      BY ListOfKeys
    <2>2. Sorted(U) \in Seq(U) /\ Len(Sorted(U)) = Cardinality(U)
      BY <2>1, SortedIs
    <2>3. Sorted(U) \in Seq(list)
      BY <2>2
    <2>4. RowsShown(r, list) = shown
      BY <1>4 DEF RowsShown
    <2>5. e = IF a + PAGE_SIZE < n THEN a + PAGE_SIZE ELSE n
      BY <1>4 DEF UpTo
    <2>6. /\ Len(records) > PAGE_SIZE <=> Len(Sorted(U)) > PAGE_SIZE
          /\ shown \in Seq(list)
          /\ Len(shown) = IF Len(Sorted(U)) < PAGE_SIZE THEN Len(Sorted(U)) ELSE PAGE_SIZE
          /\ \A i \in 1..Len(shown) : shown[i] = Sorted(U)[i]
      BY <2>3, PageIs
    <2> HIDE DEF records, shown, a, e, n
    <2>7. e \in Nat /\ a <= e /\ e <= n /\ Len(shown) = e - a
      BY <1>1, <1>4, <2>1, <2>2, <2>5, <2>6
    <2>8. \A i \in 1..(e - a) : shown[i] = Sorted(list)[a + i]
      <3> SUFFICES ASSUME NEW i \in 1..(e - a) PROVE shown[i] = Sorted(list)[a + i]
        OBVIOUS
      <3>1. i \in 1..Len(shown) /\ i \in 1..Cardinality(U)
        BY <1>1, <1>4, <2>1, <2>2, <2>6, <2>7
      <3> QED
        BY <1>4, <2>6, <3>1
    <2>9. Window(shown, list, a, e)
      BY <1>4, <2>6, <2>7, <2>8 DEF Window, n
    <2>10. Len(records) > PAGE_SIZE <=> a + PAGE_SIZE < n
      BY <1>1, <1>4, <2>1, <2>2, <2>6
    <2> QED
      BY <1>4, <2>4, <2>9, <2>10 DEF records
  <1>5. CASE kind = "orders" /\ r.direction = "CURRENT"
    <2>1. a = 0 /\ Records(r, list) = FirstOf(Sorted(list), PAGE_SIZE + 1)
      BY <1>5 DEF Before, Records
    <2>2. \A i \in 1..n : 0 + i = i
      BY <1>1
    <2> QED
      BY <1>1, <1>4, <1>5, <2>1, <2>2
  <1>6. CASE kind = "orders" /\ r.direction = "NEXT"
    <2> DEFINE b == r.boundary
               U == {k \in list : k > b}
    <2>1. b \in list /\ a = Place(list, b)
          /\ Records(r, list) = FirstOf(Sorted(U), PAGE_SIZE + 1)
      BY <1>6 DEF Before, Records, Grounded
    <2>2. /\ n = Place(list, b) + Cardinality(U)
          /\ \A i \in 1..Cardinality(U) : Sorted(U)[i] = Sorted(list)[Place(list, b) + i]
      BY <1>1, <2>1, SortedAfter
    <2>3. U \in SUBSET list
      OBVIOUS
    <2>4. Place(list, b) \in Nat
      BY <1>1, <2>1, PlaceGrows
    <2> HIDE DEF U, a, e, n
    <2> QED
      BY <1>4, <1>6, <2>1, <2>2, <2>3, <2>4 DEF a, e, n
  <1>7. CASE kind = "orders" /\ r.direction = "PREVIOUS"
    <2> DEFINE b == r.boundary
               U == {k \in list : k < b}
               c == Cardinality(U)
               from == Reverse(Sorted(U))
               cut == FirstOf(FirstOf(from, PAGE_SIZE + 1), PAGE_SIZE)
               shown == Reverse(cut)
    <2>1. b \in list /\ Place(list, b) > 1
      BY <1>7 DEF Grounded
    <2>2. /\ IsFiniteSet(U) /\ Place(list, b) = c + 1
          /\ \A i \in 1..c : Sorted(U)[i] = Sorted(list)[i]
      BY <1>1, <2>1, SortedBefore
    <2>3. U \in SUBSET Nat /\ U \in SUBSET list /\ c \in Nat
      BY <1>1, <2>2, FS_CardinalityType
    <2>4. RowsShown(r, list) = shown
      BY <1>7 DEF RowsShown, Records
    <2>5. a = IF Place(list, b) <= PAGE_SIZE THEN 0 ELSE Place(list, b) - 1 - PAGE_SIZE
      BY <1>7 DEF Before
    <2>6. e = Place(list, b) - 1
      BY <1>7 DEF UpTo
    <2>7. c <= n
      BY <1>1, <2>3, FS_Subset
    <2> HIDE DEF a, e, U
    <2>8. Sorted(U) \in Seq(U) /\ Len(Sorted(U)) = c
      BY <2>2, <2>3, SortedIs
    <2>9. Sorted(U) \in Seq(list)
      <3>1. Sorted(U) \in Seq(U) /\ U \in SUBSET list
        BY <2>3, <2>8
      <3> QED
        BY <3>1
    <2>10. /\ from \in Seq(list) /\ Len(from) = c
           /\ \A i \in 1..c : from[i] = Sorted(U)[c - i + 1]
      BY <2>8, <2>9, ReversedIs
    <2> HIDE DEF from
    <2>11. /\ cut \in Seq(list)
           /\ Len(cut) = IF c < PAGE_SIZE THEN c ELSE PAGE_SIZE
           /\ \A i \in 1..Len(cut) : cut[i] = from[i]
      BY <2>10, PageIs
    <2> HIDE DEF cut
    <2>12. /\ shown \in Seq(list) /\ Len(shown) = Len(cut)
           /\ \A i \in 1..Len(cut) : shown[i] = cut[Len(cut) - i + 1]
      BY <2>11, ReversedIs
    <2> HIDE DEF shown, c
    <2>13. e = c /\ a = IF c < PAGE_SIZE THEN 0 ELSE c - PAGE_SIZE
      BY <1>1, <2>2, <2>3, <2>5, <2>6
    <2>14. a \in Nat /\ e \in Nat /\ a <= e /\ e <= n /\ Len(shown) = e - a
      BY <1>1, <2>3, <2>7, <2>11, <2>12, <2>13
    <2>15. \A i \in 1..(e - a) : shown[i] = Sorted(list)[a + i]
      <3> SUFFICES ASSUME NEW i \in 1..(e - a) PROVE shown[i] = Sorted(list)[a + i]
        OBVIOUS
      <3> DEFINE j == (e - a) - i + 1
      <3>0. /\ i \in Nat /\ 1 <= i /\ i <= e - a /\ a \in Nat /\ e \in Nat /\ a <= e
            /\ Len(cut) = e - a /\ e = c
        BY <2>12, <2>13, <2>14
      <3>1. /\ Len(cut) = e - a /\ i \in 1..Len(cut) /\ j \in 1..Len(cut) /\ j \in 1..c
            /\ c - j + 1 = a + i /\ a + i \in 1..c
        BY <3>0
      <3>2. shown[i] = cut[j]
        BY <2>12, <3>1
      <3> HIDE DEF j
      <3>3. cut[j] = Sorted(U)[a + i]
        BY <2>10, <2>11, <3>1
      <3> QED
        BY <2>2, <3>1, <3>2, <3>3
    <2>16. Window(shown, list, a, e)
      BY <2>12, <2>14, <2>15 DEF Window
    <2> QED
      BY <1>7, <2>4, <2>16 DEF a, e
  <1> QED
    BY <1>3, <1>5, <1>6, <1>7 DEF PageReference

LEMMA PlacesOrder ==
    ASSUME NEW list \in SUBSET Keys, NEW j \in list, NEW k \in list
    PROVE  /\ Place(list, j) \in Nat /\ Place(list, k) \in Nat
           /\ Place(list, k) >= 1 /\ Place(list, k) <= Cardinality(list)
           /\ j < k <=> Place(list, j) < Place(list, k)
  <1>1. j \in Nat /\ k \in Nat /\ list \in SUBSET Nat /\ IsFiniteSet(list)
    BY ListOfKeys
  <1>2. /\ Place(list, j) \in Nat /\ Place(list, k) \in Nat
        /\ Place(list, k) >= 1 /\ Place(list, k) <= Cardinality(list)
    BY <1>1, ListOfKeys, Places
  <1>3. j < k => Place(list, j) < Place(list, k)
    BY <1>1, Places
  <1>4. k < j => Place(list, k) < Place(list, j)
    BY <1>1, Places
  <1> QED
    BY <1>1, <1>2, <1>3, <1>4

LEMMA RowAt ==
    ASSUME NEW list \in SUBSET Keys, NEW i \in 1..Cardinality(list)
    PROVE  Sorted(list)[i] \in list /\ Place(list, Sorted(list)[i]) = i
  BY ListOfKeys, SortedIs

LEMMA WindowIs ==
    ASSUME NEW list \in SUBSET Keys, NEW shown, NEW a, NEW e, Window(shown, list, a, e)
    PROVE  /\ shown # <<>> <=> a < e
           /\ \A k \in Range(shown) : k \in list
           /\ \A k \in list : k \in Range(shown)
                                 <=> a < Place(list, k) /\ Place(list, k) <= e
           /\ a < e => /\ Head(shown) \in list /\ Place(list, Head(shown)) = a + 1
                       /\ Last(shown) \in list /\ Place(list, Last(shown)) = e
  <1> DEFINE n == Cardinality(list)
  <1>1. /\ a \in Nat /\ e \in Nat /\ a <= e /\ e <= n /\ n \in Nat
        /\ shown \in Seq(list) /\ Len(shown) = e - a
        /\ \A i \in 1..(e - a) : shown[i] = Sorted(list)[a + i]
    BY ListOfKeys DEF Window
  <1>2. DOMAIN shown = 1..(e - a) /\ (shown # <<>> <=> a < e)
    BY <1>1
  <1>3. ASSUME NEW i \in 1..(e - a)
        PROVE  shown[i] \in list /\ Place(list, shown[i]) = a + i
    <2>1. a + i \in 1..n
      BY <1>1
    <2> QED
      BY <1>1, <2>1, RowAt
  <1>4. \A k \in Range(shown) : \E i \in 1..(e - a) : k = shown[i]
    BY <1>2 DEF Range
  <1>5. ASSUME NEW k \in list, a < Place(list, k), Place(list, k) <= e
        PROVE  k \in Range(shown)
    <2> DEFINE i == Place(list, k) - a
    <2>1. i \in 1..(e - a) /\ a + i = Place(list, k)
      BY <1>1, <1>5, PlacesOrder
    <2>2. Sorted(list)[Place(list, k)] = k
      BY ListOfKeys, SortedIs
    <2>3. shown[i] = k
      BY <1>1, <2>1, <2>2
    <2> QED
      BY <1>2, <2>1, <2>3 DEF Range
  <1>6. ASSUME NEW k \in Range(shown)
        PROVE  k \in list /\ a < Place(list, k) /\ Place(list, k) <= e
    <2>1. PICK i \in 1..(e - a) : k = shown[i]
      BY <1>4
    <2>2. k \in list /\ Place(list, k) = a + i
      BY <1>3, <2>1
    <2> QED
      BY <1>1, <2>2
  <1>7. ASSUME a < e
        PROVE  /\ Head(shown) \in list /\ Place(list, Head(shown)) = a + 1
               /\ Last(shown) \in list /\ Place(list, Last(shown)) = e
    <2>1. 1 \in 1..(e - a) /\ e - a \in 1..(e - a) /\ a + (e - a) = e
      BY <1>1, <1>7
    <2>2. Head(shown) = shown[1] /\ Last(shown) = shown[e - a]
      BY <1>1, <1>2, <1>7 DEF Last
    <2> QED
      BY <1>3, <2>1, <2>2
  <1> QED
    BY <1>2, <1>5, <1>6, <1>7

-----------------------------------------------------------------------------
(* From a page to its neighbours.                                          *)

\* Orders stay, so that what a reference is grounded in stays.
LEMMA GroundStays ==
    ASSUME kind = "orders", NEW r \in PageReference, NEW list \in SUBSET Keys,
           NEW more \in SUBSET Keys, list \subseteq more, Grounded(r, list)
    PROVE  Grounded(r, more)
  <1>1. PAGE_SIZE \in Nat /\ r.offset \in Nat
    BY ListsAssumption DEF PageReference
  <1>2. ASSUME r.boundary \in list
        PROVE  /\ Place(list, r.boundary) \in Nat /\ Place(more, r.boundary) \in Nat
               /\ Place(list, r.boundary) <= Place(more, r.boundary)
    BY <1>2, ListOfKeys, PlaceGrows
  <1>3. CASE r.direction = "CURRENT"
    BY <1>3 DEF Grounded
  <1>4. CASE r.direction = "NEXT"
    BY <1>1, <1>2, <1>4 DEF Grounded
  <1>5. CASE r.direction = "PREVIOUS"
    BY <1>1, <1>2, <1>5 DEF Grounded
  <1> QED
    BY <1>3, <1>4, <1>5 DEF PageReference

\* Where a page begins, in the offsets of stock and results or at least so far on
\* in those of orders.
LEMMA OffsetsCount ==
    ASSUME kind \in Kinds, NEW r \in PageReference, NEW list \in SUBSET Keys,
           Grounded(r, list)
    PROVE  kind = "orders" => r.offset <= Before(r, list)
  <1> SUFFICES ASSUME kind = "orders"
               PROVE  r.offset <= Before(r, list)
    OBVIOUS
  <1>1. PAGE_SIZE \in Nat \ {0} /\ r.offset \in Nat
    BY ListsAssumption DEF PageReference
  <1>2. r.boundary \in list => Place(list, r.boundary) \in Nat
    BY PlacesOrder
  <1>3. CASE r.direction = "CURRENT"
    BY <1>1, <1>3 DEF Grounded, Before
  <1>4. CASE r.direction = "NEXT"
    BY <1>1, <1>4 DEF Grounded, Before
  <1>5. CASE r.direction = "PREVIOUS"
    <2> DEFINE place == Place(list, r.boundary)
    <2>1. /\ place \in Nat /\ (r.offset > 0 => r.offset + PAGE_SIZE < place)
          /\ Before(r, list) = IF place <= PAGE_SIZE THEN 0 ELSE place - 1 - PAGE_SIZE
      BY <1>2, <1>5 DEF Grounded, Before
    <2> HIDE DEF place
    <2> QED
      BY <1>1, <2>1
  <1> QED
    BY <1>3, <1>4, <1>5 DEF PageReference

LEMMA NextIs ==
    ASSUME kind \in Kinds, NEW r \in PageReference, NEW list \in SUBSET Keys,
           Grounded(r, list), HasNext(r, list)
    PROVE  LET shown == RowsShown(r, list)
               next == NextPage(r, shown)
           IN  /\ next \in PageReference /\ Grounded(next, list) /\ next.store = r.store
               /\ shown # <<>> /\ \E k \in list : k > Last(shown)
               /\ Last(shown) \in list /\ Place(list, Last(shown)) = Before(next, list)
               /\ kind = "orders" => next.direction = "NEXT" /\ next.boundary = Last(shown)
  <1> DEFINE n == Cardinality(list)
             a == Before(r, list)
             e == UpTo(r, list)
             shown == RowsShown(r, list)
             next == NextPage(r, shown)
  <1>1. /\ PAGE_SIZE \in Nat \ {0} /\ n \in Nat
        /\ r.offset \in Nat /\ r.boundary \in Nat /\ r.store \in ListStores
    BY ListsAssumption, ListOfKeys DEF PageReference
  <1>2. /\ Window(shown, list, a, e)
        /\ kind # "orders" \/ r.direction # "PREVIOUS" =>
              (Len(Records(r, list)) > PAGE_SIZE <=> a + PAGE_SIZE < n)
    BY Shown
  <1>3. a \in Nat /\ e \in Nat /\ a <= e /\ e <= n /\ Len(shown) = e - a
    BY <1>2 DEF Window
  <1>4. a < e /\ e < n
    <2>1. CASE kind = "orders" /\ r.direction = "PREVIOUS"
      <3>1. shown # <<>>
        BY <2>1 DEF HasNext
      <3>2. e = Place(list, r.boundary) - 1 /\ r.boundary \in list
        BY <2>1 DEF UpTo, Grounded
      <3>3. a < e
        BY <1>2, <3>1, WindowIs
      <3>4. Place(list, r.boundary) \in Nat /\ Place(list, r.boundary) <= n
        BY <3>2, PlacesOrder
      <3> HIDE DEF a, e, n
      <3> QED
        BY <1>1, <1>3, <3>2, <3>3, <3>4
    <2>2. CASE ~(kind = "orders" /\ r.direction = "PREVIOUS")
      <3>1. Len(Records(r, list)) > PAGE_SIZE
        BY <2>2 DEF HasNext
      <3>2. e = IF a + PAGE_SIZE < n THEN a + PAGE_SIZE ELSE n
        BY <2>2 DEF UpTo
      <3> HIDE DEF a, e, n
      <3> QED
        BY <1>1, <1>2, <1>3, <2>2, <3>1, <3>2
    <2> QED
      BY <2>1, <2>2
  <1>5. Last(shown) \in list /\ Place(list, Last(shown)) = e /\ shown # <<>>
    BY <1>2, <1>4, WindowIs
  <1>6. \E k \in list : k > Last(shown)
    <2>1. e + 1 \in 1..n
      BY <1>1, <1>3, <1>4
    <2>2. PICK k \in list : Place(list, k) = e + 1
      BY <2>1, RowAt
    <2>3. Last(shown) < k
      BY <1>3, <1>5, <2>2, PlacesOrder
    <2>4. Last(shown) \in Nat /\ k \in Nat
      BY <1>5, ListOfKeys
    <2> QED
      BY <2>3, <2>4
  <1>7. CASE kind = "orders"
    <2>1. next = [r EXCEPT !.direction = "NEXT", !.boundary = Last(shown),
                           !.offset = r.offset + Len(shown)]
      BY <1>7 DEF NextPage
    <2>2. /\ next.direction = "NEXT" /\ next.boundary = Last(shown) /\ next.store = r.store
          /\ next.offset = r.offset + (e - a)
      BY <1>3, <2>1 DEF PageReference
    <2>3. r.offset <= a
      BY <1>7, OffsetsCount
    <2>4. r.offset + (e - a) \in Nat /\ r.offset + (e - a) <= e /\ Last(shown) \in Nat
      BY <1>1, <1>3, <1>5, <2>3, ListOfKeys
    <2>5. next \in PageReference
      BY <1>3, <2>1, <2>4 DEF PageReference
    <2> HIDE DEF next, shown, a, e
    <2>6. Grounded(next, list)
      BY <1>5, <1>6, <1>7, <2>2, <2>4 DEF Grounded
    <2>7. Before(next, list) = e
      BY <1>5, <1>7, <2>2 DEF Before
    <2> QED
      BY <1>5, <1>6, <2>2, <2>5, <2>6, <2>7 DEF next, shown
  <1>8. CASE kind # "orders"
    <2>1. next = [r EXCEPT !.offset = r.offset + PAGE_SIZE]
      BY <1>8 DEF NextPage
    <2>2. next \in PageReference /\ next.offset = r.offset + PAGE_SIZE
          /\ next.store = r.store /\ next.direction = r.direction
      BY <1>1, <2>1 DEF PageReference
    <2>3. r.direction = "CURRENT" /\ \E m \in Nat : r.offset = m * PAGE_SIZE
      BY <1>8 DEF Grounded
    <2>4. \E m \in Nat : r.offset + PAGE_SIZE = m * PAGE_SIZE
      <3>1. PICK m \in Nat : r.offset = m * PAGE_SIZE
        BY <2>3
      <3>2. m + 1 \in Nat /\ m * PAGE_SIZE + PAGE_SIZE = (m + 1) * PAGE_SIZE
        BY <1>1
      <3> QED
        BY <3>1, <3>2
    <2>5. Grounded(next, list)
      BY <1>8, <2>2, <2>3, <2>4 DEF Grounded
    <2>6. /\ a = IF r.offset <= n THEN r.offset ELSE n
          /\ e = IF a + PAGE_SIZE < n THEN a + PAGE_SIZE ELSE n
          /\ Before(next, list) = IF next.offset <= n THEN next.offset ELSE n
      BY <1>8 DEF Before, UpTo
    <2>7. Before(next, list) = e
      <3> HIDE DEF a, e, next, n
      <3> QED
        BY <1>1, <1>3, <1>4, <2>2, <2>6
    <2> HIDE DEF next, shown, a, e
    <2> QED
      BY <1>5, <1>6, <1>8, <2>2, <2>5, <2>7 DEF next, shown
  <1> QED
    BY <1>7, <1>8

LEMMA PreviousIs ==
    ASSUME kind \in Kinds, NEW r \in PageReference, NEW list \in SUBSET Keys,
           Grounded(r, list), HasPrevious(r, list), RowsShown(r, list) # <<>>
    PROVE  LET shown == RowsShown(r, list)
               previous == PreviousPage(r, shown)
           IN  /\ previous \in PageReference /\ Grounded(previous, list)
               /\ previous.store = r.store
               /\ Head(shown) \in list
               /\ Place(list, Head(shown)) = UpTo(previous, list) + 1
               /\ kind = "orders" => /\ previous.direction = "PREVIOUS"
                                     /\ previous.boundary = Head(shown)
               /\ Before(previous, list) < UpTo(previous, list)
  <1> DEFINE n == Cardinality(list)
             a == Before(r, list)
             e == UpTo(r, list)
             shown == RowsShown(r, list)
             previous == PreviousPage(r, shown)
             offset == IF r.offset < PAGE_SIZE THEN 0 ELSE r.offset - PAGE_SIZE
  <1>1. /\ PAGE_SIZE \in Nat \ {0} /\ n \in Nat
        /\ r.offset \in Nat /\ r.offset > 0 /\ r.store \in ListStores
    BY ListsAssumption, ListOfKeys DEF PageReference, HasPrevious
  <1>2. Window(shown, list, a, e)
    BY Shown
  <1>3. a \in Nat /\ e \in Nat /\ a < e /\ e <= n
    BY <1>2, WindowIs DEF Window
  <1>4. Head(shown) \in list /\ Place(list, Head(shown)) = a + 1 /\ Head(shown) \in Nat
    BY <1>2, <1>3, WindowIs, ListOfKeys
  <1>5. offset \in Nat
    BY <1>1
  <1> HIDE DEF a, e
  <1>6. CASE kind = "orders"
    <2>1. previous = [r EXCEPT !.direction = "PREVIOUS", !.boundary = Head(shown),
                               !.offset = offset]
      BY <1>6 DEF PreviousPage
    <2>2. /\ previous.direction = "PREVIOUS" /\ previous.boundary = Head(shown)
          /\ previous.store = r.store /\ previous.offset = offset
          /\ previous \in PageReference
      BY <1>4, <1>5, <2>1 DEF PageReference
    <2>3. r.offset <= a
      BY <1>6, OffsetsCount DEF a
    <2> HIDE DEF previous, shown
    <2>4. Grounded(previous, list)
      <3>1. a + 1 > 1 /\ (offset > 0 => offset + PAGE_SIZE < a + 1)
        BY <1>1, <1>3, <2>3
      <3> QED
        BY <1>4, <1>6, <2>2, <3>1 DEF Grounded
    <2>5. /\ UpTo(previous, list) = a
          /\ Before(previous, list) = IF a + 1 <= PAGE_SIZE THEN 0 ELSE a - PAGE_SIZE
      <3> DEFINE place == Place(list, Head(shown))
      <3>1. /\ UpTo(previous, list) = place - 1
            /\ Before(previous, list) = IF place <= PAGE_SIZE THEN 0
                                        ELSE place - 1 - PAGE_SIZE
        BY <1>6, <2>2 DEF UpTo, Before
      <3>2. place = a + 1
        BY <1>4
      <3> HIDE DEF place
      <3> QED
        BY <1>1, <1>3, <3>1, <3>2
    <2>6. Before(previous, list) < a
      BY <1>1, <1>3, <2>3, <2>5
    <2> QED
      BY <1>4, <1>6, <2>2, <2>4, <2>5, <2>6 DEF previous, shown
  <1>7. CASE kind # "orders"
    <2>1. previous = [r EXCEPT !.offset = offset]
      BY <1>7 DEF PreviousPage
    <2>2. /\ previous.offset = offset /\ previous.direction = r.direction
          /\ previous.store = r.store /\ previous \in PageReference
      BY <1>5, <2>1 DEF PageReference
    <2>3. r.direction = "CURRENT" /\ \E m \in Nat : r.offset = m * PAGE_SIZE
      BY <1>7 DEF Grounded
    <2>4. offset + PAGE_SIZE = r.offset /\ \E m \in Nat : offset = m * PAGE_SIZE
      <3>1. PICK m \in Nat : r.offset = m * PAGE_SIZE
        BY <2>3
      <3>2. m # 0
        BY <1>1, <3>1
      <3>3. m - 1 \in Nat /\ (m - 1) * PAGE_SIZE + PAGE_SIZE = m * PAGE_SIZE
            /\ (m - 1) * PAGE_SIZE \in Nat
        BY <1>1, <3>2
      <3> DEFINE before == (m - 1) * PAGE_SIZE
      <3>4. before \in Nat /\ before + PAGE_SIZE = r.offset
        BY <3>1, <3>3
      <3> HIDE DEF before
      <3>5. offset = before
        BY <1>1, <3>4
      <3> QED
        BY <3>3, <3>4, <3>5 DEF before
    <2> HIDE DEF previous, shown, offset
    <2>5. Grounded(previous, list)
      BY <1>7, <2>2, <2>3, <2>4 DEF Grounded
    <2>6. a = r.offset
      <3>1. a = IF r.offset <= n THEN r.offset ELSE n
        BY <1>7 DEF Before, a
      <3> QED
        BY <1>1, <1>3, <3>1
    <2>7. /\ Before(previous, list) = IF offset <= n THEN offset ELSE n
          /\ UpTo(previous, list) = IF Before(previous, list) + PAGE_SIZE < n
                                    THEN Before(previous, list) + PAGE_SIZE ELSE n
      BY <1>7, <2>2 DEF Before, UpTo
    <2>8. Before(previous, list) = offset /\ UpTo(previous, list) = a
      BY <1>1, <1>3, <1>5, <2>4, <2>6, <2>7
    <2>9. Before(previous, list) < UpTo(previous, list)
      BY <1>1, <1>3, <1>5, <2>4, <2>6, <2>8
    <2> QED
      BY <1>4, <1>7, <2>2, <2>5, <2>8, <2>9 DEF previous, shown
  <1> QED
    BY <1>6, <1>7

LEMMA NothingAfter ==
    ASSUME kind \in Kinds, NEW r \in PageReference, NEW list \in SUBSET Keys,
           Grounded(r, list), ~HasNext(r, list), RowsShown(r, list) # <<>>,
           r.offset + PAGE_SIZE < MAX_REACHABLE,
           NEW k \in list, k > Last(RowsShown(r, list))
    PROVE  FALSE
  <1> DEFINE n == Cardinality(list)
             a == Before(r, list)
             e == UpTo(r, list)
             shown == RowsShown(r, list)
  <1>1. /\ PAGE_SIZE \in Nat \ {0} /\ MAX_REACHABLE \in Nat /\ n \in Nat /\ r.offset \in Nat
    BY ListsAssumption, ListOfKeys DEF PageReference
  <1>2. Window(shown, list, a, e)
        /\ (kind # "orders" \/ r.direction # "PREVIOUS" =>
               (Len(Records(r, list)) > PAGE_SIZE <=> a + PAGE_SIZE < n))
    BY Shown
  <1>3. a \in Nat /\ e \in Nat /\ a < e /\ e <= n /\ Len(shown) = e - a
    BY <1>2, WindowIs DEF Window
  <1>4. Last(shown) \in list /\ Place(list, Last(shown)) = e
    BY <1>2, <1>3, WindowIs
  <1>5. e < Place(list, k) /\ Place(list, k) <= n /\ Place(list, k) \in Nat
    <2>1. Last(shown) < k
      BY <1>4, ListOfKeys
    <2>2. Place(list, Last(shown)) < Place(list, k)
      BY <1>4, <2>1, PlacesOrder
    <2>3. Place(list, k) <= n /\ Place(list, k) \in Nat
      BY PlacesOrder
    <2> QED
      BY <1>4, <2>2, <2>3
  <1>6. e < n
    BY <1>1, <1>3, <1>5
  <1> HIDE DEF a, e, n
  <1>7. CASE ~(kind = "orders" /\ r.direction = "PREVIOUS")
    <2>1. e = IF a + PAGE_SIZE < n THEN a + PAGE_SIZE ELSE n
      BY <1>7 DEF UpTo, a, e, n
    <2>2. a + PAGE_SIZE < n /\ e - a = PAGE_SIZE
      BY <1>1, <1>3, <1>6, <2>1
    <2>3. HasNext(r, list)
      BY <1>1, <1>2, <1>3, <1>7, <2>2 DEF HasNext
    <2> QED
      BY <2>3
  <1>8. CASE kind = "orders" /\ r.direction = "PREVIOUS"
    <2> DEFINE place == Place(list, r.boundary)
    <2>1. /\ e = place - 1
          /\ a = IF place <= PAGE_SIZE THEN 0 ELSE place - 1 - PAGE_SIZE
      BY <1>8 DEF UpTo, Before, a, e
    <2>2. place \in Nat
      BY <1>8, PlacesOrder DEF Grounded
    <2> HIDE DEF place
    <2>3. e - a <= PAGE_SIZE
      BY <1>1, <1>3, <2>1, <2>2
    <2>4. r.offset + Len(shown) < MAX_REACHABLE
      BY <1>1, <1>3, <2>3
    <2> QED
      BY <1>8, <2>4 DEF HasNext
  <1> QED
    BY <1>7, <1>8

\* The page that comes next, in the list as it is by then.
LEMMA NextContinues ==
    ASSUME kind \in Kinds, NEW r \in PageReference, NEW list \in SUBSET Keys,
           NEW more \in SUBSET Keys, IF kind = "orders" THEN list \subseteq more
                                     ELSE list = more,
           Grounded(r, list), HasNext(r, list)
    PROVE  LET from == RowsShown(r, list)
               shown == RowsShown(NextPage(r, from), more)
           IN  /\ Range(shown) # {}
               /\ \A k \in Range(shown) : k > Last(from)
               /\ \A k \in more : k > Last(from) /\ k < Last(shown) => k \in Range(shown)
  <1> DEFINE from == RowsShown(r, list)
             next == NextPage(r, from)
             shown == RowsShown(next, more)
             a == Before(next, more)
             e == UpTo(next, more)
             n == Cardinality(more)
             last == Last(from)
  <1>1. PAGE_SIZE \in Nat \ {0} /\ n \in Nat
    BY ListsAssumption, ListOfKeys
  <1>2. /\ next \in PageReference /\ Grounded(next, list)
        /\ \E k \in list : k > last
        /\ last \in list /\ Place(list, last) = Before(next, list)
        /\ kind = "orders" => next.direction = "NEXT" /\ next.boundary = last
    BY NextIs
  <1> HIDE DEF from, next, last
  <1>3. Grounded(next, more) /\ last \in more /\ Place(more, last) = a
    <2>1. CASE kind = "orders"
      BY <1>2, <2>1, GroundStays DEF Before
    <2>2. CASE kind # "orders"
      BY <1>2, <2>2
    <2> QED
      BY <2>1, <2>2
  <1>4. Window(shown, more, a, e)
    BY <1>2, <1>3, Shown
  <1>5. a \in Nat /\ e \in Nat /\ e <= n
    BY <1>4 DEF Window
  <1>6. a < n
    <2>1. PICK k \in more : last < k
      BY <1>2, ListOfKeys
    <2>2. a < Place(more, k) /\ Place(more, k) <= n /\ Place(more, k) \in Nat
      BY <1>3, <2>1, PlacesOrder
    <2> QED
      BY <1>1, <1>5, <2>2
  <1>7. a < e
    <2>1. e = IF a + PAGE_SIZE < n THEN a + PAGE_SIZE ELSE n
      BY <1>2 DEF UpTo
    <2> HIDE DEF a, e, n
    <2> QED
      BY <1>1, <1>5, <1>6, <2>1
  <1> HIDE DEF shown, a, e, n
  <1>8. /\ Last(shown) \in more /\ Place(more, Last(shown)) = e
        /\ \A k \in Range(shown) : k \in more
        /\ \A k \in more : k \in Range(shown) <=> a < Place(more, k) /\ Place(more, k) <= e
    BY <1>4, <1>7, WindowIs
  <1>9. Last(shown) \in Range(shown)
    BY <1>5, <1>7, <1>8
  <1>10. ASSUME NEW k \in Range(shown)
         PROVE  k > last
    <2>1. k \in more /\ a < Place(more, k)
      BY <1>8
    <2>2. last < k
      BY <1>3, <2>1, PlacesOrder
    <2> QED
      BY <1>3, <2>1, <2>2, ListOfKeys
  <1>11. ASSUME NEW k \in more, k > last, k < Last(shown)
         PROVE  k \in Range(shown)
    <2>1. last < k
      BY <1>3, <1>11, ListOfKeys
    <2>2. a < Place(more, k) /\ Place(more, k) < e /\ Place(more, k) \in Nat
      BY <1>3, <1>8, <1>11, <2>1, PlacesOrder
    <2> QED
      BY <1>5, <1>8, <2>2
  <1> QED
    BY <1>9, <1>10, <1>11 DEF from, next, shown, last

LEMMA PreviousContinues ==
    ASSUME kind \in Kinds, NEW r \in PageReference, NEW list \in SUBSET Keys,
           NEW more \in SUBSET Keys, IF kind = "orders" THEN list \subseteq more
                                     ELSE list = more,
           Grounded(r, list), HasPrevious(r, list), RowsShown(r, list) # <<>>
    PROVE  LET from == RowsShown(r, list)
               shown == RowsShown(PreviousPage(r, from), more)
           IN  /\ Range(shown) # {}
               /\ \A k \in Range(shown) : k < Head(from)
               /\ \A k \in more : k < Head(from) /\ k > Head(shown) => k \in Range(shown)
  <1> DEFINE from == RowsShown(r, list)
             previous == PreviousPage(r, from)
             shown == RowsShown(previous, more)
             a == Before(previous, more)
             e == UpTo(previous, more)
             n == Cardinality(more)
             first == Head(from)
  <1>1. PAGE_SIZE \in Nat \ {0} /\ n \in Nat
    BY ListsAssumption, ListOfKeys
  <1>2. /\ previous \in PageReference /\ Grounded(previous, list)
        /\ first \in list /\ Place(list, first) = UpTo(previous, list) + 1
        /\ kind = "orders" => previous.direction = "PREVIOUS" /\ previous.boundary = first
        /\ Before(previous, list) < UpTo(previous, list)
    BY PreviousIs
  <1> HIDE DEF from, previous, first
  <1>3. Grounded(previous, more) /\ first \in more
    <2>1. CASE kind = "orders"
      BY <1>2, <2>1, GroundStays
    <2>2. CASE kind # "orders"
      BY <1>2, <2>2
    <2> QED
      BY <2>1, <2>2
  <1>4. Window(shown, more, a, e)
    BY <1>2, <1>3, Shown
  <1>5. a \in Nat /\ e \in Nat /\ e <= n /\ a <= e
    BY <1>4 DEF Window
  <1>6. Place(more, first) = e + 1 /\ a < e
    <2>1. CASE kind = "orders"
      <3> DEFINE place == Place(more, first)
      <3>1. /\ e = place - 1
            /\ a = IF place <= PAGE_SIZE THEN 0 ELSE place - 1 - PAGE_SIZE
            /\ place > 1
        BY <1>2, <1>3, <2>1 DEF UpTo, Before, Grounded
      <3>2. place \in Nat
        BY <1>3, PlacesOrder
      <3> HIDE DEF place, a, e
      <3>3. place = e + 1 /\ a < e
        BY <1>1, <3>1, <3>2
      <3> QED
        BY <3>3 DEF place
    <2>2. CASE kind # "orders"
      BY <1>2, <2>2
    <2> QED
      BY <2>1, <2>2
  <1> HIDE DEF shown, a, e, n
  <1>8. /\ Head(shown) \in more /\ Place(more, Head(shown)) = a + 1
        /\ \A k \in Range(shown) : k \in more
        /\ \A k \in more : k \in Range(shown) <=> a < Place(more, k) /\ Place(more, k) <= e
    BY <1>4, <1>6, WindowIs
  <1>9. Head(shown) \in Range(shown)
    BY <1>5, <1>6, <1>8
  <1>10. ASSUME NEW k \in Range(shown)
         PROVE  k < first
    <2>1. k \in more /\ Place(more, k) <= e /\ Place(more, k) \in Nat
      BY <1>8, PlacesOrder
    <2>2. Place(more, k) < Place(more, first)
      BY <1>5, <1>6, <2>1
    <2> QED
      BY <1>3, <2>1, <2>2, PlacesOrder
  <1>11. ASSUME NEW k \in more, k < first, k > Head(shown)
         PROVE  k \in Range(shown)
    <2>1. Head(shown) < k
      BY <1>8, <1>11, ListOfKeys
    <2>2. Place(more, Head(shown)) < Place(more, k) /\ Place(more, k) \in Nat
      BY <1>8, <2>1, PlacesOrder
    <2>3. Place(more, k) < Place(more, first)
      BY <1>3, <1>11, PlacesOrder
    <2> QED
      BY <1>5, <1>6, <1>8, <2>2, <2>3
  <1> QED
    BY <1>9, <1>10, <1>11 DEF from, previous, shown, first

-----------------------------------------------------------------------------
(* The chat.                                                               *)

LEMMA KindStays ==
    ASSUME kind' = kind, NEW r, NEW list, NEW shown
    PROVE  /\ RowsShown(r, list)' = RowsShown(r, list)
           /\ HasNext(r, list)' = HasNext(r, list)
           /\ HasPrevious(r, list)' = HasPrevious(r, list)
           /\ NextPage(r, shown)' = NextPage(r, shown)
           /\ PreviousPage(r, shown)' = PreviousPage(r, shown)
           /\ Grounded(r, list)' = Grounded(r, list)
  <1>1. Records(r, list)' = Records(r, list)
    BY DEF Records
  <1>2. RowsShown(r, list)' = RowsShown(r, list)
    BY <1>1 DEF RowsShown
  <1>3. HasNext(r, list)' = HasNext(r, list)
    BY <1>1, <1>2 DEF HasNext
  <1>4. HasPrevious(r, list)' = HasPrevious(r, list)
    BY <1>2 DEF HasPrevious
  <1>5. Grounded(r, list)' = Grounded(r, list)
    BY DEF Grounded
  <1> QED
    BY <1>2, <1>3, <1>4, <1>5 DEF NextPage, PreviousPage

\* The rows of orders only grow.
RowsGrow ==
    /\ kind' = kind
    /\ kind = "orders" => \A s \in ListStores : rows[s] \subseteq rows'[s]

LEMMA LeadsOn ==
    ASSUME RowsGrow, NEW r, NEW shown, NEW list, Leads(r, shown, list)
    PROVE  Leads(r, shown, list)'
  <1>1. r.store \in ListStores
    BY DEF Leads, PageReference
  <1> QED
    BY <1>1, KindStays DEF Leads, RowsGrow

\* What is on the screen stays good while it is there.
LEMMA ScreenStays ==
    ASSUME RowsGrow, PageInv, CardInv, TapInv
    PROVE  /\ UNCHANGED page => PageInv'
           /\ UNCHANGED card => CardInv'
           /\ UNCHANGED tap => TapInv'
  <1>1. ASSUME UNCHANGED page PROVE PageInv'
    BY <1>1, KindStays, LeadsOn DEF PageInv, RowsGrow
  <1>2. ASSUME UNCHANGED card PROVE CardInv'
    BY <1>2, LeadsOn DEF CardInv, Returns, FirstPage
  <1>3. ASSUME UNCHANGED tap PROVE TapInv'
    <2> SUFFICES ASSUME tap # NoTap PROVE TapInv'
      BY <1>3 DEF TapInv
    <2>1. CASE tap.what \in {"next", "previous"}
      <3>1. PICK r \in PageReference :
                r.store = tap.store /\ Turns(tap.what, tap.page, r, tap.from)
        BY <2>1 DEF TapInv
      <3>2. Turns(tap.what, tap.page, r, tap.from)'
        BY <1>3, <3>1, KindStays, LeadsOn DEF Turns, RowsGrow
      <3> QED
        BY <1>3, <2>1, <3>1, <3>2 DEF TapInv
    <2>2. CASE tap.what \notin {"next", "previous"}
      BY <1>3, <2>2, LeadsOn DEF TapInv, Returns, FirstPage
    <2> QED
      BY <2>1, <2>2
  <1> QED
    BY <1>1, <1>2, <1>3

\* A page that is shown agrees with its references, and ends the list or does not.
LEMMA PageMade ==
    ASSUME kind \in Kinds, kind' = kind, NEW r \in PageReference,
           NEW list \in SUBSET Keys, NEW how, NEW from, NEW same,
           page' = Page(r, list, how, from, same), Grounded(r, list),
           kind = "orders" => list \subseteq rows'[r.store]
    PROVE  /\ PageInv' /\ ListsEnd'
           /\ page'.rows = RowsShown(r, list) /\ page'.list = list
           /\ page'.how = how /\ page'.from = from /\ page'.same = same
  <1> DEFINE shown == RowsShown(r, list)
  <1>1. /\ page'.rows = shown /\ page'.list = list
        /\ page'.store = r.store /\ page'.offset = r.offset /\ page'.current = r
        /\ page'.next = IF HasNext(r, list) THEN NextPage(r, shown) ELSE NoPage
        /\ page'.previous = IF HasPrevious(r, list) THEN PreviousPage(r, shown)
                            ELSE NoPage
        /\ page'.how = how /\ page'.from = from /\ page'.same = same
    BY DEF Page, CurrentPage
  <1>2. PageInv'
    <2>1. Leads(r, shown, list)'
      BY KindStays DEF Leads
    <2> QED
      BY <1>1, <2>1, KindStays DEF PageInv
  <1>3. ListsEnd'
    <2> HIDE DEF shown
    <2> SUFFICES ASSUME shown # <<>>
                 PROVE  LET after == {k \in list : k > Last(shown)}
                        IN  IF page'.next = NoPage
                            THEN after = {} \/ r.offset + PAGE_SIZE >= MAX_REACHABLE
                            ELSE after # {}
      BY <1>1 DEF ListsEnd
    <2>1. CASE HasNext(r, list)
      <3>1. page'.next \in PageReference /\ \E k \in list : k > Last(shown)
        BY <1>1, <2>1, NextIs DEF shown
      <3>2. page'.next # NoPage
        BY <3>1, NoPageAssumption
      <3> QED
        BY <3>1, <3>2
    <2>2. CASE ~HasNext(r, list)
      <3>1. page'.next = NoPage
        BY <1>1, <2>2
      <3>2. r.offset + PAGE_SIZE \in Nat /\ MAX_REACHABLE \in Nat
        BY ListsAssumption DEF PageReference
      <3>3. ASSUME r.offset + PAGE_SIZE < MAX_REACHABLE, NEW k \in list, k > Last(shown)
            PROVE  FALSE
        BY <2>2, <3>3, NothingAfter DEF shown
      <3> QED
        BY <3>1, <3>2, <3>3
    <2> QED
      BY <2>1, <2>2
  <1> QED
    BY <1>1, <1>2, <1>3

\* A reference to a page after or before another is one to read the list by.
LEMMA TurnIs ==
    ASSUME kind \in Kinds, NEW what \in {"next", "previous"}, NEW to, NEW from,
           NEW r \in PageReference, Turns(what, to, r, from)
    PROVE  /\ to \in PageReference /\ to.store = r.store
           /\ from.list \in SUBSET Keys /\ Grounded(to, from.list)
           /\ kind = "orders" => from.list \subseteq rows[r.store]
  <1>1. /\ from.list \in SUBSET Keys /\ Grounded(r, from.list)
        /\ from.rows = RowsShown(r, from.list)
        /\ kind = "orders" => from.list \subseteq rows[r.store]
    BY DEF Turns, Leads
  <1>2. CASE what = "next"
    BY <1>1, <1>2, NextIs DEF Turns
  <1>3. CASE what = "previous"
    <2>1. HasPrevious(r, from.list) /\ to = PreviousPage(r, from.rows)
      BY <1>3 DEF Turns
    <2>2. CASE from.rows # <<>>
      BY <1>1, <2>1, <2>2, PreviousIs
    <2>3. CASE from.rows = <<>>
      <3> DEFINE offset == IF r.offset < PAGE_SIZE THEN 0 ELSE r.offset - PAGE_SIZE
      <3>1. kind # "orders"
        BY <1>1, <2>1, <2>3 DEF HasPrevious
      <3>2. to = [r EXCEPT !.offset = offset]
        BY <2>1, <3>1 DEF PreviousPage
      <3>3. PAGE_SIZE \in Nat \ {0} /\ r.offset \in Nat
        BY ListsAssumption DEF PageReference
      <3>4. PICK m \in Nat : r.offset = m * PAGE_SIZE
        BY <1>1, <3>1 DEF Grounded
      <3>5. m # 0
        BY <2>1, <3>3, <3>4 DEF HasPrevious
      <3>6. m - 1 \in Nat /\ (m - 1) * PAGE_SIZE + PAGE_SIZE = m * PAGE_SIZE
            /\ (m - 1) * PAGE_SIZE \in Nat
        BY <3>3, <3>5
      <3> DEFINE before == (m - 1) * PAGE_SIZE
      <3>7. before \in Nat /\ before + PAGE_SIZE = r.offset
        BY <3>4, <3>6
      <3> HIDE DEF before
      <3>8. offset = before
        BY <3>3, <3>7
      <3> HIDE DEF offset
      <3>9. /\ to.offset = before /\ to.direction = r.direction /\ to.store = r.store
            /\ to \in PageReference
        BY <3>2, <3>7, <3>8 DEF PageReference
      <3> QED
        BY <1>1, <3>1, <3>6, <3>9 DEF Grounded, before
    <2> QED
      BY <2>2, <2>3
  <1> QED
    BY <1>2, <1>3

LEMMA FirstPageIs ==
    ASSUME kind \in Kinds, NEW s \in ListStores, NEW list
    PROVE  FirstPage(s) \in PageReference /\ Grounded(FirstPage(s), list)
  <1>1. PAGE_SIZE \in Nat /\ 0 * PAGE_SIZE = 0
    BY ListsAssumption
  <1> QED
    BY <1>1 DEF FirstPage, PageReference, Grounded

\* The page, what it agrees on, and the card, as far as they stay.
LEMMA AgreementStays ==
    ASSUME ListsAgree, kind' = kind
    PROVE  /\ UNCHANGED page => PagesContinue' /\ ListsEnd' /\ BackIsWhereItWas'
           /\ UNCHANGED card => TapOpensItsRow'
  BY DEF ListsAgree, PagesContinue, ListsEnd, BackIsWhereItWas, TapOpensItsRow

LEMMA ShowsPageKeeps ==
    ASSUME ListsInv, ShowsPage
    PROVE  ListsInv'
  <1> DEFINE list == rows[tap.store]
             r == tap.page
             same == tap.from.list = list
  <1>1. /\ kind \in Kinds /\ kind' = kind /\ rows' = rows /\ ListsTyped'
        /\ tap # NoTap /\ tap.store \in ListStores /\ list \in SUBSET Keys
        /\ tap.page.store = tap.store
    BY DEF ListsInv, ListsTyped, ShowsPage, TapInv
  <1>2. card' = NoCard /\ tap' = NoTap
    BY DEF ShowsPage
  <1>3. CardInv' /\ TapInv' /\ TapOpensItsRow'
    BY <1>2 DEF CardInv, TapInv, TapOpensItsRow
  <1> SUFFICES PageInv' /\ ListsEnd' /\ PagesContinue' /\ BackIsWhereItWas'
    BY <1>1, <1>3 DEF ListsInv, ListsAgree
  <1>4. ASSUME r \in PageReference
        PROVE  page' = Page(r, list, tap.what, tap.from.rows, same)
    <2>1. [r EXCEPT !.store = tap.store] = r
      BY <1>1, <1>4 DEF PageReference
    <2> QED
      BY <2>1 DEF ShowsPage
  <1>5. CASE tap.what \in {"next", "previous"}
    <2>1. PICK before \in PageReference :
              before.store = tap.store /\ Turns(tap.what, r, before, tap.from)
      BY <1>1, <1>5 DEF ListsInv, TapInv
    <2>2. /\ r \in PageReference /\ tap.from.list \in SUBSET Keys
          /\ Grounded(r, tap.from.list)
          /\ kind = "orders" => tap.from.list \subseteq list
      BY <1>1, <1>5, <2>1, TurnIs
    <2>3. Grounded(r, list)
      <3>1. CASE kind = "orders"
        BY <1>1, <2>2, <3>1, GroundStays
      <3>2. CASE kind # "orders"
        BY <2>2, <3>2 DEF Grounded
      <3> QED
        BY <3>1, <3>2
    <2>4. /\ PageInv' /\ ListsEnd'
          /\ page'.rows = RowsShown(r, list) /\ page'.list = list
          /\ page'.how = tap.what /\ page'.from = tap.from.rows /\ page'.same = same
      <3> HIDE DEF list, same, r
      <3>1. page' = Page(r, list, tap.what, tap.from.rows, same)
        BY <1>4, <2>2
      <3>2. kind = "orders" => list \subseteq rows'[r.store]
        BY <1>1 DEF list, r
      <3> QED
        BY <1>1, <2>2, <2>3, <3>1, <3>2, PageMade
    <2>5. /\ Grounded(before, tap.from.list)
          /\ tap.from.rows = RowsShown(before, tap.from.list)
          /\ tap.what = "next" =>
                /\ HasNext(before, tap.from.list)
                /\ r = NextPage(before, tap.from.rows)
          /\ tap.what = "previous" =>
                /\ HasPrevious(before, tap.from.list)
                /\ r = PreviousPage(before, tap.from.rows)
      BY <2>1 DEF Turns, Leads
    <2>6. BackIsWhereItWas'
      BY <1>5, <2>4 DEF BackIsWhereItWas
    <2>7. ASSUME tap.from.rows # <<>>, kind = "orders" \/ same
          PROVE  LET shown == Range(page'.rows)
                 IN  /\ tap.what = "next" =>
                          /\ shown # {}
                          /\ \A k \in shown : k > Last(tap.from.rows)
                          /\ \A k \in list : k > Last(tap.from.rows) /\ k < Last(page'.rows)
                                => k \in shown
                     /\ tap.what = "previous" =>
                          /\ shown # {}
                          /\ \A k \in shown : k < Head(tap.from.rows)
                          /\ \A k \in list : k < Head(tap.from.rows) /\ k > Head(page'.rows)
                                => k \in shown
      <3>1. IF kind = "orders" THEN tap.from.list \subseteq list ELSE tap.from.list = list
        BY <2>2, <2>7
      <3> HIDE DEF list, r, same
      <3>2. CASE tap.what = "next"
        BY <1>1, <2>2, <2>4, <2>5, <3>1, <3>2, NextContinues
      <3>3. CASE tap.what = "previous"
        BY <1>1, <2>2, <2>4, <2>5, <2>7, <3>1, <3>3, PreviousContinues
      <3> QED
        BY <3>2, <3>3
    <2>8. PagesContinue'
      <3> HIDE DEF list, r, same
      <3> QED
        BY <1>1, <2>4, <2>7 DEF PagesContinue
    <2> QED
      BY <2>4, <2>6, <2>8
  <1>6. CASE tap.what = "back"
    <2>1. Returns(r, tap.from)
      BY <1>1, <1>6 DEF ListsInv, TapInv
    <2>2. /\ r \in PageReference /\ Grounded(r, list)
          /\ tap.from.rows # <<>> /\ same => tap.from.rows = RowsShown(r, list)
      <3>1. CASE tap.from.rows = <<>> /\ r = FirstPage(r.store)
        BY <1>1, <3>1, FirstPageIs
      <3>2. CASE Leads(r, tap.from.rows, tap.from.list)
        <4>1. /\ r \in PageReference /\ tap.from.list \in SUBSET Keys
              /\ Grounded(r, tap.from.list)
              /\ tap.from.rows = RowsShown(r, tap.from.list)
              /\ kind = "orders" => tap.from.list \subseteq list
          BY <1>1, <3>2 DEF Leads
        <4>2. CASE kind = "orders"
          BY <1>1, <4>1, <4>2, GroundStays
        <4>3. CASE kind # "orders"
          BY <4>1, <4>3 DEF Grounded
        <4> QED
          BY <4>1, <4>2, <4>3
      <3> QED
        BY <2>1, <3>1, <3>2 DEF Returns
    <2>3. /\ PageInv' /\ ListsEnd'
          /\ page'.rows = RowsShown(r, list)
          /\ page'.how = tap.what /\ page'.from = tap.from.rows /\ page'.same = same
      <3> HIDE DEF list, same, r
      <3>1. page' = Page(r, list, tap.what, tap.from.rows, same)
        BY <1>4, <2>2
      <3>2. kind = "orders" => list \subseteq rows'[r.store]
        BY <1>1 DEF list, r
      <3> QED
        BY <1>1, <2>2, <3>1, <3>2, PageMade
    <2>4. PagesContinue'
      BY <1>6, <2>3 DEF PagesContinue
    <2>5. BackIsWhereItWas'
      BY <2>2, <2>3 DEF BackIsWhereItWas
    <2> QED
      BY <2>3, <2>4, <2>5
  <1> QED
    BY <1>5, <1>6 DEF ShowsPage

LEMMA ListsRowsKeeps ==
    ASSUME ListsInv, ListsRows
    PROVE  ListsInv'
  <1> DEFINE list == rows[here]
             r == FirstPage(here)
  <1>1. /\ kind \in Kinds /\ kind' = kind /\ rows' = rows /\ ListsTyped'
        /\ here \in ListStores /\ list \in SUBSET Keys
        /\ card' = NoCard /\ tap' = tap
        /\ page' = Page(r, list, "first", <<>>, FALSE)
    BY DEF ListsInv, ListsTyped, ListsRows
  <1>2. RowsGrow
    BY <1>1 DEF RowsGrow
  <1>3. TapInv' /\ CardInv' /\ TapOpensItsRow'
    BY <1>1, <1>2, ScreenStays DEF ListsInv, CardInv, TapOpensItsRow
  <1>4. r \in PageReference /\ Grounded(r, list) /\ r.store = here
    BY <1>1, FirstPageIs DEF FirstPage
  <1>5. PageInv' /\ ListsEnd' /\ page'.how = "first" /\ page'.from = <<>>
    <2> HIDE DEF list, r
    <2>1. kind = "orders" => list \subseteq rows'[r.store]
      BY <1>1, <1>4 DEF list
    <2> QED
      BY <1>1, <1>4, <2>1, PageMade
  <1>6. PagesContinue' /\ BackIsWhereItWas'
    BY <1>5 DEF PagesContinue, BackIsWhereItWas
  <1> QED
    BY <1>1, <1>3, <1>5, <1>6 DEF ListsInv, ListsAgree

\* Whatever leaves the page in place.
LEMMA PageStays ==
    ASSUME ListsInv, RowsGrow, UNCHANGED page, ListsTyped', CardInv', TapInv',
           TapOpensItsRow'
    PROVE  ListsInv'
  <1>1. PageInv'
    BY ScreenStays DEF ListsInv
  <1>2. PagesContinue' /\ ListsEnd' /\ BackIsWhereItWas'
    BY AgreementStays DEF ListsInv, RowsGrow
  <1> QED
    BY <1>1, <1>2 DEF ListsInv, ListsAgree

LEMMA TapsKeeps ==
    ASSUME ListsInv, TapsPage \/ TapsBack
    PROVE  ListsInv'
  <1>1. UNCHANGED <<kind, rows, here, page, card>>
    BY DEF TapsPage, TapsBack, Taps
  <1>2. RowsGrow /\ ListsTyped'
    BY <1>1 DEF RowsGrow, ListsInv, ListsTyped
  <1>3. CardInv' /\ TapOpensItsRow'
    BY <1>1, <1>2, ScreenStays, AgreementStays DEF ListsInv
  <1>4. TapInv'
    <2> SUFFICES ASSUME tap' # NoTap PROVE TapInv'
      BY DEF TapInv
    <2>0. here \in ListStores
      BY DEF ListsInv, ListsTyped
    <2>1. CASE TapsBack
      <3>1. /\ card # NoCard /\ card.back.store = here
            /\ tap' = [what |-> "back", store |-> here, page |-> card.back, row |-> 0,
                       of |-> card.back.store, from |-> card.from]
        BY <2>1 DEF TapsBack, Taps, ValidReference
      <3>2. Returns(card.back, card.from)
        BY <3>1 DEF ListsInv, CardInv
      <3>3. Returns(card.back, card.from)'
        BY <1>1, <1>2, <1>3, <3>1 DEF CardInv
      <3>4. /\ tap'.what = "back" /\ tap'.store = here /\ tap'.of = here
            /\ tap'.page = card'.back /\ tap'.from = card'.from
        BY <1>1, <3>1
      <3> QED
        BY <1>1, <2>0, <3>1, <3>3, <3>4 DEF TapInv
    <2>2. CASE TapsPage
      <3>0. PICK from, r : from = [rows |-> page.rows, list |-> page.list] /\ r = page.current
        OBVIOUS
      <3>1. /\ page # NoPage /\ page.store = r.store
            /\ page.next = IF HasNext(r, from.list) THEN NextPage(r, from.rows) ELSE NoPage
            /\ page.previous = IF HasPrevious(r, from.list)
                               THEN PreviousPage(r, from.rows) ELSE NoPage
        BY <2>2, <3>0 DEF TapsPage, ListsInv, PageInv
      <3>2. Leads(r, from.rows, from.list)
        BY <2>2, <3>0 DEF TapsPage, ListsInv, PageInv
      <3>3. r \in PageReference
        BY <3>2 DEF Leads
      <3>4. CASE \/ page.next # NoPage /\ Taps("next", page.store, page.next, 0, from)
                 \/ page.previous # NoPage
                    /\ Taps("previous", page.store, page.previous, 0, from)
        <4>1. PICK what \in {"next", "previous"}, to \in {page.next, page.previous} :
                  Taps(what, page.store, to, 0, from) /\ Turns(what, to, r, from)
          BY <3>1, <3>2, <3>4 DEF Turns
        <4>2. to \in PageReference /\ to.store = r.store
          BY <3>3, <4>1, TurnIs DEF ListsInv, ListsTyped
        <4>3. Turns(what, to, r, from)'
          BY <1>1, <1>2, <4>1, KindStays, LeadsOn DEF Turns
        <4>4. /\ page.store = here
              /\ tap' = [what |-> what, store |-> here, page |-> to, row |-> 0,
                         of |-> page.store, from |-> from]
          BY <4>1 DEF Taps, ValidReference
        <4>5. /\ tap'.what = what /\ tap'.store = here /\ tap'.of = here
              /\ tap'.page = to /\ tap'.from = from
          BY <4>4
        <4> QED
          BY <2>0, <3>1, <3>3, <4>1, <4>2, <4>3, <4>4, <4>5 DEF TapInv
      <3>5. CASE \E i \in DOMAIN page.rows :
                    Taps("row", page.store, page.current, page.rows[i], from)
        <4>1. PICK i \in DOMAIN page.rows :
                  Taps("row", page.store, page.current, page.rows[i], from)
          BY <3>5
        <4>2. /\ page.store = here
              /\ tap' = [what |-> "row", store |-> here, page |-> r,
                         row |-> page.rows[i], of |-> page.store, from |-> from]
          BY <3>0, <4>1 DEF Taps, ValidReference
        <4>3. /\ tap'.what = "row" /\ tap'.store = here /\ tap'.of = here
              /\ tap'.page = r /\ tap'.from = from
          BY <4>2
        <4>4. Leads(r, from.rows, from.list)'
          BY <1>2, <3>2, LeadsOn
        <4> QED
          BY <2>0, <3>1, <4>2, <4>3, <4>4 DEF TapInv, Returns
      <3> QED
        BY <2>2, <3>0, <3>4, <3>5 DEF TapsPage
    <2> QED
      BY <2>1, <2>2
  <1> QED
    BY <1>1, <1>2, <1>3, <1>4, PageStays

LEMMA CardKeeps ==
    ASSUME ListsInv, NEW s \in ListStores,
           \/ OpensCard(s) /\ (kind = "search" \/ s = tap.store)
           \/ \E k \in Keys : FindsRow(k)
    PROVE  ListsInv'
  <1>1. UNCHANGED <<kind, rows, here, page>>
    BY DEF OpensCard, FindsRow
  <1>2. RowsGrow /\ ListsTyped'
    BY <1>1 DEF RowsGrow, ListsInv, ListsTyped
  <1>3. CASE OpensCard(s) /\ (kind = "search" \/ s = tap.store)
    <2>1. tap' = NoTap /\ TapInv'
      BY <1>3 DEF OpensCard, TapInv
    <2>2. CardInv' /\ TapOpensItsRow'
      <3>1. CASE card' = NoCard
        BY <3>1 DEF CardInv, TapOpensItsRow
      <3>2. CASE card' # NoCard
        <4>1. /\ tap # NoTap /\ tap.what = "row"
              /\ card' = [store |-> s, row |-> tap.row, of |-> tap.of,
                          asked |-> tap.store, back |-> tap.page, from |-> tap.from]
          BY <1>3, <3>2 DEF OpensCard
        <4>2. /\ tap.store = tap.of /\ tap.store \in ListStores
              /\ tap.page.store = tap.store /\ Returns(tap.page, tap.from)
          BY <4>1 DEF ListsInv, TapInv
        <4>3. PICK r, from : r = tap.page /\ from = tap.from
          OBVIOUS
        <4>4. Returns(r, from)
          BY <4>2, <4>3
        <4>5. Returns(r, from)'
          BY <1>2, <4>4, LeadsOn DEF Returns, FirstPage
        <4>6. /\ card'.store = s /\ card'.of = tap.of /\ card'.asked = tap.store
              /\ card'.back = r /\ card'.from = from
          BY <4>1, <4>3
        <4>7. CardInv'
          BY <4>2, <4>3, <4>5, <4>6 DEF CardInv
        <4>8. TapOpensItsRow'
          BY <1>1, <1>3, <4>2, <4>6 DEF TapOpensItsRow
        <4> QED
          BY <4>7, <4>8
      <3> QED
        BY <3>1, <3>2
    <2> QED
      BY <1>1, <1>2, <2>1, <2>2, PageStays
  <1>4. CASE \E k \in Keys : FindsRow(k)
    <2>1. PICK k \in Keys : FindsRow(k)
      BY <1>4
    <2>2. tap' = tap /\ TapInv'
      BY <1>2, <2>1, ScreenStays DEF FindsRow, ListsInv
    <2>3. card' = [store |-> here, row |-> k, of |-> here, asked |-> here,
                   back |-> FirstPage(here), from |-> [rows |-> <<>>, list |-> {}]]
      BY <2>1 DEF FindsRow
    <2>4. /\ card'.store = here /\ card'.of = here /\ card'.back = FirstPage(here)
          /\ card'.from.rows = <<>> /\ here \in ListStores
          /\ FirstPage(here).store = here
      BY <2>3 DEF FirstPage, ListsInv, ListsTyped
    <2>5. CardInv' /\ TapOpensItsRow'
      BY <2>4 DEF CardInv, TapOpensItsRow, Returns, FirstPage
    <2> QED
      BY <1>1, <1>2, <2>2, <2>5, PageStays
  <1> QED
    BY <1>3, <1>4

LEMMA RestKeeps ==
    ASSUME ListsInv,
           \/ TurnsAway \/ RowsChange \/ \E s \in ListStores : MovesTo(s)
           \/ UNCHANGED listVars
    PROVE  ListsInv'
  <1>1. UNCHANGED <<kind, page, card>> /\ (tap' = tap \/ tap' = NoTap)
    BY DEF TurnsAway, RowsChange, MovesTo, listVars
  <1>2. RowsGrow /\ ListsTyped'
    <2>1. CASE RowsChange
      <3>1. PICK s \in ListStores, k \in Keys :
                /\ kind = "orders" => k \notin rows[s]
                /\ rows' = [rows EXCEPT ![s] = IF k \in @ THEN @ \ {k} ELSE @ \cup {k}]
        BY <2>1 DEF RowsChange
      <3>2. here' = here /\ kind' = kind
        BY <2>1 DEF RowsChange
      <3>3. rows \in [ListStores -> SUBSET Keys]
        BY DEF ListsInv, ListsTyped
      <3>4. /\ rows' \in [ListStores -> SUBSET Keys]
            /\ kind = "orders" => \A t \in ListStores : rows[t] \subseteq rows'[t]
        BY <3>1, <3>3
      <3> QED
        BY <3>2, <3>4 DEF RowsGrow, ListsInv, ListsTyped
    <2>2. CASE ~RowsChange
      <3>1. rows' = rows /\ here' \in ListStores
        BY <2>2 DEF TurnsAway, MovesTo, listVars, ListsInv, ListsTyped
      <3> QED
        BY <1>1, <3>1 DEF RowsGrow, ListsInv, ListsTyped
    <2> QED
      BY <2>1, <2>2
  <1>3. CardInv' /\ TapOpensItsRow' /\ TapInv'
    <2>1. CardInv' /\ TapOpensItsRow'
      BY <1>1, <1>2, ScreenStays, AgreementStays DEF ListsInv
    <2>2. TapInv'
      <3>1. CASE tap' = tap
        BY <1>2, <3>1, ScreenStays DEF ListsInv
      <3>2. CASE tap' = NoTap
        BY <3>2 DEF TapInv
      <3> QED
        BY <1>1, <3>1, <3>2
    <2> QED
      BY <2>1, <2>2
  <1> QED
    BY <1>1, <1>2, <1>3, PageStays

\* The lists agree for any page size, any lists and any number of taps, changes and
\* moves of the chat to another store: a list of orders, to which orders are added
\* meanwhile, and a list of stock or search results that has not changed between two
\* pages, continue without a gap or a repetition; the last page ends any list; back
\* from a card leads to the page as it was; and a card is that of the row that was
\* tapped, but for a search result whose chat moved while it was served.
THEOREM ListsAlwaysAgree == ListsSpec => []ListsAgree
  <1>1. ListsInit => ListsInv
    <2> SUFFICES ASSUME ListsInit PROVE ListsInv
      OBVIOUS
    <2>1. here \in ListStores
      BY ListsAssumption DEF ListsInit
    <2>2. ListsTyped
      <3>1. PICK first \in SUBSET Keys :
                rows = [s \in ListStores |-> IF s = here THEN first ELSE Keys]
        BY DEF ListsInit
      <3> QED
        BY <2>1, <3>1 DEF ListsInit, ListsTyped
    <2>3. page = NoPage /\ card = NoCard /\ tap = NoTap
      BY DEF ListsInit
    <2>4. PageInv /\ CardInv /\ TapInv
      BY <2>3 DEF PageInv, CardInv, TapInv
    <2>5. ListsAgree
      BY <2>3 DEF ListsAgree, TapOpensItsRow, PagesContinue, ListsEnd, BackIsWhereItWas
    <2> QED
      BY <2>2, <2>4, <2>5 DEF ListsInv
  <1>2. ListsInv /\ [ListsNext]_listVars => ListsInv'
    <2>1. ASSUME ListsInv, ShowsCard \/ ShowsResult \/ \E k \in Keys : FindsRow(k)
          PROVE  ListsInv'
      <3>1. here \in ListStores /\ (tap # NoTap => tap.store \in ListStores)
        BY <2>1 DEF ListsInv, ListsTyped, TapInv
      <3>2. CASE ShowsCard
        BY <2>1, <3>1, <3>2, CardKeeps DEF ShowsCard, OpensCard
      <3>3. CASE ShowsResult
        BY <2>1, <3>1, <3>3, CardKeeps DEF ShowsResult
      <3>4. CASE \E k \in Keys : FindsRow(k)
        BY <2>1, <3>1, <3>4, CardKeeps
      <3> QED
        BY <2>1, <3>2, <3>3, <3>4
    <2> QED
      BY <2>1, TapsKeeps, ShowsPageKeeps, ListsRowsKeeps, RestKeeps DEF ListsNext
  <1>3. ListsInv => ListsAgree
    BY DEF ListsInv
  <1> QED
    BY <1>1, <1>2, <1>3, PTL DEF ListsSpec

-----------------------------------------------------------------------------
(* The parts together.                                                     *)

\* Whatever a chat reads and does keeps its types, with what these say of one another:
\* a note is claimed when it has its action, and settings that are still those of a new
\* store have no journal.
THEOREM TelegramTypeCorrect == MCSpec => []MCTypeOK
  <1> DEFINE Inv == TypeOK /\ SettingsInv /\ NotesInv
  <1>1. MCInit => Inv
    BY TypeInit, SettingsInvInit, NotesInitial DEF MCInit
  <1>2. Inv /\ [MCNext]_<<focus, vars, settingsVars, noteVars, reportVars>> => Inv'
    <2> SUFFICES ASSUME Inv, [MCNext]_<<focus, vars, settingsVars, noteVars, reportVars>>
                 PROVE  Inv'
      OBVIOUS
    <2>1. [Next]_vars /\ [SettingsNext]_settingsVars /\ [NotesNext]_noteVars
      BY DEF MCNext
    <2> QED
      BY <2>1, TypeStep, SettingsStep, NotesStep
  <1>3. Inv => MCTypeOK
    BY NotesTypes DEF MCTypeOK, SettingsInv
  <1> QED
    BY <1>1, <1>2, <1>3, PTL DEF MCSpec
=============================================================================
