------------------------------ MODULE TelegramLists ------------------------------
(***************************************************************************)
(* Lists in a private chat: orders (telegram-order.service.ts), stock      *)
(* (inventory/telegram-inventory.service.ts) and search results            *)
(* (telegram-search-report.service.ts).  A page carries references to its  *)
(* neighbours and to its rows, and the card of a row one back to the page. *)
(* Orders are paged from a boundary, stock and results by offset, over     *)
(* rows that change meanwhile.                                             *)
(***************************************************************************)
EXTENDS Integers, SequencesExt, NumbersInOrder

CONSTANTS ListStores,
          Keys,            \* places in the order of the list, the first is 1
          PAGE_SIZE,
          MAX_REACHABLE,   \* REACHABLE_ORDER_CAP
          NoPage, NoCard, NoTap,
          MaxRowChanges, MaxMoves   \* (bounds)

ASSUME ListsAssumption ==
    /\ ListStores # {} /\ Keys \subseteq Nat \ {0} /\ IsFiniteSet(Keys)
    /\ PAGE_SIZE \in Nat \ {0} /\ MAX_REACHABLE \in Nat \ {0}

VARIABLES
    kind,        \* of list, which stays
    rows,        \* that a list of each store would show
    here,        \* the store of the chat's context
    page,        \* the page last shown
    card,        \* the card opened since
    tap,         \* the request under way
    rowChanges, moves

listVars == <<kind, rows, here, page, card, tap, rowChanges, moves>>

Kinds == {"orders", "stock", "search"}

\* What a button of a page refers to.
PageReference ==
    [store : ListStores, direction : {"CURRENT", "NEXT", "PREVIOUS"},
     boundary : Nat, offset : Nat]

ASSUME NoPageAssumption == NoPage \notin PageReference

FirstPage(s) == [store |-> s, direction |-> "CURRENT", boundary |-> 0, offset |-> 0]

ListsInit ==
    /\ kind \in Kinds
    /\ here = CHOOSE s \in ListStores : TRUE
    /\ \E first \in SUBSET Keys :
          rows = [s \in ListStores |-> IF s = here THEN first ELSE Keys]
    /\ page = NoPage /\ card = NoCard /\ tap = NoTap
    /\ rowChanges = 0 /\ moves = 0

-----------------------------------------------------------------------------
(* A page.                                                                 *)

FirstOf(seq, n) == SubSeq(seq, 1, IF Len(seq) < n THEN Len(seq) ELSE n)

\* What the query returns, one row more than a page has.
Records(reference, list) ==
    LET from == CASE reference.direction = "CURRENT" -> Sorted(list)
                  [] reference.direction = "NEXT" ->
                        Sorted({k \in list : k > reference.boundary})
                  [] reference.direction = "PREVIOUS" ->
                        Reverse(Sorted({k \in list : k < reference.boundary}))
    IN  IF kind = "orders" THEN FirstOf(from, PAGE_SIZE + 1)
        ELSE SubSeq(from, reference.offset + 1,
                    IF Len(from) < reference.offset + PAGE_SIZE + 1 THEN Len(from)
                    ELSE reference.offset + PAGE_SIZE + 1)

\* Mutant: a page above the boundary is reversed before it is cut.
RowsShownCutLate(reference, list) ==
    IF reference.direction = "PREVIOUS"
    THEN FirstOf(Reverse(Records(reference, list)), PAGE_SIZE)
    ELSE FirstOf(Records(reference, list), PAGE_SIZE)

RowsShown(reference, list) ==
    LET shown == FirstOf(Records(reference, list), PAGE_SIZE)
    IN  IF reference.direction = "PREVIOUS" THEN Reverse(shown) ELSE shown

\* Mutant: a next page is offered if this one is full.
HasNextIfFull(reference, list) == Len(RowsShown(reference, list)) = PAGE_SIZE

HasNext(reference, list) ==
    LET more == Len(Records(reference, list)) > PAGE_SIZE
        shown == RowsShown(reference, list)
    IN  IF kind = "orders"
        THEN /\ shown # <<>> /\ reference.offset + Len(shown) < MAX_REACHABLE
             /\ reference.direction = "PREVIOUS" \/ more
        ELSE more /\ reference.offset + PAGE_SIZE < MAX_REACHABLE

HasPrevious(reference, list) ==
    reference.offset > 0 /\ (kind = "orders" => RowsShown(reference, list) # <<>>)

NextPage(reference, shown) ==
    IF kind = "orders"
    THEN [reference EXCEPT !.direction = "NEXT", !.boundary = Last(shown),
                           !.offset = @ + Len(shown)]
    ELSE [reference EXCEPT !.offset = @ + PAGE_SIZE]

PreviousPage(reference, shown) ==
    LET offset == IF reference.offset < PAGE_SIZE THEN 0
                  ELSE reference.offset - PAGE_SIZE
    IN  IF kind = "orders"
        THEN [reference EXCEPT !.direction = "PREVIOUS", !.boundary = Head(shown),
                               !.offset = offset]
        ELSE [reference EXCEPT !.offset = offset]

\* Mutant: the reference to the page itself is one to the first page.
CurrentPageFirst(reference) == FirstPage(reference.store)

\* The reference that the cards of the page lead back with.
CurrentPage(reference) == reference

\* How it was reached, from which rows, and from the same list?, is history.
Page(reference, list, how, from, same) ==
    LET shown == RowsShown(reference, list)
    IN  [rows |-> shown, list |-> list, store |-> reference.store,
         offset |-> reference.offset, current |-> CurrentPage(reference),
         next |-> IF HasNext(reference, list) THEN NextPage(reference, shown)
                  ELSE NoPage,
         previous |-> IF HasPrevious(reference, list)
                      THEN PreviousPage(reference, shown) ELSE NoPage,
         how |-> how, from |-> from, same |-> same]

-----------------------------------------------------------------------------
(* The chat.                                                               *)

\* Mutant: a reference is good in every store.
ValidAnywhereElse(s) == TRUE

\* validateReference.
ValidReference(s) == s = here

\* resolveContext and validateReference; what is tapped for comes later.  From
\* which rows of which list is history.
Taps(what, s, reference, row, from) ==
    /\ tap = NoTap /\ ValidReference(s)
    /\ tap' = [what |-> what, store |-> here, page |-> reference, row |-> row, of |-> s,
               from |-> from]
    /\ UNCHANGED <<kind, rows, here, page, card, rowChanges, moves>>

TapsPage ==
    /\ page # NoPage
    /\ LET from == [rows |-> page.rows, list |-> page.list]
       IN  \/ page.next # NoPage /\ Taps("next", page.store, page.next, 0, from)
           \/ page.previous # NoPage
              /\ Taps("previous", page.store, page.previous, 0, from)
           \/ \E i \in DOMAIN page.rows :
                 Taps("row", page.store, page.current, page.rows[i], from)

TapsBack == card # NoCard /\ Taps("back", card.back.store, card.back, 0, card.from)

\* Query and references; the store is that of the context the request has read.
ShowsPage ==
    /\ tap # NoTap /\ tap.what \in {"next", "previous", "back"}
    /\ page' = Page([tap.page EXCEPT !.store = tap.store], rows[tap.store], tap.what,
                    tap.from.rows, tap.from.list = rows[tap.store])
    /\ card' = NoCard /\ tap' = NoTap
    /\ UNCHANGED <<kind, rows, here, rowChanges, moves>>

\* The command for the list.
ListsRows ==
    /\ page' = Page(FirstPage(here), rows[here], "first", <<>>, FALSE)
    /\ card' = NoCard
    /\ UNCHANGED <<kind, rows, here, tap, rowChanges, moves>>

\* A reference that has expired, an entitlement that has lapsed, a fault.
TurnsAway ==
    /\ tap # NoTap /\ tap' = NoTap
    /\ UNCHANGED <<kind, rows, here, page, card, rowChanges, moves>>

\* One row by its number, as the only result of a search, or from a notification.
FindsRow(row) ==
    /\ row \in rows[here]
    /\ card' = [store |-> here, row |-> row, of |-> here, asked |-> here,
                back |-> FirstPage(here), from |-> [rows |-> <<>>, list |-> {}]]
    /\ UNCHANGED <<kind, rows, here, page, tap, rowChanges, moves>>

\* The row of that number in store s.
OpensCard(s) ==
    /\ tap # NoTap /\ tap.what = "row"
    /\ card' = IF tap.row \in rows[s]
               THEN [store |-> s, row |-> tap.row, of |-> tap.of, asked |-> tap.store,
                     back |-> tap.page, from |-> tap.from]
               ELSE NoCard
    /\ tap' = NoTap
    /\ UNCHANGED <<kind, rows, here, page, rowChanges, moves>>

\* A row that is gone has no card.
ShowsCard == kind # "search" /\ OpensCard(tap.store)

\* select: openProjectedDetail resolves the context once more.  It looks an order
\* up by its number, and an item by its id, which another store turns away.
ShowsResult == kind = "search" /\ OpensCard(here)

\* Orders stay once they are projected; stock and results come and go.
RowsChange ==
    /\ rowChanges < MaxRowChanges /\ rowChanges' = rowChanges + 1
    /\ \E s \in ListStores, k \in Keys :
          /\ kind = "orders" => k \notin rows[s]
          /\ rows' = [rows EXCEPT ![s] = IF k \in @ THEN @ \ {k} ELSE @ \cup {k}]
    /\ UNCHANGED <<kind, here, page, card, tap, moves>>

\* The store of the tenant is replaced, or the user joins another tenant.
MovesTo(s) ==
    /\ moves < MaxMoves /\ moves' = moves + 1
    /\ here # s /\ here' = s
    /\ UNCHANGED <<kind, rows, page, card, tap, rowChanges>>

ListsNext ==
    \/ TapsPage \/ TapsBack \/ ShowsPage \/ ShowsCard \/ ShowsResult \/ TurnsAway
    \/ ListsRows \/ \E row \in Keys : FindsRow(row)
    \/ RowsChange \/ \E s \in ListStores : MovesTo(s)

ListsSpec == ListsInit /\ [][ListsNext]_listVars

-----------------------------------------------------------------------------
(* Properties.                                                             *)

\* Whoever taps a row opens the card of that row of that store, even if the chat
\* belongs to another store by now, in which a row has the same number.  A search
\* result alone is looked up in the store of a second context: it is another
\* store's if the chat moved to that store while the request was served.
TapOpensItsRow ==
    card # NoCard => \/ card.store = card.of
                     \/ kind = "search" /\ card.of = card.asked

\* Going on, or back, skips no row and repeats none.  Orders may come in meanwhile;
\* stock and results must not change.
PagesContinue ==
    page # NoPage /\ page.from # <<>> /\ (kind = "orders" \/ page.same) =>
    LET shown == Range(page.rows)
    IN  /\ page.how = "next" =>
             /\ shown # {}
             /\ \A k \in shown : k > Last(page.from)
             /\ \A k \in page.list :
                   k > Last(page.from) /\ k < Last(page.rows) => k \in shown
        /\ page.how = "previous" =>
             /\ shown # {}
             /\ \A k \in shown : k < Head(page.from)
             /\ \A k \in page.list :
                   k < Head(page.from) /\ k > Head(page.rows) => k \in shown

\* A page that offers no other after it is the last, or reaches the cap, and one
\* that offers another does not end the list.
ListsEnd ==
    page # NoPage /\ page.rows # <<>> =>
    LET after == {k \in page.list : k > Last(page.rows)}
    IN  IF page.next = NoPage
        THEN after = {} \/ page.offset + PAGE_SIZE >= MAX_REACHABLE
        ELSE after # {}

\* Back from a card leads to the page as it was, if its list is as it was.
BackIsWhereItWas ==
    page # NoPage /\ page.how = "back" /\ page.from # <<>> /\ page.same =>
        page.rows = page.from

\* A list can be read from end to end and back, and its cards are its rows'.
ListsAgree == TapOpensItsRow /\ PagesContinue /\ ListsEnd /\ BackIsWhereItWas
=============================================================================
