------------------------------- MODULE MCTenancy -------------------------------
(***************************************************************************)
(* Instances of Memberships, TelegramLinking, StoreRegistration,           *)
(* ErasureLedger and TelegramLists for TLC.  They share no state: a        *)
(* behaviour is one of either, which the focus of its initial state tells. *)
(* Interchangeable values of different modules have the same names, so     *)
(* that one permutation serves all of them.                                *)
(***************************************************************************)
EXTENDS Memberships, TelegramLinking, StoreRegistration, ErasureLedger,
        TelegramLists, TLC

CONSTANTS shop1, shop2, person

VARIABLE focus

MCErasures ==
    {StoreEntry(shop1), TenantEntry(shop1),
     IdentityEntry(shop1, person), IdentityEntry(shop2, person)}

\* The list at first: long, with room for a row before it or in it, or short.
MCLists == {Keys, {}, {2}, {2, 3}} \cup {Keys \ {k} : k \in {1, 3}}

MCInit ==
    /\ focus \in {"memberships", "linking", "registration", "erasure", "lists"}
    /\ MembershipsInit /\ LinkInit /\ RegistrationInit /\ ErasureInit /\ ListsInit
    /\ rows[here] \in MCLists
    /\ focus # "lists" => kind = "orders" /\ rows[here] = Keys

MCNext ==
    \/ /\ focus = "memberships" /\ MembershipsNext
       /\ UNCHANGED <<focus, botVars, linkVars, registrationVars, erasureVars, listVars>>
    \/ /\ focus = "linking" /\ LinkNext
       /\ UNCHANGED <<focus, membershipVars, registrationVars, erasureVars, listVars>>
    \/ /\ focus = "registration" /\ RegistrationNext
       /\ UNCHANGED <<focus, membershipVars, botVars, linkVars, erasureVars, listVars>>
    \/ /\ focus = "erasure" /\ ErasureNext
       /\ UNCHANGED <<focus, membershipVars, botVars, linkVars, registrationVars,
                      listVars>>
    \/ /\ focus = "lists" /\ ListsNext
       /\ UNCHANGED <<focus, membershipVars, botVars, linkVars, registrationVars,
                      erasureVars>>

MCSpec ==
    /\ MCInit
    /\ [][MCNext]_<<focus, membershipVars, botVars, linkVars,
                    registrationVars, erasureVars, listVars>>

MCSymmetry ==
    Permutations(LinkTokens) \cup Permutations(TelegramUsers) \cup Permutations(SaasUsers)

\* The variables of every part keep their types, with what each part's types
\* say of one another: owners, bindings, credentials, the ledger's entries.
MCTypeOK == MembershipsTypeOK /\ LinkTypeOK /\ RegistrationTypeOK /\ ErasureTypeOK
=============================================================================
