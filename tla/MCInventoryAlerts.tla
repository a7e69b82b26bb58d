---------------------------- MODULE MCInventoryAlerts ----------------------------
(***************************************************************************)
(* Instances of InventoryDelivery and InventoryBootstrap for TLC.  The two *)
(* share the queue but no state: a behaviour is one of either, which the   *)
(* focus of its initial state tells.                                       *)
(***************************************************************************)
EXTENDS InventoryDelivery, InventoryBootstrap, TLC

VARIABLE focus

MCVariations == (1 :> 1)

MCInit ==
    /\ focus \in {"alerts", "bootstrap"}
    /\ AlertInit /\ BootInit

MCNext ==
    \/ focus = "alerts" /\ AlertNext /\ UNCHANGED <<focus, bootVars>>
    \/ focus = "bootstrap" /\ BootNext /\ UNCHANGED <<focus, allAlertVars>>

MCSpec == MCInit /\ [][MCNext]_<<focus, allAlertVars, bootVars>>

MCSymmetry == Permutations(Workers) \cup Permutations(Events)
=============================================================================
