---------------------------- MODULE MCOrderDelivery ----------------------------
(***************************************************************************)
(* Instances of OrderDelivery for TLC.  Workers, events and recipients are *)
(* interchangeable in the safety runs.                                     *)
(***************************************************************************)
EXTENDS OrderDelivery, TLC

MCSymmetry ==
    Permutations(Workers) \cup Permutations(Events) \cup Permutations(Recipients)
=============================================================================
