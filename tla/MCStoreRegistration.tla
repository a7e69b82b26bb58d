-------------------------- MODULE MCStoreRegistration --------------------------
(***************************************************************************)
(* StoreRegistration for TLC.                                              *)
(***************************************************************************)
EXTENDS StoreRegistration, TLC

MCSymmetry == Permutations(Visits)
=============================================================================
