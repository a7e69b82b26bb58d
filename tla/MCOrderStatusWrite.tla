-------------------------- MODULE MCOrderStatusWrite --------------------------
(***************************************************************************)
(* Instances of OrderStatusWrite for TLC.  Requests are interchangeable,   *)
(* and so are references.                                                  *)
(***************************************************************************)
EXTENDS OrderStatusWrite, TLC

MCSymmetry == Permutations(Requests) \cup Permutations(References)
=============================================================================
