--------------------------- MODULE MCOrderProjection ---------------------------
(***************************************************************************)
(* Instances of OrderProjection for TLC.  Projectors are interchangeable.  *)
(***************************************************************************)
EXTENDS OrderProjection, TLC

MCSymmetry == Permutations(Projectors)
=============================================================================
