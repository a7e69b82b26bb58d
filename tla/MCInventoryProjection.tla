------------------------- MODULE MCInventoryProjection -------------------------
(***************************************************************************)
(* An instance of InventoryProjection for TLC: a product and its variation.*)
(***************************************************************************)
EXTENDS InventoryProjection, TLC

CONSTANTS product, variation

MCParent == (product :> NoItem) @@ (variation :> product)

MCSymmetry == Permutations(Projectors)
=============================================================================
