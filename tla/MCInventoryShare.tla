-------------------------- MODULE MCInventoryShare --------------------------
(* Small instances of InventoryShare for TLC. *)
EXTENDS InventoryShareProps, TLC

ServerSymmetry == Permutations(Servers)
=============================================================================
