----------------------------- MODULE MCReorder -----------------------------
(* Instances of Reorder for TLC; the values are in the configurations. *)
EXTENDS Reorder
=============================================================================
