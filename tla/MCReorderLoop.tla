--------------------------- MODULE MCReorderLoop ---------------------------
(* Instances of ReorderLoop for TLC; the values are in the configuration. *)
EXTENDS ReorderLoop
=============================================================================
