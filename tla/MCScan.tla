------------------------------- MODULE MCScan -------------------------------
(* Instances of Scan for TLC; the values are in the configurations. *)
EXTENDS Scan
=============================================================================
