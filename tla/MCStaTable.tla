----------------------------- MODULE MCStaTable -----------------------------
(* Instances of StaTable for TLC. *)
EXTENDS StaTable, TLC

\* Stations, bss entries and readers are interchangeable.
Symmetry == Permutations(Sta) \cup Permutations(Bss) \cup Permutations(Reader)
=============================================================================
