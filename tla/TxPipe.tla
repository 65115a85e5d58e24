------------------------------- MODULE TxPipe -------------------------------
(***************************************************************************)
(* What the bulk-out path of r92su promises to its callers, whatever the   *)
(* number of contexts that run it: a buffer that is handed in is refused   *)
(* or queued, a queued one is sent or dropped, at most Limit are with the  *)
(* controller, and each is released exactly once.                          *)
(***************************************************************************)
EXTENDS Naturals, FiniteSets

CONSTANTS Buffer, Limit

VARIABLE phase   \* [Buffer -> the stage of its life]

Phase == {"new", "queued", "busy", "sent", "freed"}

Init == phase = [b \in Buffer |-> "new"]

Busy == {b \in Buffer : phase[b] = "busy"}

Move(b, from, to) == phase[b] = from /\ phase' = [phase EXCEPT ![b] = to]

Refuse(b)  == Move(b, "new", "freed")
Queue(b)   == Move(b, "new", "queued")
Start(b)   == Cardinality(Busy) < Limit /\ Move(b, "queued", "busy")
Drop(b)    == Move(b, "queued", "freed")
Finish(b)  == Move(b, "busy", "sent")
Release(b) == Move(b, "sent", "freed")

Next == \E b \in Buffer :
    Refuse(b) \/ Queue(b) \/ Start(b) \/ Drop(b) \/ Finish(b) \/ Release(b)

Spec == Init /\ [][Next]_phase
=============================================================================
