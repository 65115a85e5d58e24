--------------------------- MODULE ReorderWindow ---------------------------
(***************************************************************************)
(* The reorder buffer of one block-ack session (struct r92su_rx_tid) as    *)
(* data, and what the release functions of r92su/rx.c do to it in one call.*)
(* Their loops are summarised here; ReorderLoop runs them.                 *)
(***************************************************************************)
EXTENDS Integers, Sequences, FiniteSetsExt

CONSTANTS
    Modulus,   \* number of sequence numbers (4096)
    Size,      \* tid->size (32)
    Timeout,   \* HT_RX_REORDER_BUF_TIMEOUT, in ticks
    NoFrame,   \* an empty slot
    NoTimer    \* the release timer is not pending

ASSUME WindowAssumption ==
    /\ Size \in Nat \ {0} /\ Modulus \in Nat \ {0} /\ Modulus % Size = 0
    /\ 2 * Size <= Modulus /\ Timeout \in Nat
    /\ NoFrame \notin Nat /\ NoTimer \notin Nat

Half  == Modulus \div 2
Slots == 0 .. Size - 1

----------------------------------------------------------------------------
(* Sequence number arithmetic (external, linux/ieee80211.h) *)

sn_add(a, b)  == (a + b) % Modulus
sn_inc(a)     == sn_add(a, 1)
sn_sub(a, b)  == (a - b) % Modulus
sn_less(a, b) == sn_sub(a, b) > Half

Seqno(f) == f % Modulus   \* the sequence number field of a frame

----------------------------------------------------------------------------
(* The reorder buffer *)

\* r92su_sta_alloc_tid takes the starting sequence control of the session, with
\* the fragment number in its low four bits.
NewTid(ssn) == [ssn |-> ssn \div 16, head_seq |-> ssn \div 16, len |-> 0,
                buf |-> [i \in Slots |-> NoFrame]]
SeqCtrl(seqno) == 16 * seqno

\* The slot of a sequence number, and the slot d places after the head.
Index(t, seq) == sn_sub(seq, t.ssn) % Size
At(t, d)      == Index(t, sn_add(t.head_seq, d))
Full(t, d)    == t.buf[At(t, d)] # NoFrame

\* Mutants: __skb_queue_head for __skb_queue_tail; the slot is not cleared.
MutReleasedBackwards(t, n) ==
    LET m == IF n < Size THEN n ELSE Size
    IN  SelectSeq([d \in 1 .. m |-> t.buf[At(t, m - d)]], LAMBDA f : f # NoFrame)
MutAdvanceKeepsFrames(t, n) ==
    [t EXCEPT !.head_seq = sn_add(@, n),
              !.len = @ - Len(MutReleasedBackwards(t, n))]

\* r92su_reorder_release_frame for the first n places of the window: their
\* frames in order, and the buffer without them.
Upto(n) == IF n < Size THEN n ELSE Size
Leaving(t, n) == {d \in 0 .. Upto(n) - 1 : Full(t, d)}
Place(D, k)   == CHOOSE d \in D : Cardinality({e \in D : e <= d}) = k
Released(t, n) ==
    [k \in 1 .. Cardinality(Leaving(t, n)) |-> t.buf[At(t, Place(Leaving(t, n), k))]]
Advance(t, n) ==
    [t EXCEPT !.head_seq = sn_add(@, n),
              !.len = @ - Len(Released(t, n)),
              !.buf = [i \in Slots |-> IF \E d \in 0 .. Upto(n) - 1 : i = At(t, d)
                                       THEN NoFrame ELSE @[i]]]

\* r92su_reorder_release_frames: the head moves up to new_head_seq.
ReleaseCount(t, new_head_seq) ==
    IF sn_less(t.head_seq, new_head_seq) THEN sn_sub(new_head_seq, t.head_seq) ELSE 0

\* r92su_reorder_sta_release: when the head is missing, the places from which
\* it must not move on: a frame after a gap that has not timed out yet.
Blocked(t, l) ==
    {d \in 1 .. Size - 1 : Full(t, d) /\ ~Full(t, d - 1) /\ l[At(t, d)] > 0}
FirstEmpty(t) == Min({d \in 0 .. Size - 1 : ~Full(t, d)} \cup {Size})

\* How far sta_release moves the head: over gaps that timed out if the head is
\* missing, else over the frames that are in sequence.
StaReleaseCount(t, l) ==
    IF t.len > 0 /\ ~Full(t, 0)
    THEN LET stop == Min(Blocked(t, l) \cup {Size})
             out  == {d \in 0 .. stop - 1 : Full(t, d)}
         IN  IF out = {} THEN 0 ELSE Max(out) + 1
    ELSE FirstEmpty(t)

\* Mutant: the timer is armed only when the frame at the head is there.
MutTimerHeadOnly(t, l) ==
    IF t.len > 0 /\ Full(t, 0) THEN l[At(t, 0)] + 1 ELSE NoTimer

\* Afterwards the timer waits for the first frame left, if there is one.
StaReleaseTimer(t, l) ==
    IF t.len > 0 THEN l[At(t, Min({d \in 0 .. Size - 1 : Full(t, d)}))] + 1
    ELSE NoTimer
=============================================================================
