------------------------------ MODULE Reorder ------------------------------
(***************************************************************************)
(* The A-MPDU receive path of one station and TID (r92su/rx.c): duplicate  *)
(* check, reorder buffer with its release timer, and delivery.  The rx     *)
(* tasklet and the timer both release frames under tid->lock, but deliver  *)
(* them after dropping it, under rx_path: the two steps are separate.      *)
(*                                                                         *)
(* A frame is named by its unwrapped sequence number, which the driver     *)
(* never sees; the driver sees it modulo Modulus (4096).  The transmitter  *)
(* may lose, repeat and reorder frames, but stays within Back and Ahead of *)
(* the newest frame it sent, as the block-ack protocol demands.  Jiffies   *)
(* are kept relative: left[i] is reorder_time[i] - jiffies, from Timeout   *)
(* (HZ / 10) down to 0, and timer is the time to the expiry of the timer.  *)
(***************************************************************************)
EXTENDS ReorderWindow

CONSTANTS
    Start,     \* first frame of the first block-ack session
    MaxSeq,    \* bound: last frame the transmitter sends
    Back,      \* how far behind its newest frame the transmitter may retry
    Ahead      \* how far ahead of its newest frame it may jump

ASSUME ReorderAssumption ==
    /\ MaxSeq \in Nat /\ Start \in 0 .. MaxSeq
    /\ Size > 1 /\ Back \in Nat /\ Back + 1 < Half
    /\ Ahead \in Nat \ {0} /\ Ahead + Size <= Half /\ 2 * Ahead <= Half

Frames == 0 .. MaxSeq
Context == {"tasklet", "timer"}
Link == {"down", "plain", "ba"}

VARIABLES
    link,         \* not connected, connected, connected with a session
    newest,       \* the newest frame the transmitter sent
    rx_seq_tid,   \* sequence number of the frame received last
    tid,          \* the block-ack session: [ssn, head_seq, len, buf]
    left,         \* [Slots -> time until the slot's frame may be skipped to]
    timer,        \* reorder_timer
    batch,        \* [Context -> frames released and not yet delivered]
    last,         \* newest frame released (history)
    purged        \* frames released and then dropped (history)

vars == <<link, newest, rx_seq_tid, tid, left, timer, batch, last, purged>>

----------------------------------------------------------------------------

Init ==
    /\ link = "ba"
    /\ newest = Start
    /\ rx_seq_tid = 0
    /\ tid = NewTid(SeqCtrl(Seqno(Start)))
    /\ left = [i \in Slots |-> 0]
    /\ timer = NoTimer
    /\ batch = [c \in Context |-> <<>>]
    /\ last = -1
    /\ purged = {}

LastOf(q) == IF q = <<>> THEN last ELSE q[Len(q)]
Release(c, q) ==
    /\ batch' = [batch EXCEPT ![c] = q]
    /\ last' = LastOf(q)

\* The transmitter sends, or repeats, a frame, and the rx tasklet takes it up.
Arrives(f) ==
    /\ link # "down"
    /\ batch["tasklet"] = <<>>
    /\ f \in newest - Back .. newest + Ahead
    /\ newest' = IF f > newest THEN f ELSE newest

\* r92su_rx_deduplicate: the same sequence number as the frame before.
rx_duplicate(f) ==
    /\ Arrives(f)
    /\ Seqno(f) = rx_seq_tid
    /\ UNCHANGED <<link, rx_seq_tid, tid, left, timer, batch, last, purged>>

Fresh(f) ==
    /\ Arrives(f)
    /\ Seqno(f) # rx_seq_tid
    /\ rx_seq_tid' = Seqno(f)

\* r92su_rx_reorder_ampdu without a session: the frame passes as it is.
rx_plain(f) ==
    /\ Fresh(f)
    /\ link = "plain"
    /\ Release("tasklet", <<f>>)
    /\ UNCHANGED <<link, tid, left, timer, purged>>

\* r92su_rx_reorder_ampdu drops a frame from before the window.
rx_old(f) ==
    /\ Fresh(f)
    /\ link = "ba"
    /\ sn_less(Seqno(f), tid.head_seq)
    /\ UNCHANGED <<link, tid, left, timer, batch, last, purged>>

\* Mutant: sn_inc is missing.
MutMoveShort(f) ==
    IF sn_less(Seqno(f), tid.head_seq + Size) THEN 0
    ELSE ReleaseCount(tid, sn_sub(Seqno(f), Size))

\* r92su_rx_reorder_ampdu for all other frames.  A frame beyond the window
\* first moves the window so that the frame is its last; a frame whose slot is
\* taken is dropped, and what was released on the way with it; the frame that
\* is due passes through an empty buffer; any other is buffered.
WindowMove(f) ==
    IF sn_less(Seqno(f), tid.head_seq + Size) THEN 0
    ELSE ReleaseCount(tid, sn_inc(sn_sub(Seqno(f), Size)))

rx_reorder(f) ==
    /\ Fresh(f)
    /\ link = "ba"
    /\ ~sn_less(Seqno(f), tid.head_seq)
    /\ LET moved == Advance(tid, WindowMove(f))
           out   == Released(tid, WindowMove(f))
           i     == Index(moved, Seqno(f))
       IN  \/ /\ moved.buf[i] # NoFrame
              /\ purged' = purged \cup {out[n] : n \in DOMAIN out}
              /\ tid' = moved
              /\ last' = LastOf(out)
              /\ UNCHANGED <<left, timer, batch>>
           \/ /\ moved.buf[i] = NoFrame
              /\ Seqno(f) = moved.head_seq /\ moved.len = 0
              /\ tid' = [moved EXCEPT !.head_seq = sn_inc(@)]
              /\ Release("tasklet", Append(out, f))
              /\ UNCHANGED <<left, timer, purged>>
           \/ /\ moved.buf[i] = NoFrame
              /\ ~(Seqno(f) = moved.head_seq /\ moved.len = 0)
              /\ left' = [left EXCEPT ![i] = Timeout]
              /\ LET stored == [moved EXCEPT !.buf[i] = f, !.len = @ + 1]
                     n      == StaReleaseCount(stored, left')
                 IN  /\ tid' = Advance(stored, n)
                     /\ Release("tasklet", out \o Released(stored, n))
                     /\ timer' = StaReleaseTimer(tid', left')
              /\ UNCHANGED purged
    /\ UNCHANGED link

\* r92su_reorder_tid_timer; while not connected it does nothing, and is not
\* armed again.
reorder_tid_timer ==
    /\ timer = 0
    /\ batch["timer"] = <<>>
    /\ \/ /\ link # "down"
          /\ tid' = Advance(tid, StaReleaseCount(tid, left))
          /\ timer' = StaReleaseTimer(tid', left)
          /\ Release("timer", Released(tid, StaReleaseCount(tid, left)))
       \/ /\ link = "down"
          /\ timer' = NoTimer
          /\ UNCHANGED <<tid, batch, last>>
    /\ UNCHANGED <<link, newest, rx_seq_tid, left, purged>>

\* r92su_rx_handler: a batch is delivered as a whole, under rx_path.
rx_handler(c) ==
    /\ batch[c] # <<>>
    /\ batch' = [batch EXCEPT ![c] = <<>>]
    /\ UNCHANGED <<link, newest, rx_seq_tid, tid, left, timer, last, purged>>

\* c2h_addba_report_event, r92su_sta_alloc_tid, in the rx tasklet: a new
\* session replaces the old one, whose timer does nothing from now on and
\* whose frames are freed after a grace period.  Without memory there is no
\* session.  The new session starts with the transmitter's next frame.
addba_report ==
    /\ link # "down"
    /\ batch["tasklet"] = <<>>
    /\ newest < MaxSeq
    /\ newest' = newest + 1
    /\ link' \in {"plain", "ba"}
    /\ tid' = NewTid(SeqCtrl(Seqno(newest + 1)))
    /\ left' = [i \in Slots |-> 0]
    /\ timer' = NoTimer
    /\ last' = -1
    /\ UNCHANGED <<rx_seq_tid, batch, purged>>

\* The connection ends: the state changes first, ...
disconnect ==
    /\ link # "down"
    /\ link' = "down"
    /\ UNCHANGED <<newest, rx_seq_tid, tid, left, timer, batch, last, purged>>

\* ... the station and its sessions are freed after a grace period
\* (r92su_free_sta_rcu, r92su_free_tid_rcu).
free_tid ==
    /\ link = "down"
    /\ tid.len > 0 \/ timer # NoTimer
    /\ tid' = NewTid(SeqCtrl(tid.ssn))
    /\ timer' = NoTimer
    /\ UNCHANGED <<link, newest, rx_seq_tid, left, batch, last, purged>>

\* The next connection has a new station (sta_alloc), which has no session.
\* It is taken to be made after the grace period.
reconnect ==
    /\ link = "down"
    /\ tid.len = 0 /\ timer = NoTimer
    /\ batch = [c \in Context |-> <<>>]
    /\ link' = "plain"
    /\ rx_seq_tid' = 0
    /\ last' = -1
    /\ UNCHANGED <<newest, tid, left, timer, batch, purged>>

\* Time passes.  The timer softirq may be late.
Less(t) == IF t > 0 THEN t - 1 ELSE 0
tick ==
    /\ timer # NoTimer
    /\ left' = [i \in Slots |-> Less(left[i])]
    /\ timer' = Less(timer)
    /\ UNCHANGED <<link, newest, rx_seq_tid, tid, batch, last, purged>>

Next ==
    \/ \E f \in Frames : rx_duplicate(f) \/ rx_plain(f) \/ rx_old(f) \/ rx_reorder(f)
    \/ reorder_tid_timer
    \/ \E c \in Context : rx_handler(c)
    \/ addba_report
    \/ disconnect
    \/ free_tid
    \/ reconnect
    \/ tick

Spec == Init /\ [][Next]_vars

\* Time passes, softirqs run and grace periods end; nobody has to send.
FairSpec ==
    /\ Spec
    /\ WF_vars(tick) /\ WF_vars(reorder_tid_timer) /\ WF_vars(free_tid)
    /\ \A c \in Context : WF_vars(rx_handler(c))

----------------------------------------------------------------------------
(* Properties *)

\* The window of rx.c stays well formed: head_seq and ssn are sequence numbers
\* (the fragment bits are gone), and the buffer never holds more than Size.
TypeOK ==
    /\ link \in Link /\ newest \in Frames /\ rx_seq_tid \in 0 .. Modulus - 1
    /\ tid \in [ssn : 0 .. Modulus - 1, head_seq : 0 .. Modulus - 1, len : 0 .. Size,
                buf : [Slots -> Frames \cup {NoFrame}]]
    /\ left \in [Slots -> 0 .. Timeout]
    /\ timer \in {NoTimer} \cup 0 .. Timeout + 1
    /\ batch \in [Context -> Seq(Frames)]
    /\ last \in Int /\ purged \subseteq Frames

\* The window is well formed, and every buffered frame is where its sequence
\* number says, inside the window that starts at head_seq, across the wrap of
\* the sequence numbers; tid->len counts the buffered frames.
WindowExact ==
    /\ TypeOK
    /\ \A i \in Slots : tid.buf[i] # NoFrame =>
           /\ i = Index(tid, Seqno(tid.buf[i]))
           /\ sn_sub(Seqno(tid.buf[i]), tid.head_seq) < Size
    /\ tid.len = Cardinality({i \in Slots : tid.buf[i] # NoFrame})

\* While connected, the release timer is pending whenever frames wait, and it
\* expires no later than one tick after the last of them may be skipped to:
\* no frame is stuck behind a gap that is never filled.
TimerGuardsBuffer ==
    link = "ba" /\ tid.len > 0 =>
        /\ timer # NoTimer
        /\ timer <= 1 + Max({left[i] : i \in {j \in Slots : tid.buf[j] # NoFrame}})

\* The drop path of r92su_rx_data purges the frames released on the way: none
\* is there whenever a frame is dropped because its slot is taken.
NothingPurged == purged = {}

\* Within a session frames are released in the order they were sent and each
\* at most once, by tasklet and timer together, whatever was lost, repeated or
\* timed out.
Rising(q) == \A m, n \in DOMAIN q : m < n => q[m] < q[n]
ReleasedInOrder ==
    [][\A c \in Context : link = "ba" /\ batch'[c] # <<>> /\ batch'[c] # batch[c] =>
          Rising(<<last>> \o batch'[c])]_vars

\* A frame that waits in the buffer is released, or freed with its session.
BufferedFrameLeaves ==
    \A f \in Frames : (\E i \in Slots : tid.buf[i] = f) ~> ~(\E i \in Slots : tid.buf[i] = f)
=============================================================================
