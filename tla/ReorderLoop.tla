---------------------------- MODULE ReorderLoop ----------------------------
(***************************************************************************)
(* The loops of r92su_reorder_release_frames and r92su_reorder_sta_release *)
(* (r92su/rx.c), one iteration per step, run on every window the receive   *)
(* path can hand them.  They are shown to end and to do what ReorderWindow *)
(* says in one step.                                                       *)
(***************************************************************************)
EXTENDS ReorderWindow

CONSTANT Ssn   \* sequence number the session started with

ASSUME LoopAssumption == Ssn \in 0 .. Modulus - 1

VARIABLES
    input,     \* [fn, tid, left, new_head_seq] of the call
    pc,        \* the loop that is about to be entered again
    session,   \* tid, the session
    j, index,  \* slots
    skipped,   \* empty places since the last frame
    queue,     \* frames released
    armed      \* what the release timer was set to

loopvars == <<input, pc, session, j, index, skipped, queue, armed>>

\* Every window of the session: a slot holds the frame that belongs there, or
\* none.  Frames are named by their place in the window.
Windows ==
    {[ssn |-> Ssn, head_seq |-> h, len |-> Cardinality(F),
      buf |-> [i \in Slots |->
                 IF \E d \in F : i = sn_sub(h + d, Ssn) % Size
                 THEN CHOOSE d \in F : i = sn_sub(h + d, Ssn) % Size ELSE NoFrame]] :
     h \in 0 .. Modulus - 1, F \in SUBSET Slots}

Calls ==
    [fn : {"release_frames"}, tid : Windows, left : {[i \in Slots |-> 0]},
     new_head_seq : 0 .. Modulus - 1]
      \cup
    [fn : {"sta_release"}, tid : Windows, left : [Slots -> 0 .. Timeout],
     new_head_seq : {0}]

LoopInit ==
    /\ input \in Calls
    /\ session = input.tid
    /\ pc = input.fn
    /\ j = 0 /\ index = 0 /\ skipped = 0
    /\ queue = <<>>
    /\ armed = NoTimer

\* r92su_reorder_release_frame
release_frame(t, i) ==
    [t EXCEPT !.head_seq = sn_inc(@),
              !.len = IF t.buf[i] = NoFrame THEN @ ELSE @ - 1,
              !.buf[i] = NoFrame]
Queued(t, i) == IF t.buf[i] = NoFrame THEN queue ELSE Append(queue, t.buf[i])

HeadSlot(t) == sn_sub(t.head_seq, t.ssn) % Size
Wrap(i)     == (i + 1) % Size

\* The remainder of C takes the sign of the dividend.
CRem(a, n) == IF a < 0 THEN -((-a) % n) ELSE a % n

\* r92su_reorder_release_frames
release_frames ==
    /\ pc = "release_frames"
    /\ \/ /\ sn_less(session.head_seq, input.new_head_seq)
          /\ session' = release_frame(session, HeadSlot(session))
          /\ queue' = Queued(session, HeadSlot(session))
          /\ UNCHANGED pc
       \/ /\ ~sn_less(session.head_seq, input.new_head_seq)
          /\ pc' = "done"
          /\ UNCHANGED <<session, queue>>
    /\ UNCHANGED <<input, j, index, skipped, armed>>

\* Mutant: the missing head itself is not counted as skipped.
MutSkippedZero ==
    /\ pc = "sta_release"
    /\ index' = HeadSlot(session)
    /\ IF session.len > 0 /\ session.buf[index'] = NoFrame
       THEN skipped' = 0 /\ j' = Wrap(index') /\ pc' = "skip"
       ELSE pc' = "sequence" /\ UNCHANGED <<skipped, j>>
    /\ UNCHANGED <<input, session, queue, armed>>

\* r92su_reorder_sta_release decides between its two loops, ...
sta_release ==
    /\ pc = "sta_release"
    /\ index' = HeadSlot(session)
    /\ \/ /\ session.len > 0 /\ session.buf[index'] = NoFrame
          /\ skipped' = 1
          /\ j' = Wrap(index')
          /\ pc' = "skip"
       \/ /\ ~(session.len > 0 /\ session.buf[index'] = NoFrame)
          /\ pc' = "sequence"
          /\ UNCHANGED <<skipped, j>>
    /\ UNCHANGED <<input, session, queue, armed>>

\* ... skips over gaps to frames whose time is up, ...
skip ==
    /\ pc = "skip"
    /\ \/ /\ j = index
          /\ pc' = "rest"
          /\ UNCHANGED <<session, j, skipped, queue>>
       \/ /\ j # index /\ session.buf[j] = NoFrame
          /\ skipped' = skipped + 1
          /\ j' = Wrap(j)
          /\ UNCHANGED <<pc, session, queue>>
       \/ /\ j # index /\ session.buf[j] # NoFrame
          /\ skipped > 0 /\ input.left[j] > 0
          /\ pc' = "arm"
          /\ UNCHANGED <<session, j, skipped, queue>>
       \/ /\ j # index /\ session.buf[j] # NoFrame
          /\ ~(skipped > 0 /\ input.left[j] > 0)
          /\ session' = release_frame([session EXCEPT !.head_seq = sn_add(@, skipped)], j)
          /\ queue' = Queued(session, j)
          /\ skipped' = 0
          /\ j' = Wrap(j)
          /\ UNCHANGED pc
    /\ UNCHANGED <<input, index, armed>>

\* ... or releases the frames that are in sequence, ...
sequence ==
    /\ pc = "sequence"
    /\ \/ /\ session.buf[index] # NoFrame
          /\ session' = release_frame(session, index)
          /\ queue' = Queued(session, index)
          /\ index' = HeadSlot(session')
          /\ UNCHANGED pc
       \/ /\ session.buf[index] = NoFrame
          /\ pc' = "rest"
          /\ UNCHANGED <<session, queue, index>>
    /\ UNCHANGED <<input, j, skipped, armed>>

\* ... and looks for the first frame that is left.
rest ==
    /\ pc = "rest"
    /\ \/ /\ session.len > 0
          /\ index' = HeadSlot(session) /\ j' = HeadSlot(session)
          /\ pc' = "scan"
          /\ UNCHANGED armed
       \/ /\ session.len = 0
          /\ armed' = NoTimer
          /\ pc' = "done"
          /\ UNCHANGED <<index, j>>
    /\ UNCHANGED <<input, session, skipped, queue>>

\* Mutant: the loop has only its bound.
MutScanBound ==
    /\ pc = "scan"
    /\ IF j = CRem(index - 1, Size) THEN pc' = "arm" /\ UNCHANGED j
       ELSE j' = Wrap(j) /\ UNCHANGED pc
    /\ UNCHANGED <<input, session, index, skipped, queue, armed>>

scan ==
    /\ pc = "scan"
    /\ \/ /\ j = CRem(index - 1, Size) \/ session.buf[j] # NoFrame
          /\ pc' = "arm"
          /\ UNCHANGED j
       \/ /\ ~(j = CRem(index - 1, Size) \/ session.buf[j] # NoFrame)
          /\ j' = Wrap(j)
          /\ UNCHANGED pc
    /\ UNCHANGED <<input, session, index, skipped, queue, armed>>

\* set_release_timer
arm ==
    /\ pc = "arm"
    /\ armed' = input.left[j] + 1
    /\ pc' = "done"
    /\ UNCHANGED <<input, session, j, index, skipped, queue>>

LoopNext ==
    \/ release_frames
    \/ sta_release
    \/ skip
    \/ sequence
    \/ rest
    \/ scan
    \/ arm
    \/ pc = "done" /\ UNCHANGED loopvars   \* the call has returned

LoopSpec == LoopInit /\ [][LoopNext]_loopvars /\ WF_loopvars(LoopNext)

----------------------------------------------------------------------------
(* Properties *)

\* The loops index the buffer only inside it and count no further than its
\* size.
LoopTypeOK ==
    /\ input \in Calls
    /\ pc \in {"release_frames", "sta_release", "skip", "sequence", "rest", "scan", "arm", "done"}
    /\ session.head_seq \in 0 .. Modulus - 1 /\ session.len \in 0 .. Size
    /\ j \in Slots /\ index \in Slots /\ skipped \in 0 .. Size
    /\ armed \in {NoTimer} \cup 1 .. Timeout + 1

\* How far the call has to move the head.
Count ==
    IF input.fn = "release_frames" THEN ReleaseCount(input.tid, input.new_head_seq)
    ELSE StaReleaseCount(input.tid, input.left)

\* When a release function returns, the window, the frames it queued and the
\* timer are what ReorderWindow computes in one step, for every window, every
\* set of frames that timed out and every wrap of slots and sequence numbers;
\* and no loop leaves the buffer on the way.
LoopsAgree ==
    /\ LoopTypeOK
    /\ pc = "done" =>
          /\ session = Advance(input.tid, Count)
          /\ queue = Released(input.tid, Count)
          /\ input.fn = "sta_release" => armed = StaReleaseTimer(session, input.left)

\* The loops end, although the bound of the last one, (index - 1) % tid->size,
\* is -1 when the head is in slot 0, which no j equals.
LoopsEnd == <>(pc = "done")
=============================================================================
