------------------------------- MODULE UsbTx -------------------------------
(***************************************************************************)
(* The bulk-out path of the r92su driver (r92su/usb.c): every frame and    *)
(* firmware command is wrapped in an URB that waits on the anchor tx_wait, *)
(* at most RTL_USB_MAX_TX_URBS_NUM URBs are handed to the host controller  *)
(* at a time (anchor tx_submitted, counter tx_pending_urbs), each          *)
(* completion callback tries to submit the next waiting URB, and the USB   *)
(* disconnect poisons what is submitted, drains what waits and frees the   *)
(* device.  No lock protects r92su_tx_schedule: it is modelled one shared  *)
(* access at a time, so that every interleaving of senders, completion     *)
(* callbacks and the disconnect is a behaviour.                            *)
(*                                                                         *)
(* An URB and the skb it carries (urb->context) live and die together, so  *)
(* an URB is named by its skb.  The states of r92su.h:66-74 are told apart *)
(* only as far as this path does: DEAD, UNLOAD and everything from PROBE   *)
(* on (r92su_is_probing).                                                  *)
(***************************************************************************)
EXTENDS Integers, Sequences, FiniteSets

CONSTANTS
    Skb,        \* the buffers handed to r92su_usb_tx
    Sender,     \* contexts that call r92su_usb_tx (tx queues, h2c commands)
    Completer,  \* contexts in which the USB core runs completion callbacks
    MaxTx,      \* RTL_USB_MAX_TX_URBS_NUM
    NoSkb       \* "no buffer in this context's hands"

Ctx == Sender \cup Completer

ASSUME UsbTxAssumption ==
    /\ IsFiniteSet(Skb) /\ IsFiniteSet(Sender) /\ IsFiniteSet(Completer)
    /\ Sender \cap Completer = {}
    /\ NoSkb \notin Skb
    /\ MaxTx \in Nat \ {0}

VARIABLES
    state,         \* r92su->state
    sent,          \* skbs that r92su_usb_tx was called with (history)
    tx_wait,       \* anchor of the URBs that wait, oldest first
    tx_submitted,  \* anchor of the URBs on their way to or in the controller
    reject,        \* URBs that usb_submit_urb refuses (urb->reject)
    hcd,           \* URBs the host controller owns
    tx_pending_urbs,
    freed,         \* [Skb -> how often the skb was freed]
    pc,            \* [Ctx -> the statement a context is about to execute]
    urb,           \* [Ctx -> the URB a context holds]
    dpc            \* the statement of r92su_usb_disconnect

dev     == <<state, dpc>>
anchors == <<tx_wait, tx_submitted>>
core    == <<reject, hcd>>
skbs    == <<sent, freed>>
ctl     == <<pc, urb>>
vars    == <<dev, anchors, core, skbs, ctl, tx_pending_urbs>>

State == {"DEAD", "UNLOAD", "PROBE"}
IsProbing == state = "PROBE"

\* Statements of a context: "idle" outside the driver; r92su_usb_tx up to the
\* call of r92su_tx_schedule; r92su_tx_schedule itself; r92su_tx_usb_cb up to
\* the call of r92su_tx_schedule.
TxPC       == {"anchor_wait"}
SchedulePC == {"inc", "get", "anchor", "submit", "fail", "dec"}
CbPC       == {"cb_dec", "cb_free", "cb_err", "cb_dead"}
PC == {"idle"} \cup TxPC \cup SchedulePC \cup CbPC

\* Statements of the disconnect; they tell whether intf->condition is
\* USB_INTERFACE_UNBINDING and whether tx_submitted is a poisoned anchor.
DisconnectPC == {"bound", "unregister", "flush", "wait", "poison", "drain", "gone"}
Unbinding == dpc # "bound"
Poisoned  == dpc \in {"poison", "drain", "gone"}

Init ==
    /\ state = "PROBE"
    /\ sent = {}
    /\ tx_wait = <<>>
    /\ tx_submitted = {}
    /\ reject = {}
    /\ hcd = {}
    /\ tx_pending_urbs = 0
    /\ freed = [k \in Skb |-> 0]
    /\ pc = [c \in Ctx |-> "idle"]
    /\ urb = [c \in Ctx |-> NoSkb]
    /\ dpc = "bound"

Goto(c, label) == pc' = [pc EXCEPT ![c] = label]
Take(c, k)     == urb' = [urb EXCEPT ![c] = k]
Free(k)        == freed' = [freed EXCEPT ![k] = @ + 1]

mark_dead == state' = "DEAD"

----------------------------------------------------------------------------
(* r92su_usb_tx *)

\* The call returns at once, and frees the skb, when the device is not
\* probing (-EINVAL) or no URB can be allocated (-ENOMEM).
usb_tx_refused(s, k) ==
    /\ pc[s] = "idle"
    /\ dpc \in {"bound", "unregister", "flush"}
    /\ k \notin sent
    /\ sent' = sent \cup {k}
    /\ Free(k)
    /\ UNCHANGED <<dev, anchors, core, ctl, tx_pending_urbs>>

\* The probing check has passed and the URB is filled; nothing pins the state
\* from here on.
usb_tx_accepted(s, k) ==
    /\ pc[s] = "idle"
    /\ dpc \in {"bound", "unregister", "flush"}
    /\ IsProbing
    /\ k \notin sent
    /\ sent' = sent \cup {k}
    /\ Take(s, k)
    /\ Goto(s, "anchor_wait")
    /\ UNCHANGED <<dev, anchors, core, tx_pending_urbs, freed>>

\* usb_anchor_urb(urb, &tx_wait), then the call of r92su_tx_schedule.
usb_tx_anchor(s) ==
    /\ pc[s] = "anchor_wait"
    /\ tx_wait' = Append(tx_wait, urb[s])
    /\ Take(s, NoSkb)
    /\ Goto(s, "inc")
    /\ UNCHANGED <<dev, core, skbs, tx_submitted, tx_pending_urbs>>

----------------------------------------------------------------------------
(* r92su_tx_schedule *)

\* atomic_inc_return(&tx_pending_urbs) > RTL_USB_MAX_TX_URBS_NUM
schedule_inc(c) ==
    /\ pc[c] = "inc"
    /\ tx_pending_urbs' = tx_pending_urbs + 1
    /\ Goto(c, IF tx_pending_urbs + 1 > MaxTx THEN "dec" ELSE "get")
    /\ UNCHANGED <<dev, anchors, core, skbs, urb>>

\* usb_get_from_anchor(&tx_wait): takes the oldest waiting URB, if any.
schedule_get(c) ==
    /\ pc[c] = "get"
    /\ \/ /\ tx_wait = <<>>
          /\ Goto(c, "dec")
          /\ UNCHANGED <<tx_wait, urb>>
       \/ /\ tx_wait # <<>>
          /\ Take(c, Head(tx_wait))
          /\ tx_wait' = Tail(tx_wait)
          /\ Goto(c, "anchor")
    /\ UNCHANGED <<dev, core, skbs, tx_submitted, tx_pending_urbs>>

\* usb_anchor_urb(urb, &tx_submitted): a poisoned anchor poisons the URB.
schedule_anchor(c) ==
    /\ pc[c] = "anchor"
    /\ tx_submitted' = tx_submitted \cup {urb[c]}
    /\ reject' = IF Poisoned THEN reject \cup {urb[c]} ELSE reject
    /\ Goto(c, "submit")
    /\ UNCHANGED <<dev, skbs, tx_wait, hcd, tx_pending_urbs, urb>>

\* usb_submit_urb succeeded: the controller owns the URB and r92su_tx_schedule
\* returns without giving its count back.
schedule_submit_ok(c) ==
    /\ pc[c] = "submit"
    /\ urb[c] \notin reject
    /\ hcd' = hcd \cup {urb[c]}
    /\ Take(c, NoSkb)
    /\ Goto(c, "idle")
    /\ UNCHANGED <<dev, anchors, skbs, reject, tx_pending_urbs>>

\* Mutant: usb_unanchor_urb is forgotten.
MutSubmitErrAnchored(c) ==
    /\ pc[c] = "submit"
    /\ Goto(c, "fail")
    /\ UNCHANGED <<dev, anchors, core, skbs, tx_pending_urbs, urb>>

\* usb_submit_urb failed (for a poisoned URB it always does): the URB leaves
\* the anchor, ...
schedule_submit_err(c) ==
    /\ pc[c] = "submit"
    /\ tx_submitted' = tx_submitted \ {urb[c]}
    /\ Goto(c, "fail")
    /\ UNCHANGED <<dev, core, skbs, tx_wait, tx_pending_urbs, urb>>

\* Mutants: the error path skips err_acc, or does not free the skb.
MutFailKeepsCount(c) ==
    /\ pc[c] = "fail"
    /\ mark_dead
    /\ Free(urb[c])
    /\ Take(c, NoSkb)
    /\ Goto(c, "idle")
    /\ UNCHANGED <<anchors, core, sent, tx_pending_urbs, dpc>>
MutFailLeaks(c) ==
    /\ pc[c] = "fail"
    /\ mark_dead
    /\ Take(c, NoSkb)
    /\ Goto(c, "dec")
    /\ UNCHANGED <<anchors, core, skbs, tx_pending_urbs, dpc>>

\* ... the device is declared dead and the skb is freed.
schedule_fail(c) ==
    /\ pc[c] = "fail"
    /\ mark_dead
    /\ Free(urb[c])
    /\ Take(c, NoSkb)
    /\ Goto(c, "dec")
    /\ UNCHANGED <<anchors, core, sent, tx_pending_urbs, dpc>>

\* err_acc: atomic_dec(&tx_pending_urbs)
schedule_dec(c) ==
    /\ pc[c] = "dec"
    /\ tx_pending_urbs' = tx_pending_urbs - 1
    /\ Goto(c, "idle")
    /\ UNCHANGED <<dev, anchors, core, skbs, urb>>

----------------------------------------------------------------------------
(* r92su_tx_usb_cb *)

\* The USB core gives an URB back: it takes the URB off its anchor and then
\* runs the callback (external; __usb_hcd_giveback_urb).
giveback(c, k) ==
    /\ c \in Completer
    /\ pc[c] = "idle"
    /\ k \in hcd
    /\ hcd' = hcd \ {k}
    /\ tx_submitted' = tx_submitted \ {k}
    /\ Take(c, k)
    /\ Goto(c, "cb_dec")
    /\ UNCHANGED <<dev, skbs, tx_wait, reject, tx_pending_urbs>>

cb_dec(c) ==
    /\ pc[c] = "cb_dec"
    /\ tx_pending_urbs' = tx_pending_urbs - 1
    /\ Goto(c, "cb_free")
    /\ UNCHANGED <<dev, anchors, core, skbs, urb>>

\* Mutants: the callback does not call r92su_tx_schedule, or frees the skb once
\* more after r92su_deal_with_usb_errors did.
MutCbNoSchedule(c) ==
    /\ pc[c] = "cb_free"
    /\ Free(urb[c])
    /\ Take(c, NoSkb)
    /\ Goto(c, "idle") \/ Goto(c, "cb_err")
    /\ UNCHANGED <<dev, anchors, core, sent, tx_pending_urbs>>
MutCbFreesTwice(c) ==
    /\ pc[c] = "cb_free"
    /\ \/ Free(urb[c]) /\ Goto(c, "inc")
       \/ freed' = [freed EXCEPT ![urb[c]] = @ + 2] /\ Goto(c, "cb_err")
    /\ Take(c, NoSkb)
    /\ UNCHANGED <<dev, anchors, core, sent, tx_pending_urbs>>

\* The skb is freed; urb->status decides whether the error handling has work.
cb_free(c) ==
    /\ pc[c] = "cb_free"
    /\ Free(urb[c])
    /\ Take(c, NoSkb)
    /\ \/ Goto(c, "inc")
       \/ Goto(c, "cb_err")
    /\ UNCHANGED <<dev, anchors, core, sent, tx_pending_urbs>>

\* r92su_deal_with_usb_errors: nothing is done for a dead device or while the
\* interface is being unbound ...
deal_with_usb_errors(c) ==
    /\ pc[c] = "cb_err"
    /\ Goto(c, IF state = "DEAD" \/ Unbinding THEN "inc" ELSE "cb_dead")
    /\ UNCHANGED <<dev, anchors, core, skbs, tx_pending_urbs, urb>>

\* ... and every error it knows, or does not know, kills the device.
cb_mark_dead(c) ==
    /\ pc[c] = "cb_dead"
    /\ mark_dead
    /\ Goto(c, "inc")
    /\ UNCHANGED <<anchors, core, skbs, tx_pending_urbs, urb, dpc>>

----------------------------------------------------------------------------
(* r92su_usb_disconnect *)

\* The USB core marks the interface before it calls the driver (external).
unbind ==
    /\ dpc = "bound"
    /\ dpc' = "unregister"
    /\ UNCHANGED <<anchors, core, skbs, ctl, state, tx_pending_urbs>>

\* r92su_unregister, first half: the state refuses new senders ...
unregister ==
    /\ dpc = "unregister"
    /\ state' = "UNLOAD"
    /\ dpc' = "flush"
    /\ UNCHANGED <<anchors, core, skbs, ctl, tx_pending_urbs>>

\* ... second half: wiphy_unregister and destroy_workqueue return when the
\* callers that are already inside have left.
flush ==
    /\ dpc = "flush"
    /\ \A s \in Sender : pc[s] = "idle"
    /\ dpc' = "wait"
    /\ UNCHANGED <<anchors, core, skbs, ctl, state, tx_pending_urbs>>

\* usb_wait_anchor_empty_timeout may run into its timeout, so it guards
\* nothing; usb_poison_anchored_urbs starts by poisoning the anchor, ...
poison_anchor ==
    /\ dpc = "wait"
    /\ dpc' = "poison"
    /\ UNCHANGED <<anchors, core, skbs, ctl, state, tx_pending_urbs>>

\* ... then poisons one anchored URB after the other ...
poison_urb(k) ==
    /\ dpc = "poison"
    /\ k \in tx_submitted \ reject
    /\ reject' = reject \cup {k}
    /\ UNCHANGED <<dev, anchors, skbs, ctl, hcd, tx_pending_urbs>>

\* ... and returns when the anchor is empty and no callback of one of its URBs
\* is running (external; usb_anchor_check_wakeup).
poison_done ==
    /\ dpc = "poison"
    /\ tx_submitted = {}
    /\ \A c \in Completer : pc[c] = "idle"
    /\ dpc' = "drain"
    /\ UNCHANGED <<anchors, core, skbs, ctl, state, tx_pending_urbs>>

\* while ((urb = usb_get_from_anchor(&tx_wait))) kfree_skb(urb->context)
drain ==
    /\ dpc = "drain"
    /\ tx_wait # <<>>
    /\ Free(Head(tx_wait))
    /\ tx_wait' = Tail(tx_wait)
    /\ UNCHANGED <<dev, core, ctl, sent, tx_submitted, tx_pending_urbs>>

\* Mutant: the device is freed without draining tx_wait.
MutFreeUndrained ==
    /\ dpc = "drain"
    /\ dpc' = "gone"
    /\ UNCHANGED <<anchors, core, skbs, ctl, state, tx_pending_urbs>>

\* r92su_free
free_device ==
    /\ dpc = "drain"
    /\ tx_wait = <<>>
    /\ dpc' = "gone"
    /\ UNCHANGED <<anchors, core, skbs, ctl, state, tx_pending_urbs>>

----------------------------------------------------------------------------

Send(s) ==
    \/ \E k \in Skb : usb_tx_refused(s, k) \/ usb_tx_accepted(s, k)
    \/ usb_tx_anchor(s)

tx_schedule(c) ==
    \/ schedule_inc(c)
    \/ schedule_get(c)
    \/ schedule_anchor(c)
    \/ schedule_submit_ok(c)
    \/ schedule_submit_err(c)
    \/ schedule_fail(c)
    \/ schedule_dec(c)

tx_usb_cb(c) ==
    \/ cb_dec(c)
    \/ cb_free(c)
    \/ deal_with_usb_errors(c)
    \/ cb_mark_dead(c)

usb_disconnect ==
    \/ unregister
    \/ flush
    \/ poison_anchor
    \/ \E k \in Skb : poison_urb(k)
    \/ poison_done
    \/ drain
    \/ free_device

Next ==
    \/ \E s \in Sender : Send(s)
    \/ \E c \in Ctx : tx_schedule(c)
    \/ \E c \in Completer : tx_usb_cb(c) \/ \E k \in Skb : giveback(c, k)
    \/ unbind
    \/ usb_disconnect
    \/ dpc = "gone" /\ UNCHANGED vars   \* the driver is unbound for good

Spec == Init /\ [][Next]_vars

\* A context that is inside the driver runs on: nothing in this path sleeps.
\* The controller gives every URB back, and a disconnect that the USB core
\* started is carried through.  Nobody is obliged to send or to unplug.
Fairness ==
    /\ \A s \in Sender : WF_vars(usb_tx_anchor(s))
    /\ \A c \in Ctx : WF_vars(tx_schedule(c))
    /\ \A c \in Completer : WF_vars(tx_usb_cb(c))
    /\ \A k \in Skb : WF_vars(\E c \in Completer : giveback(c, k))
    /\ WF_vars(usb_disconnect)

FairSpec == Spec /\ Fairness

----------------------------------------------------------------------------
(* Properties *)

\* Anchors, the controller and the contexts hold skbs of the driver and nothing
\* else: no context uses an URB that usb_get_from_anchor did not give it.
TypeOK ==
    /\ state \in State /\ dpc \in DisconnectPC
    /\ tx_wait \in Seq(Skb) /\ tx_submitted \subseteq Skb
    /\ reject \subseteq Skb /\ hcd \subseteq Skb
    /\ tx_pending_urbs \in Int
    /\ sent \subseteq Skb /\ freed \in [Skb -> Nat]
    /\ pc \in [Ctx -> PC] /\ urb \in [Ctx -> Skb \cup {NoSkb}]

\* Contexts that have counted themselves and not yet uncounted, and among them
\* those that may still hand an URB to the controller.
Counted == {c \in Ctx : pc[c] \in {"get", "anchor", "submit", "fail", "dec", "cb_dec"}}
Granted == {c \in Ctx : pc[c] \in {"get", "anchor", "submit"}}

\* tx_pending_urbs counts exactly the URBs the controller owns and the contexts
\* between their atomic_inc and the matching atomic_dec, on every path through
\* r92su_tx_schedule and r92su_tx_usb_cb: the counter cannot drift.
PendingExact == tx_pending_urbs = Cardinality(hcd) + Cardinality(Counted)

\* However many contexts race through r92su_tx_schedule, the controller never
\* owns more than RTL_USB_MAX_TX_URBS_NUM of the driver's URBs.
InFlightBound == Cardinality(hcd) + Cardinality(Granted) <= MaxTx

\* No lost wakeup: while the device works, an URB waits on tx_wait only if some
\* URB or context will run r92su_tx_schedule again.  This needs the contexts
\* that can be in the path at once to be no more than the URB limit: otherwise
\* contexts that overshoot the limit can send each other away.
Rescheduler(c) == pc[c] \in {"inc", "get", "anchor", "submit", "fail"} \cup CbPC
NoLostWakeup ==
    Cardinality(Ctx) <= MaxTx /\ tx_wait # <<>> /\ state = "PROBE"
        => hcd # {} \/ \E c \in Ctx : Rescheduler(c)

\* Where an skb can be while the driver is responsible for it.
In(k, q)     == \E i \in DOMAIN q : q[i] = k
NoRepeats(q) == \A i, j \in DOMAIN q : q[i] = q[j] => i = j
InHands(k)   == \E c \in Ctx : urb[c] = k

\* Every skb handed to r92su_usb_tx is, at any time, in exactly one place:
\* waiting, in the hands of one context, owned by the controller, or freed,
\* once.  No path frees it twice, loses it or lets two contexts use it.
ExactlyOnePlace ==
    /\ NoRepeats(tx_wait)
    /\ \A k \in Skb :
        /\ freed[k] \in {0, 1}
        /\ k \in hcd => k \in tx_submitted /\ ~In(k, tx_wait) /\ ~InHands(k)
        /\ In(k, tx_wait) => ~InHands(k)
        /\ \A c, d \in Ctx : urb[c] = k /\ urb[d] = k => c = d
        /\ freed[k] = 1 => k \in sent
        /\ (freed[k] = 0 /\ k \in sent) <=> (In(k, tx_wait) \/ InHands(k) \/ k \in hcd)

\* When r92su_usb_disconnect frees the device, nothing is left behind: every
\* skb is freed, the counter is back at zero and the controller owns nothing.
NothingLeftBehind ==
    dpc = "gone" =>
        /\ \A k \in sent : freed[k] = 1
        /\ hcd = {} /\ tx_submitted = {} /\ tx_pending_urbs = 0

\* After r92su_free no sender and no completion callback runs driver code.
NoUseAfterFree == [][dpc # "gone"]_vars

\* An skb the driver accepted is freed in the end - because it was sent - as
\* long as the device neither dies nor goes away, given few enough contexts.
EverySkbLeaves ==
    \A k \in Skb : k \in sent ~> (freed[k] = 1 \/ state # "PROBE")

\* A disconnect completes: neither the wait for senders nor the poisoning can
\* wait for somebody who waits for the disconnect.
DisconnectCompletes == (dpc = "unregister") ~> (dpc = "gone")

----------------------------------------------------------------------------
(* The inductive invariant *)

\* A context holds an URB exactly in the statements that use one, and runs
\* only the statements of its kind.
Holding == {"anchor_wait", "anchor", "submit", "fail", "cb_dec", "cb_free"}
ControlInv ==
    /\ \A c \in Ctx : urb[c] \in Skb <=> pc[c] \in Holding
    /\ \A s \in Sender : pc[s] \notin CbPC
    /\ \A c \in Completer : pc[c] # "anchor_wait"

\* tx_submitted holds the controller's URBs and those about to be submitted.
AnchorInv ==
    tx_submitted = hcd \cup {k \in Skb : \E c \in Ctx : urb[c] = k /\ pc[c] = "submit"}

\* What the waits of the disconnect have established stays established.
DisconnectInv ==
    /\ dpc \in {"wait", "poison", "drain", "gone"} => \A s \in Sender : pc[s] = "idle"
    /\ dpc \in {"drain", "gone"} =>
           tx_submitted = {} /\ \A c \in Completer : pc[c] = "idle"
    /\ dpc = "gone" => tx_wait = <<>>

\* TypeOK, ExactlyOnePlace, PendingExact, InFlightBound and NoLostWakeup are
\* inductive only together with how contexts, anchors and the disconnect relate.
Inductive ==
    /\ TypeOK /\ ControlInv /\ AnchorInv /\ DisconnectInv
    /\ ExactlyOnePlace /\ PendingExact /\ InFlightBound /\ NoLostWakeup

----------------------------------------------------------------------------
(* Refinement *)

\* The stage of an skb's life in the abstract pipe; an skb freed twice would
\* have none.
InCallback(k) == \E c \in Ctx : urb[c] = k /\ pc[c] \in {"cb_dec", "cb_free"}
PhaseOf(k) ==
    IF freed[k] > 1 THEN "freed twice"
    ELSE IF freed[k] = 1 THEN "freed"
    ELSE IF k \in hcd THEN "busy"
    ELSE IF InCallback(k) THEN "sent"
    ELSE IF k \in sent THEN "queued"
    ELSE "new"

Pipe == INSTANCE TxPipe WITH Buffer <- Skb, Limit <- MaxTx,
                             phase <- [k \in Skb |-> PhaseOf(k)]

\* The lock-free path of usb.c implements the abstract pipe: buffers only move
\* forward through their life, and only MaxTx are with the controller at once.
ImplementsPipe == Pipe!Spec
=============================================================================
