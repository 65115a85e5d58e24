----------------------------- MODULE Lifecycle -----------------------------
(***************************************************************************)
(* The life of an r92su device: the USB probe and disconnect (r92su/usb.c),*)
(* the set-up, registration and removal (r92su/main.c), ndo_open with the  *)
(* firmware image (r92su/fw.c) and ndo_stop, and the RX URBs that circle   *)
(* between the host controller and r92su_rx_usb_cb all the while.          *)
(*                                                                         *)
(* r92su->state is read and written without any lock; a test of it and the *)
(* assignment that follows are steps of their own wherever a death can     *)
(* come in between.  The RTNL orders open, stop and the (un)registration.  *)
(* OPEN stands for OPEN and CONNECTED, which nothing here tells apart.     *)
(***************************************************************************)
EXTENDS Naturals, FiniteSets

CONSTANT Urb   \* the RX URBs, RTL_USB_MAX_RX_URBS_NUM of them

ASSUME LifecycleAssumption == IsFiniteSet(Urb) /\ Urb # {}

VARIABLES
    state,         \* r92su->state
    dpc,           \* statement of the probe or the disconnect
    upc,           \* statement of ndo_open or ndo_stop
    up,            \* IFF_UP
    fw,            \* r92su->fw: no image, one that parsed, one that did not
    urb,           \* [Urb -> where the RX URB is]
    rx_submitted,  \* the anchor
    reject,        \* URBs usb_submit_urb refuses
    buf,           \* [Urb -> its buffer]
    revived        \* a death was overwritten by a later state (history)

rx   == <<urb, rx_submitted, reject, buf>>
net  == <<upc, up, fw>>
vars == <<state, dpc, net, rx, revived>>

State == {"DEAD", "UNLOAD", "PROBE", "STOP", "OPEN"}
IsProbing == state \in {"PROBE", "STOP", "OPEN"}

\* r92su_mark_dead
mark_dead == state' = "DEAD" /\ UNCHANGED revived

\* r92su_set_state, as the code that does not expect a death calls it.
set_state(s) ==
    /\ state' = s
    /\ revived' = (revived \/ (state = "DEAD" /\ s # "UNLOAD"))

ProbePC   == {"probe", "usb_init", "setup", "register", "registered", "fail"}
RemovePC  == {"unregister", "wait", "poison", "free"}
Unbinding == dpc \in RemovePC
Poisoned  == dpc \in {"poison", "free", "gone"}

\* Callbacks are in cb_status (urb->status), cb_check (r92su_is_probing),
\* cb_anchor (r92su_rx, usb_anchor_urb), cb_submit and cb_free (err_out).
Callback == {"cb_status", "cb_check", "cb_anchor", "cb_submit", "cb_free"}
UrbPlace == {"none", "hcd", "lost"} \cup Callback
OpenPC   == {"open_lock", "open_upload", "open_check", "open_set"}
StopPC   == {"stop_test", "stop_set", "stop_cancel"}

TypeOK ==
    /\ state \in State
    /\ dpc \in ProbePC \cup RemovePC \cup {"bound", "gone", "failed"}
    /\ upc \in {"idle"} \cup OpenPC \cup StopPC
    /\ up \in BOOLEAN /\ revived \in BOOLEAN
    /\ fw \in {"none", "parsed", "bad"}
    /\ urb \in [Urb -> UrbPlace]
    /\ buf \in [Urb -> {"none", "live", "freed", "freed_as_skb"}]
    /\ rx_submitted \subseteq Urb /\ reject \subseteq Urb

Init ==
    /\ state = "DEAD" /\ dpc = "probe"
    /\ upc = "idle" /\ up = FALSE /\ fw = "none"
    /\ urb = [u \in Urb |-> "none"] /\ buf = [u \in Urb |-> "none"]
    /\ rx_submitted = {} /\ reject = {}
    /\ revived = FALSE

-----------------------------------------------------------------------------
(* r92su_usb_probe.                                                        *)

\* r92su_alloc, the endpoint map, the state and the anchors.
probe ==
    /\ dpc = "probe"
    /\ \/ state' = "PROBE" /\ dpc' = "usb_init"
       \/ state' = state /\ dpc' = "fail"
    /\ UNCHANGED <<net, rx, revived>>

\* r92su_usb_init: the next RX URB is allocated, anchored and submitted.
usb_init(u) ==
    /\ dpc = "usb_init" /\ urb[u] = "none"
    /\ urb' = [urb EXCEPT ![u] = "hcd"]
    /\ buf' = [buf EXCEPT ![u] = "live"]
    /\ rx_submitted' = rx_submitted \cup {u}
    /\ UNCHANGED <<state, dpc, net, reject, revived>>

\* No memory for it ...
usb_init_nomem ==
    /\ dpc = "usb_init" /\ \E u \in Urb : urb[u] = "none"
    /\ dpc' = "fail"
    /\ UNCHANGED <<state, net, rx, revived>>

\* ... or the submission fails: the buffer is freed as if it were an skb.
usb_init_err(u) ==
    /\ dpc = "usb_init" /\ urb[u] = "none"
    /\ urb' = [urb EXCEPT ![u] = "lost"]
    /\ buf' = [buf EXCEPT ![u] = "freed_as_skb"]
    /\ mark_dead
    /\ dpc' = "fail"
    /\ UNCHANGED <<net, rx_submitted, reject>>

usb_init_done ==
    /\ dpc = "usb_init" /\ \A u \in Urb : urb[u] # "none"
    /\ dpc' = "setup"
    /\ UNCHANGED <<state, net, rx, revived>>

\* r92su_setup reads the chip version and the EEPROM and allocates the netdev.
setup ==
    /\ dpc = "setup"
    /\ dpc' \in {"register", "fail"}
    /\ UNCHANGED <<state, net, rx, revived>>

\* Mutant: the state is set as soon as the netdev is there, before debugfs and
\* the WPS button.
MutRegisterEarly ==
    /\ dpc = "register"
    /\ \/ dpc' = "registered" /\ set_state("STOP")
       \/ dpc' = "fail" /\ UNCHANGED <<state, revived>>
    /\ UNCHANGED <<net, rx>>

\* r92su_register up to register_netdev: from here the user can open.
register ==
    /\ dpc = "register"
    /\ dpc' \in {"registered", "fail"}
    /\ UNCHANGED <<state, net, rx, revived>>

\* debugfs and the WPS button, then the state, whatever it has become.
register_done ==
    /\ dpc = "registered"
    /\ \/ set_state("STOP") /\ dpc' = "bound"
       \/ UNCHANGED <<state, revived>> /\ dpc' = "fail"
    /\ UNCHANGED <<net, rx>>

\* err_out: r92su_unregister and r92su_free.  The RX URBs are left alone.
probe_fail ==
    /\ dpc = "fail" /\ upc = "idle" /\ ~up
    /\ set_state("UNLOAD")
    /\ fw' = "none"
    /\ dpc' = "failed"
    /\ UNCHANGED <<upc, up, rx>>

-----------------------------------------------------------------------------
(* r92su_rx_usb_cb.                                                        *)

At(u, label) == urb' = [urb EXCEPT ![u] = label]

\* The USB core takes the URB off its anchor and calls back (external).
giveback(u) ==
    /\ urb[u] = "hcd" /\ dpc # "failed"
    /\ At(u, "cb_status")
    /\ rx_submitted' = rx_submitted \ {u}
    /\ UNCHANGED <<state, dpc, net, reject, buf, revived>>

\* Mutant: a stalled endpoint is not a reason to declare the device dead.
MutCbStatusAlive(u) ==
    /\ urb[u] = "cb_status"
    /\ \/ UNCHANGED <<state, revived>> /\ At(u, "cb_check")
       \/ UNCHANGED <<state, revived>> /\ At(u, "cb_free")
    /\ UNCHANGED <<dpc, net, rx_submitted, reject, buf>>

\* r92su_deal_with_usb_errors: no error, or one that is ignored because the
\* device is dead or being unbound; an error that kills the device and lets
\* the callback go on (the device is gone, protocol errors); one that kills it
\* and ends the callback.
cb_status(u) ==
    /\ urb[u] = "cb_status"
    /\ \/ UNCHANGED <<state, revived>> /\ At(u, "cb_check")
       \/ ~Unbinding /\ state # "DEAD" /\ mark_dead /\ At(u, "cb_check")
       \/ ~Unbinding /\ state # "DEAD" /\ mark_dead /\ At(u, "cb_free")
    /\ UNCHANGED <<dpc, net, rx_submitted, reject, buf>>

cb_check(u) ==
    /\ urb[u] = "cb_check"
    /\ At(u, IF IsProbing THEN "cb_anchor" ELSE "cb_free")
    /\ UNCHANGED <<state, dpc, net, rx_submitted, reject, buf, revived>>

\* Mutant: the URB is submitted without being anchored again.
MutCbUnanchored(u) ==
    /\ urb[u] = "cb_anchor"
    /\ At(u, "cb_submit")
    /\ UNCHANGED <<state, dpc, net, rx_submitted, reject, buf, revived>>

\* r92su_rx, which declares the device dead when what it received makes no
\* sense or the firmware reports its end, and usb_anchor_urb all the same: a
\* poisoned anchor poisons the URB.
cb_anchor(u) ==
    /\ urb[u] = "cb_anchor"
    /\ At(u, "cb_submit")
    /\ rx_submitted' = rx_submitted \cup {u}
    /\ reject' = IF Poisoned THEN reject \cup {u} ELSE reject
    /\ mark_dead \/ UNCHANGED <<state, revived>>
    /\ UNCHANGED <<dpc, net, buf>>

cb_submit(u) ==
    /\ urb[u] = "cb_submit" /\ u \notin reject
    /\ At(u, "hcd")
    /\ UNCHANGED <<state, dpc, net, rx_submitted, reject, buf, revived>>

cb_submit_err(u) ==
    /\ urb[u] = "cb_submit"
    /\ At(u, "cb_free")
    /\ rx_submitted' = rx_submitted \ {u}
    /\ mark_dead
    /\ UNCHANGED <<dpc, net, reject, buf>>

cb_free(u) ==
    /\ urb[u] = "cb_free"
    /\ At(u, "lost")
    /\ buf' = [buf EXCEPT ![u] = "freed"]
    /\ UNCHANGED <<state, dpc, net, rx_submitted, reject, revived>>

-----------------------------------------------------------------------------
(* ndo_open and ndo_stop, under the RTNL; only one of them runs at a time.  *)

Registered == dpc \in {"registered", "bound", "unregister"}

\* r92su_load_firmware: an image that is there is taken for good; a new one
\* may be missing, may fail to parse (and stays) or is parsed.
open ==
    /\ Registered /\ upc = "idle" /\ ~up
    /\ \/ fw # "none" /\ fw' = fw /\ upc' = "open_lock"
       \/ fw = "none" /\ fw' \in {"none", "bad"} /\ upc' = "idle"
       \/ fw = "none" /\ fw' = "parsed" /\ upc' = "open_lock"
    /\ UNCHANGED <<state, dpc, up, rx, revived>>

\* The device must be stopped ...
open_lock ==
    /\ upc = "open_lock"
    /\ upc' = IF state = "STOP" THEN "open_upload" ELSE "idle"
    /\ UNCHANGED <<state, dpc, up, fw, rx, revived>>

\* ... the MAC set-up and the upload may fail ...
open_upload ==
    /\ upc = "open_upload"
    /\ upc' \in {"open_check", "idle"}
    /\ UNCHANGED <<state, dpc, up, fw, rx, revived>>

\* ... and it must be stopped still.
open_check ==
    /\ upc = "open_check"
    /\ upc' = IF state = "STOP" THEN "open_set" ELSE "idle"
    /\ UNCHANGED <<state, dpc, up, fw, rx, revived>>

open_set ==
    /\ upc = "open_set"
    /\ set_state("OPEN")
    /\ upc' = "idle" /\ up' = TRUE
    /\ UNCHANGED <<dpc, fw, rx>>

\* The user takes the interface down, or unregister_netdev does.
stop ==
    /\ up /\ upc = "idle" /\ dpc \in {"bound", "unregister"}
    /\ upc' = "stop_test"
    /\ UNCHANGED <<state, dpc, up, fw, rx, revived>>

\* r92su_is_initializing, after the MAC was told to stop
stop_test ==
    /\ upc = "stop_test"
    /\ upc' = IF state = "OPEN" THEN "stop_set" ELSE "stop_cancel"
    /\ UNCHANGED <<state, dpc, up, fw, rx, revived>>

stop_set ==
    /\ upc = "stop_set"
    /\ set_state("STOP")
    /\ upc' = "stop_cancel"
    /\ UNCHANGED <<dpc, up, fw, rx>>

\* The works are cancelled; whatever r92su_stop returns, the interface is down.
stop_cancel ==
    /\ upc = "stop_cancel"
    /\ upc' = "idle" /\ up' = FALSE
    /\ UNCHANGED <<state, dpc, fw, rx, revived>>

-----------------------------------------------------------------------------
(* r92su_usb_disconnect.                                                   *)

\* The USB core marks the interface and calls the driver (external).
unbind ==
    /\ dpc = "bound"
    /\ dpc' = "unregister"
    /\ UNCHANGED <<state, net, rx, revived>>

\* r92su_unregister: unregister_netdev returns with the interface down.  The
\* firmware image is released.
unregister ==
    /\ dpc = "unregister" /\ upc = "idle" /\ ~up
    /\ set_state("UNLOAD")
    /\ fw' = "none"
    /\ dpc' = "wait"
    /\ UNCHANGED <<upc, up, rx>>

\* The TX anchor (modelled in UsbTx), then usb_poison_anchored_urbs poisons
\* the RX anchor ...
poison_anchor ==
    /\ dpc = "wait"
    /\ dpc' = "poison"
    /\ UNCHANGED <<state, net, rx, revived>>

\* Mutant: the RX URBs are only waited for.
MutPoisonWaits(u) ==
    /\ dpc = "poison" /\ u \in rx_submitted \ reject
    /\ UNCHANGED vars

\* ... and every URB on it: the controller has to give it back ...
poison_urb(u) ==
    /\ dpc = "poison" /\ u \in rx_submitted \ reject
    /\ reject' = reject \cup {u}
    /\ UNCHANGED <<state, dpc, net, urb, rx_submitted, buf, revived>>

\* ... and returns when the anchor is empty and no callback of one of its URBs
\* runs (external; usb_anchor_check_wakeup).  An URB the controller has that is
\* not on the anchor would not be waited for.
poison_done ==
    /\ dpc = "poison" /\ rx_submitted = {}
    /\ \A u \in Urb : urb[u] \notin Callback
    /\ dpc' = "free"
    /\ UNCHANGED <<state, net, rx, revived>>

\* r92su_free
free_device ==
    /\ dpc = "free"
    /\ dpc' = "gone"
    /\ UNCHANGED <<state, net, rx, revived>>

-----------------------------------------------------------------------------

usb_probe ==
    \/ probe
    \/ \E u \in Urb : usb_init(u) \/ usb_init_err(u)
    \/ usb_init_nomem \/ usb_init_done
    \/ setup \/ register \/ register_done
    \/ probe_fail

rx_usb_cb(u) ==
    \/ cb_status(u) \/ cb_check(u) \/ cb_anchor(u)
    \/ cb_submit(u) \/ cb_submit_err(u) \/ cb_free(u)

OpenOrStop ==
    \/ open_lock \/ open_upload \/ open_check \/ open_set
    \/ stop_test \/ stop_set \/ stop_cancel

usb_disconnect ==
    \/ poison_anchor
    \/ \E u \in Urb : poison_urb(u)
    \/ poison_done
    \/ free_device

Next ==
    \/ usb_probe
    \/ \E u \in Urb : giveback(u) \/ rx_usb_cb(u)
    \/ open \/ stop \/ OpenOrStop
    \/ unbind \/ unregister \/ usb_disconnect
    \/ dpc \in {"gone", "failed"} /\ UNCHANGED vars   \* unbound for good

Spec == Init /\ [][Next]_vars

\* What is inside the driver runs on.  The controller gives back an URB that is
\* cancelled; nothing obliges the device to send, so no other one.  The RTNL is
\* a fair mutex: unregister_netdev gets it however often the user opens, and
\* takes the interface down itself.
Fairness ==
    /\ WF_vars(usb_probe) /\ WF_vars(OpenOrStop) /\ WF_vars(usb_disconnect)
    /\ SF_vars(unregister)
    /\ SF_vars(stop /\ dpc = "unregister")
    /\ \A u \in Urb : WF_vars(rx_usb_cb(u)) /\ WF_vars(giveback(u) /\ u \in reject)

FairSpec == Spec /\ Fairness

-----------------------------------------------------------------------------
(* Properties                                                              *)

\* A device that works can receive: while it is bound and its state says so,
\* every RX URB is with the controller or in a callback that submits it again.
\* An URB is given up only after the death is recorded - as long as no death
\* is overwritten by the registration, an open or a stop.
RxAlive ==
    dpc \in {"setup", "register", "registered", "bound"} /\ IsProbing /\ ~revived
        => \A u \in Urb : urb[u] \notin {"none", "cb_free", "lost"}

\* When r92su_usb_disconnect frees the device, no RX URB is left with the
\* controller or in a callback, and every buffer is freed, once.
NoRxAfterFree ==
    dpc = "gone" => \A u \in Urb : urb[u] = "lost" /\ buf[u] = "freed"

\* The interface is never up before the probe is through, and while it is up
\* the state is OPEN unless the device died: r92su_open, r92su_stop, the
\* registration and the unregistration cannot leave the two apart.
UpMeansOpen ==
    /\ TypeOK
    /\ up => dpc \in {"bound", "unregister"} /\ fw # "none"
    /\ up /\ upc = "idle" => state \in {"OPEN", "DEAD"}
    /\ state = "OPEN" => up

\* A disconnect ends: the poisoning neither waits for an URB nobody cancels
\* nor for a callback that keeps submitting its URB.
DisconnectEnds == (dpc = "unregister") ~> (dpc = "gone")
=============================================================================
