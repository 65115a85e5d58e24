-------------------------- MODULE LifecycleProofs --------------------------
(***************************************************************************)
(* Proofs about Lifecycle, for any number of RX URBs.  Three things are    *)
(* followed through the life of a device: where the RX URBs are and what   *)
(* became of their buffers, what ndo_open and ndo_stop may assume of the   *)
(* interface, and when the state may be believed.                          *)
(***************************************************************************)
EXTENDS Lifecycle, TLAPS

\* The anchor holds what the controller has and what is about to be submitted;
\* a buffer lives exactly as long as its URB is in use; after the set-up no URB
\* is missing, and after the poisoning none is left.
RxInv ==
    /\ rx_submitted = {u \in Urb : urb[u] \in {"hcd", "cb_submit"}}
    /\ \A u \in Urb :
        /\ urb[u] = "none" => buf[u] = "none"
        /\ urb[u] \in {"hcd"} \cup Callback => buf[u] = "live"
        /\ urb[u] = "lost" => buf[u] \in {"freed", "freed_as_skb"}
        /\ buf[u] = "freed_as_skb" => dpc \in {"fail", "failed"}
        /\ dpc = "probe" => urb[u] = "none"
        /\ dpc \notin {"probe", "usb_init", "fail", "failed"} => urb[u] # "none"
        /\ dpc \in {"free", "gone"} => urb[u] = "lost"

\* An URB is given up only by a device that is dead - or was, before its state
\* was overwritten - or that is being removed.
GivenUpInv ==
    /\ state = "UNLOAD" => dpc \in {"failed", "wait", "poison", "free", "gone"}
    /\ dpc \in {"usb_init", "setup", "register", "registered", "bound"}
       /\ IsProbing /\ ~revived
         => \A u \in Urb : urb[u] \notin {"cb_free", "lost"}

\* Where open and stop can be in the life of the device, and what the flag
\* IFF_UP, the firmware image and the state are there.
InterfaceInv ==
    /\ upc \in OpenPC => ~up /\ fw # "none"
    /\ upc \in OpenPC \ {"open_lock"} => dpc \in {"bound", "unregister"}
    /\ upc = "open_lock" => dpc \in {"registered", "bound", "unregister", "fail"}
    /\ upc \in StopPC => up
    /\ upc = "stop_cancel" => state # "OPEN"
    /\ state = "STOP" => dpc \in {"bound", "unregister"}
    /\ up => dpc \in {"bound", "unregister"} /\ fw # "none"
    /\ up /\ upc = "idle" => state \in {"OPEN", "DEAD"}
    /\ state = "OPEN" => up

\* The parts together: none of them is preserved without the others.
Inductive == TypeOK /\ RxInv /\ GivenUpInv /\ InterfaceInv

-----------------------------------------------------------------------------

\* A device that has just been allocated.
LEMMA InductiveInit == Init => Inductive
  BY DEF Init, Inductive, TypeOK, RxInv, GivenUpInv, InterfaceInv, State, IsProbing,
         ProbePC, RemovePC, OpenPC, StopPC, UrbPlace, Callback

\* No step of the probe, the callbacks, the interface or the disconnect leaves
\* the types.
LEMMA TypeNext == TypeOK /\ [Next]_vars => TypeOK'
<1> SUFFICES ASSUME TypeOK, [Next]_vars PROVE TypeOK'
  OBVIOUS
<1> USE DEF TypeOK, rx, net, State, ProbePC, RemovePC, OpenPC, StopPC, UrbPlace, Callback,
            mark_dead, set_state, At
<1>1. ASSUME probe PROVE TypeOK'
  BY <1>1 DEF probe
<1>2. ASSUME NEW u \in Urb, usb_init(u) PROVE TypeOK'
  BY <1>2 DEF usb_init
<1>3. ASSUME usb_init_nomem PROVE TypeOK'
  BY <1>3 DEF usb_init_nomem
<1>4. ASSUME NEW u \in Urb, usb_init_err(u) PROVE TypeOK'
  BY <1>4 DEF usb_init_err
<1>5. ASSUME usb_init_done PROVE TypeOK'
  BY <1>5 DEF usb_init_done
<1>6. ASSUME setup PROVE TypeOK'
  BY <1>6 DEF setup
<1>7. ASSUME register PROVE TypeOK'
  BY <1>7 DEF register
<1>8. ASSUME register_done PROVE TypeOK'
  BY <1>8 DEF register_done
<1>9. ASSUME probe_fail PROVE TypeOK'
  BY <1>9 DEF probe_fail
<1>10. ASSUME NEW u \in Urb, giveback(u) PROVE TypeOK'
  BY <1>10 DEF giveback
<1>11. ASSUME NEW u \in Urb, cb_status(u) PROVE TypeOK'
  BY <1>11 DEF cb_status
<1>12. ASSUME NEW u \in Urb, cb_check(u) PROVE TypeOK'
  BY <1>12 DEF cb_check
<1>13. ASSUME NEW u \in Urb, cb_anchor(u) PROVE TypeOK'
  BY <1>13 DEF cb_anchor
<1>14. ASSUME NEW u \in Urb, cb_submit(u) PROVE TypeOK'
  BY <1>14 DEF cb_submit
<1>15. ASSUME NEW u \in Urb, cb_submit_err(u) PROVE TypeOK'
  BY <1>15 DEF cb_submit_err
<1>16. ASSUME NEW u \in Urb, cb_free(u) PROVE TypeOK'
  BY <1>16 DEF cb_free
<1>17. ASSUME open PROVE TypeOK'
  BY <1>17 DEF open
<1>18. ASSUME open_lock PROVE TypeOK'
  BY <1>18 DEF open_lock
<1>19. ASSUME open_upload PROVE TypeOK'
  BY <1>19 DEF open_upload
<1>20. ASSUME open_check PROVE TypeOK'
  BY <1>20 DEF open_check
<1>21. ASSUME open_set PROVE TypeOK'
  BY <1>21 DEF open_set
<1>22. ASSUME stop PROVE TypeOK'
  BY <1>22 DEF stop
<1>23. ASSUME stop_test PROVE TypeOK'
  BY <1>23 DEF stop_test
<1>24. ASSUME stop_set PROVE TypeOK'
  BY <1>24 DEF stop_set
<1>25. ASSUME stop_cancel PROVE TypeOK'
  BY <1>25 DEF stop_cancel
<1>26. ASSUME unbind PROVE TypeOK'
  BY <1>26 DEF unbind
<1>27. ASSUME unregister PROVE TypeOK'
  BY <1>27 DEF unregister
<1>28. ASSUME poison_anchor PROVE TypeOK'
  BY <1>28 DEF poison_anchor
<1>29. ASSUME NEW u \in Urb, poison_urb(u) PROVE TypeOK'
  BY <1>29 DEF poison_urb
<1>30. ASSUME poison_done PROVE TypeOK'
  BY <1>30 DEF poison_done
<1>31. ASSUME free_device PROVE TypeOK'
  BY <1>31 DEF free_device
<1>32. CASE UNCHANGED vars
  BY <1>32 DEF vars
<1> QED
  BY <1>1, <1>2, <1>3, <1>4, <1>5, <1>6, <1>7, <1>8, <1>9, <1>10, <1>11, <1>12,
     <1>13, <1>14, <1>15, <1>16, <1>17, <1>18, <1>19, <1>20, <1>21, <1>22, <1>23,
     <1>24, <1>25, <1>26, <1>27, <1>28, <1>29, <1>30, <1>31, <1>32
  DEF Next, usb_probe, rx_usb_cb, OpenOrStop, usb_disconnect

\* The anchor, the buffers and the places of the RX URBs keep agreeing; the
\* poisoning leaves the URBs nowhere to be but lost.
LEMMA RxNext == TypeOK /\ RxInv /\ [Next]_vars => RxInv'
<1> SUFFICES ASSUME TypeOK, RxInv, [Next]_vars PROVE RxInv'
  OBVIOUS
<1> USE DEF TypeOK, rx, net, State, ProbePC, RemovePC, OpenPC, StopPC, UrbPlace, Callback,
            mark_dead, set_state, At, RxInv, Poisoned
<1>1. ASSUME probe PROVE RxInv'
  BY <1>1 DEF probe
<1>2. ASSUME NEW u \in Urb, usb_init(u) PROVE RxInv'
  BY <1>2 DEF usb_init
<1>3. ASSUME usb_init_nomem PROVE RxInv'
  BY <1>3 DEF usb_init_nomem
<1>4. ASSUME NEW u \in Urb, usb_init_err(u) PROVE RxInv'
  BY <1>4 DEF usb_init_err
<1>5. ASSUME usb_init_done PROVE RxInv'
  BY <1>5 DEF usb_init_done
<1>6. ASSUME setup PROVE RxInv'
  BY <1>6 DEF setup
<1>7. ASSUME register PROVE RxInv'
  BY <1>7 DEF register
<1>8. ASSUME register_done PROVE RxInv'
  BY <1>8 DEF register_done
<1>9. ASSUME probe_fail PROVE RxInv'
  BY <1>9 DEF probe_fail
<1>10. ASSUME NEW u \in Urb, giveback(u) PROVE RxInv'
  BY <1>10 DEF giveback
<1>11. ASSUME NEW u \in Urb, cb_status(u) PROVE RxInv'
  BY <1>11 DEF cb_status
<1>12. ASSUME NEW u \in Urb, cb_check(u) PROVE RxInv'
  BY <1>12 DEF cb_check
<1>13. ASSUME NEW u \in Urb, cb_anchor(u) PROVE RxInv'
  BY <1>13 DEF cb_anchor
<1>14. ASSUME NEW u \in Urb, cb_submit(u) PROVE RxInv'
  BY <1>14 DEF cb_submit
<1>15. ASSUME NEW u \in Urb, cb_submit_err(u) PROVE RxInv'
  BY <1>15 DEF cb_submit_err
<1>16. ASSUME NEW u \in Urb, cb_free(u) PROVE RxInv'
  BY <1>16 DEF cb_free
<1>17. ASSUME open PROVE RxInv'
  BY <1>17 DEF open
<1>18. ASSUME open_lock PROVE RxInv'
  BY <1>18 DEF open_lock
<1>19. ASSUME open_upload PROVE RxInv'
  BY <1>19 DEF open_upload
<1>20. ASSUME open_check PROVE RxInv'
  BY <1>20 DEF open_check
<1>21. ASSUME open_set PROVE RxInv'
  BY <1>21 DEF open_set
<1>22. ASSUME stop PROVE RxInv'
  BY <1>22 DEF stop
<1>23. ASSUME stop_test PROVE RxInv'
  BY <1>23 DEF stop_test
<1>24. ASSUME stop_set PROVE RxInv'
  BY <1>24 DEF stop_set
<1>25. ASSUME stop_cancel PROVE RxInv'
  BY <1>25 DEF stop_cancel
<1>26. ASSUME unbind PROVE RxInv'
  BY <1>26 DEF unbind
<1>27. ASSUME unregister PROVE RxInv'
  BY <1>27 DEF unregister
<1>28. ASSUME poison_anchor PROVE RxInv'
  BY <1>28 DEF poison_anchor
<1>29. ASSUME NEW u \in Urb, poison_urb(u) PROVE RxInv'
  BY <1>29 DEF poison_urb
<1>30. ASSUME poison_done PROVE RxInv'
  BY <1>30 DEF poison_done
<1>31. ASSUME free_device PROVE RxInv'
  BY <1>31 DEF free_device
<1>32. CASE UNCHANGED vars
  BY <1>32 DEF vars
<1> QED
  BY <1>1, <1>2, <1>3, <1>4, <1>5, <1>6, <1>7, <1>8, <1>9, <1>10, <1>11, <1>12,
     <1>13, <1>14, <1>15, <1>16, <1>17, <1>18, <1>19, <1>20, <1>21, <1>22, <1>23,
     <1>24, <1>25, <1>26, <1>27, <1>28, <1>29, <1>30, <1>31, <1>32
  DEF Next, usb_probe, rx_usb_cb, OpenOrStop, usb_disconnect

\* A callback gives an URB up only in a dead or departing device.
LEMMA GivenUpNext == TypeOK /\ RxInv /\ GivenUpInv /\ [Next]_vars => GivenUpInv'
<1> SUFFICES ASSUME TypeOK, RxInv, GivenUpInv, [Next]_vars PROVE GivenUpInv'
  OBVIOUS
<1> USE DEF TypeOK, rx, net, State, ProbePC, RemovePC, OpenPC, StopPC, UrbPlace, Callback,
            mark_dead, set_state, At, RxInv, GivenUpInv, IsProbing,
            Unbinding
<1>1. ASSUME probe PROVE GivenUpInv'
  BY <1>1 DEF probe
<1>2. ASSUME NEW u \in Urb, usb_init(u) PROVE GivenUpInv'
  BY <1>2 DEF usb_init
<1>3. ASSUME usb_init_nomem PROVE GivenUpInv'
  BY <1>3 DEF usb_init_nomem
<1>4. ASSUME NEW u \in Urb, usb_init_err(u) PROVE GivenUpInv'
  BY <1>4 DEF usb_init_err
<1>5. ASSUME usb_init_done PROVE GivenUpInv'
  BY <1>5 DEF usb_init_done
<1>6. ASSUME setup PROVE GivenUpInv'
  BY <1>6 DEF setup
<1>7. ASSUME register PROVE GivenUpInv'
  BY <1>7 DEF register
<1>8. ASSUME register_done PROVE GivenUpInv'
  BY <1>8 DEF register_done
<1>9. ASSUME probe_fail PROVE GivenUpInv'
  BY <1>9 DEF probe_fail
<1>10. ASSUME NEW u \in Urb, giveback(u) PROVE GivenUpInv'
  BY <1>10 DEF giveback
<1>11. ASSUME NEW u \in Urb, cb_status(u) PROVE GivenUpInv'
  BY <1>11 DEF cb_status
<1>12. ASSUME NEW u \in Urb, cb_check(u) PROVE GivenUpInv'
  BY <1>12 DEF cb_check
<1>13. ASSUME NEW u \in Urb, cb_anchor(u) PROVE GivenUpInv'
  BY <1>13 DEF cb_anchor
<1>14. ASSUME NEW u \in Urb, cb_submit(u) PROVE GivenUpInv'
  BY <1>14 DEF cb_submit
<1>15. ASSUME NEW u \in Urb, cb_submit_err(u) PROVE GivenUpInv'
  BY <1>15 DEF cb_submit_err
<1>16. ASSUME NEW u \in Urb, cb_free(u) PROVE GivenUpInv'
  BY <1>16 DEF cb_free
<1>17. ASSUME open PROVE GivenUpInv'
  BY <1>17 DEF open
<1>18. ASSUME open_lock PROVE GivenUpInv'
  BY <1>18 DEF open_lock
<1>19. ASSUME open_upload PROVE GivenUpInv'
  BY <1>19 DEF open_upload
<1>20. ASSUME open_check PROVE GivenUpInv'
  BY <1>20 DEF open_check
<1>21. ASSUME open_set PROVE GivenUpInv'
  BY <1>21 DEF open_set
<1>22. ASSUME stop PROVE GivenUpInv'
  BY <1>22 DEF stop
<1>23. ASSUME stop_test PROVE GivenUpInv'
  BY <1>23 DEF stop_test
<1>24. ASSUME stop_set PROVE GivenUpInv'
  BY <1>24 DEF stop_set
<1>25. ASSUME stop_cancel PROVE GivenUpInv'
  BY <1>25 DEF stop_cancel
<1>26. ASSUME unbind PROVE GivenUpInv'
  BY <1>26 DEF unbind
<1>27. ASSUME unregister PROVE GivenUpInv'
  BY <1>27 DEF unregister
<1>28. ASSUME poison_anchor PROVE GivenUpInv'
  BY <1>28 DEF poison_anchor
<1>29. ASSUME NEW u \in Urb, poison_urb(u) PROVE GivenUpInv'
  BY <1>29 DEF poison_urb
<1>30. ASSUME poison_done PROVE GivenUpInv'
  BY <1>30 DEF poison_done
<1>31. ASSUME free_device PROVE GivenUpInv'
  BY <1>31 DEF free_device
<1>32. CASE UNCHANGED vars
  BY <1>32 DEF vars
<1> QED
  BY <1>1, <1>2, <1>3, <1>4, <1>5, <1>6, <1>7, <1>8, <1>9, <1>10, <1>11, <1>12,
     <1>13, <1>14, <1>15, <1>16, <1>17, <1>18, <1>19, <1>20, <1>21, <1>22, <1>23,
     <1>24, <1>25, <1>26, <1>27, <1>28, <1>29, <1>30, <1>31, <1>32
  DEF Next, usb_probe, rx_usb_cb, OpenOrStop, usb_disconnect

\* Open and stop leave IFF_UP and the state together.
LEMMA InterfaceNext == TypeOK /\ InterfaceInv /\ [Next]_vars => InterfaceInv'
<1> SUFFICES ASSUME TypeOK, InterfaceInv, [Next]_vars PROVE InterfaceInv'
  OBVIOUS
<1> USE DEF TypeOK, rx, net, State, ProbePC, RemovePC, OpenPC, StopPC, UrbPlace, Callback,
            mark_dead, set_state, At, InterfaceInv, Registered
<1>1. ASSUME probe PROVE InterfaceInv'
  BY <1>1 DEF probe
<1>2. ASSUME NEW u \in Urb, usb_init(u) PROVE InterfaceInv'
  BY <1>2 DEF usb_init
<1>3. ASSUME usb_init_nomem PROVE InterfaceInv'
  BY <1>3 DEF usb_init_nomem
<1>4. ASSUME NEW u \in Urb, usb_init_err(u) PROVE InterfaceInv'
  BY <1>4 DEF usb_init_err
<1>5. ASSUME usb_init_done PROVE InterfaceInv'
  BY <1>5 DEF usb_init_done
<1>6. ASSUME setup PROVE InterfaceInv'
  BY <1>6 DEF setup
<1>7. ASSUME register PROVE InterfaceInv'
  BY <1>7 DEF register
<1>8. ASSUME register_done PROVE InterfaceInv'
  BY <1>8 DEF register_done
<1>9. ASSUME probe_fail PROVE InterfaceInv'
  BY <1>9 DEF probe_fail
<1>10. ASSUME NEW u \in Urb, giveback(u) PROVE InterfaceInv'
  BY <1>10 DEF giveback
<1>11. ASSUME NEW u \in Urb, cb_status(u) PROVE InterfaceInv'
  BY <1>11 DEF cb_status
<1>12. ASSUME NEW u \in Urb, cb_check(u) PROVE InterfaceInv'
  BY <1>12 DEF cb_check
<1>13. ASSUME NEW u \in Urb, cb_anchor(u) PROVE InterfaceInv'
  BY <1>13 DEF cb_anchor
<1>14. ASSUME NEW u \in Urb, cb_submit(u) PROVE InterfaceInv'
  BY <1>14 DEF cb_submit
<1>15. ASSUME NEW u \in Urb, cb_submit_err(u) PROVE InterfaceInv'
  BY <1>15 DEF cb_submit_err
<1>16. ASSUME NEW u \in Urb, cb_free(u) PROVE InterfaceInv'
  BY <1>16 DEF cb_free
<1>17. ASSUME open PROVE InterfaceInv'
  BY <1>17 DEF open
<1>18. ASSUME open_lock PROVE InterfaceInv'
  BY <1>18 DEF open_lock
<1>19. ASSUME open_upload PROVE InterfaceInv'
  BY <1>19 DEF open_upload
<1>20. ASSUME open_check PROVE InterfaceInv'
  BY <1>20 DEF open_check
<1>21. ASSUME open_set PROVE InterfaceInv'
  BY <1>21 DEF open_set
<1>22. ASSUME stop PROVE InterfaceInv'
  BY <1>22 DEF stop
<1>23. ASSUME stop_test PROVE InterfaceInv'
  BY <1>23 DEF stop_test
<1>24. ASSUME stop_set PROVE InterfaceInv'
  BY <1>24 DEF stop_set
<1>25. ASSUME stop_cancel PROVE InterfaceInv'
  BY <1>25 DEF stop_cancel
<1>26. ASSUME unbind PROVE InterfaceInv'
  BY <1>26 DEF unbind
<1>27. ASSUME unregister PROVE InterfaceInv'
  BY <1>27 DEF unregister
<1>28. ASSUME poison_anchor PROVE InterfaceInv'
  BY <1>28 DEF poison_anchor
<1>29. ASSUME NEW u \in Urb, poison_urb(u) PROVE InterfaceInv'
  BY <1>29 DEF poison_urb
<1>30. ASSUME poison_done PROVE InterfaceInv'
  BY <1>30 DEF poison_done
<1>31. ASSUME free_device PROVE InterfaceInv'
  BY <1>31 DEF free_device
<1>32. CASE UNCHANGED vars
  BY <1>32 DEF vars
<1> QED
  BY <1>1, <1>2, <1>3, <1>4, <1>5, <1>6, <1>7, <1>8, <1>9, <1>10, <1>11, <1>12,
     <1>13, <1>14, <1>15, <1>16, <1>17, <1>18, <1>19, <1>20, <1>21, <1>22, <1>23,
     <1>24, <1>25, <1>26, <1>27, <1>28, <1>29, <1>30, <1>31, <1>32
  DEF Next, usb_probe, rx_usb_cb, OpenOrStop, usb_disconnect

-----------------------------------------------------------------------------

\* The invariant holds throughout.
THEOREM InductiveHolds == Spec => []Inductive
<1>1. Inductive /\ [Next]_vars => Inductive'
  BY TypeNext, RxNext, GivenUpNext, InterfaceNext DEF Inductive
<1> QED BY InductiveInit, <1>1, PTL DEF Spec

\* While a bound device says it works and no death was overwritten, every RX
\* URB is with the controller or in a callback of r92su_rx_usb_cb that submits
\* it again: receiving does not dry up.
THEOREM WorkingDeviceReceives == Spec => []RxAlive
<1>1. Inductive => RxAlive
  BY DEF Inductive, RxInv, GivenUpInv, RxAlive
<1> QED BY InductiveHolds, <1>1, PTL

\* r92su_usb_disconnect frees the device only when every RX URB is out of the
\* controller's and the callback's hands and every buffer is freed, once.
THEOREM NothingReceivedAfterFree == Spec => []NoRxAfterFree
<1>1. Inductive => NoRxAfterFree
  BY DEF Inductive, TypeOK, RxInv, NoRxAfterFree
<1> QED BY InductiveHolds, <1>1, PTL

\* r92su_open, r92su_stop, the registration and the unregistration leave IFF_UP
\* and r92su->state together, whatever the callbacks do to the state meanwhile.
THEOREM UpIsOpen == Spec => []UpMeansOpen
<1>1. Inductive => UpMeansOpen
  BY DEF Inductive, InterfaceInv, UpMeansOpen
<1> QED BY InductiveHolds, <1>1, PTL
=============================================================================
