------------------------------ MODULE Connect ------------------------------
(***************************************************************************)
(* How r92su joins and leaves a bss (r92su/main.c, r92su/event.c):         *)
(* r92su_connect and r92su_join_ibss look the bss up and send a join       *)
(* command, the firmware's join event parks its result and queues          *)
(* connect_bss_work, the work makes the wanted bss the connected one, and  *)
(* the user, the firmware's del_sta event and r92su_stop take it down.     *)
(*                                                                         *)
(* A section under r92su->lock is one step: the only thing that can happen *)
(* inside it is the death of the device, and a death between the test and  *)
(* the assignment of the state is overwritten by the assignment.  What     *)
(* connect_bss_work does after it gave the lock back is a step of its own, *)
(* and so are the two halves of the join event, which takes no lock.       *)
(* cfg80211 calls one operation at a time.  The references on a bss are    *)
(* the ones the driver took; cfg80211 has its own.                         *)
(***************************************************************************)
EXTENDS Integers, Sequences, SequencesExt, FiniteSets

CONSTANTS
    Bss,         \* the networks in cfg80211's list
    NoBss,       \* NULL
    MaxConnect   \* bound: calls of r92su_connect and r92su_join_ibss

ASSUME ConnectAssumption == NoBss \notin Bss /\ MaxConnect \in Nat \ {0}

VARIABLES
    iftype,           \* wdev.iftype, STATION or ADHOC
    state,            \* r92su->state
    up,               \* the interface: "down", "up" or a statement of r92su_stop
    want_connect_bss,
    connect_bss,
    connect_result,   \* the parked join event; "freed": the pointer dangles
    assoc_ie,         \* [Bss -> bss_priv->assoc_ie]
    refs,             \* [Bss -> references the driver holds]
    carrier,          \* carrier on and queues started
    wq,               \* the items of r92su->wq that are pending
    wpc,              \* statement of the item that runs
    wbss,             \* cfg_bss of a connect_bss_work that left the lock
    tpc,              \* statement of c2h_join_bss_event
    sme,              \* what cfg80211 knows: idle, connecting, connected
    told,             \* the last report of the driver that was about a link
    joining,          \* join commands the firmware did not answer
    links,            \* links the firmware did not report lost
    connects,         \* connects so far
    misused,          \* assoc_ie was freed or read when it was freed already
    unbalanced,       \* a reference was given back that was not taken
    abandoned,        \* the user left while a join was under way
    lost              \* there was no memory for a join event

works  == <<wq, wpc, wbss, tpc>>
bsses  == <<want_connect_bss, connect_bss, assoc_ie, refs>>
kernel == <<sme, told, carrier>>
fw     == <<joining, links>>
user   == <<connects, abandoned>>
ghosts == <<misused, unbalanced, lost>>
vars   == <<iftype, state, up, bsses, connect_result, works, kernel, fw,
            user, ghosts>>

Iftype == {"STATION", "ADHOC"}
State  == {"DEAD", "STOP", "OPEN", "CONNECTED"}
Result == {"joined", "refused"}
Item   == {"connect", "disconnect"}

IsOpen      == state \in {"OPEN", "CONNECTED"}
IsConnected == state = "CONNECTED"

\* r92su_stop holds the lock over two steps.
LockFree == up # "stopping"

TypeOK ==
    /\ iftype \in Iftype /\ state \in State
    /\ up \in {"down", "up", "stopping", "cancel_connect", "cancel_disconnect"}
    /\ want_connect_bss \in Bss \cup {NoBss}
    /\ connect_bss \in Bss \cup {NoBss}
    /\ connect_result \in Result \cup {"none", "freed"}
    /\ assoc_ie \in [Bss -> {"null", "live", "freed"}]
    /\ refs \in [Bss -> Int]
    /\ wq \in Seq(Item)
    /\ wpc \in {"idle", "connect", "out", "start_queues", "disconnect"}
    /\ wbss \in Bss \cup {NoBss}
    /\ tpc \in {"idle", "queue"}
    /\ sme \in {"idle", "connecting", "connected"} /\ told \in {"up", "down"}
    /\ carrier \in BOOLEAN
    /\ joining \in Nat /\ links \in Nat /\ connects \in 0 .. MaxConnect
    /\ misused \in BOOLEAN /\ unbalanced \in BOOLEAN
    /\ abandoned \in BOOLEAN /\ lost \in BOOLEAN

Init ==
    /\ iftype \in Iftype /\ state = "STOP" /\ up = "down"
    /\ want_connect_bss = NoBss /\ connect_bss = NoBss
    /\ connect_result = "none"
    /\ assoc_ie = [b \in Bss |-> "null"] /\ refs = [b \in Bss |-> 0]
    /\ carrier = FALSE /\ sme = "idle" /\ told = "down"
    /\ wq = <<>> /\ wpc = "idle" /\ wbss = NoBss /\ tpc = "idle"
    /\ joining = 0 /\ links = 0 /\ connects = 0
    /\ misused = FALSE /\ unbalanced = FALSE /\ abandoned = FALSE /\ lost = FALSE

-----------------------------------------------------------------------------
(* Helpers.                                                                *)

\* queue_work: a pending item is not queued twice.
Queued(item) == IF Contains(wq, item) THEN wq ELSE Append(wq, item)

\* cancel_work_sync: a pending item is taken back.
Cancelled(item) ==
    IF Contains(wq, item) THEN RemoveAt(wq, CHOOSE i \in 1 .. Len(wq) : wq[i] = item) ELSE wq

\* kfree(bss_priv->assoc_ie), the pointer stays as it is.
Kfreed(ie) == IF ie = "null" THEN "null" ELSE "freed"

Get(b) == refs' = [refs EXCEPT ![b] = @ + 1]

\* r92su_bss_free: the IEs and the reference; keys and station are RxPath's
\* and StaTable's.
bss_free(b) ==
    IF b = NoBss THEN UNCHANGED <<assoc_ie, refs, ghosts>>
    ELSE /\ assoc_ie' = [assoc_ie EXCEPT ![b] = Kfreed(@)]
         /\ misused' = (misused \/ assoc_ie[b] = "freed")
         /\ refs' = [refs EXCEPT ![b] = @ - 1]
         /\ unbalanced' = (unbalanced \/ refs[b] <= 0)
         /\ UNCHANGED lost

\* Mutant: connect_bss goes on naming the bss that was freed.
MutFreeKeepsBss ==
    /\ state' = IF IsConnected THEN "OPEN" ELSE state
    /\ told' = IF connect_bss # NoBss /\ iftype = "STATION" THEN "down" ELSE told
    /\ bss_free(connect_bss)
    /\ UNCHANGED connect_bss

\* r92su_bss_free_connected: cfg80211_disconnected is called only when there
\* was a connected bss.
bss_free_connected ==
    /\ state' = IF IsConnected THEN "OPEN" ELSE state
    /\ told' = IF connect_bss # NoBss /\ iftype = "STATION" THEN "down" ELSE told
    /\ connect_bss' = NoBss
    /\ bss_free(connect_bss)

-----------------------------------------------------------------------------
(* r92su_connect and r92su_join_ibss, after the scan.                      *)

Call ==
    /\ up = "up" /\ sme = "idle" /\ connects < MaxConnect
    /\ connects' = connects + 1
    /\ UNCHANGED <<iftype, state, up, connect_bss, connect_result, works, told,
                   carrier, links, abandoned>>

\* The device is closed by now: err still has the 0 of the scan.  The same
\* happens to r92su_join_ibss when cfg80211 has no memory for a new bss.
connect_nothing ==
    /\ Call
    /\ ~IsOpen \/ iftype = "ADHOC"
    /\ sme' = "connecting"
    /\ UNCHANGED <<want_connect_bss, assoc_ie, refs, ghosts, joining>>

\* There is no such bss, or the entry r92su_join_ibss makes for a new one
\* cannot be finished: its assoc_ie is NULL and the entry goes again.
connect_unknown ==
    /\ Call /\ IsOpen
    /\ want_connect_bss' = NoBss
    /\ UNCHANGED <<assoc_ie, refs, ghosts, joining, sme>>

\* r92su_connect: a command fails before the IEs are copied, and whatever
\* assoc_ie holds is freed.  r92su_join_ibss has no such step for a bss that
\* is cached.
connect_refused(b) ==
    /\ Call /\ IsOpen /\ iftype = "STATION"
    /\ assoc_ie' = [assoc_ie EXCEPT ![b] = Kfreed(@)]
    /\ misused' = (misused \/ assoc_ie[b] = "freed")
    /\ want_connect_bss' = NoBss
    /\ UNCHANGED <<refs, unbalanced, lost, joining, sme>>

\* r92su_internal_connect fails: no memory for the IEs, or the join command
\* cannot be sent.
connect_failed(b) ==
    /\ Call /\ IsOpen
    /\ \E ie \in {"null", "freed"} : assoc_ie' = [assoc_ie EXCEPT ![b] = ie]
    /\ want_connect_bss' = NoBss
    /\ UNCHANGED <<refs, ghosts, joining, sme>>

\* Mutant: the bss is used without cfg80211_get_bss's reference when it is the
\* one that is wanted already.
MutConnectNoGet(b) ==
    /\ Call /\ IsOpen
    /\ IF want_connect_bss = b THEN UNCHANGED refs ELSE Get(b)
    /\ assoc_ie' = [assoc_ie EXCEPT ![b] = "live"]
    /\ want_connect_bss' = b
    /\ joining' = joining + 1
    /\ sme' = "connecting"
    /\ UNCHANGED ghosts

\* The join command is out.
connect(b) ==
    /\ Call /\ IsOpen
    /\ Get(b)
    /\ assoc_ie' = [assoc_ie EXCEPT ![b] = "live"]
    /\ want_connect_bss' = b
    /\ joining' = joining + 1
    /\ sme' = "connecting"
    /\ UNCHANGED ghosts

-----------------------------------------------------------------------------
(* Firmware events, in the rx tasklet.                                     *)

\* Mutant: a result that waits is replaced.
MutJoinReplaces(r) ==
    /\ joining > 0 /\ tpc = "idle" /\ r \in Result
    /\ joining' = joining - 1
    /\ links' = IF r = "joined" THEN links + 1 ELSE links
    /\ connect_result' = r /\ tpc' = "queue"
    /\ UNCHANGED <<iftype, state, up, bsses, wq, wpc, wbss, kernel, user, ghosts>>

\* c2h_join_bss_event parks the result, unless one is parked; kmemdup may fail.
join_bss_event(r) ==
    /\ joining > 0 /\ tpc = "idle" /\ r \in Result
    /\ joining' = joining - 1
    /\ links' = IF r = "joined" THEN links + 1 ELSE links
    /\ \/ /\ connect_result # "none"
          /\ UNCHANGED <<connect_result, tpc, lost>>
       \/ /\ connect_result = "none"
          /\ connect_result' \in {r, "none"} /\ tpc' = "queue"
          /\ lost' = (lost \/ connect_result' = "none")
    /\ UNCHANGED <<iftype, state, up, bsses, wq, wpc, wbss, kernel, user, misused,
                   unbalanced>>

join_bss_queue ==
    /\ tpc = "queue"
    /\ wq' = Queued("connect") /\ tpc' = "idle"
    /\ UNCHANGED <<iftype, state, up, bsses, connect_result, wpc, wbss, kernel,
                   fw, user, ghosts>>

\* Mutant: a running work is taken for a pending one.
MutDelStaBusy ==
    /\ links > 0
    /\ links' = links - 1
    /\ IF iftype = "STATION"
       THEN carrier' = FALSE /\ wq' = IF wpc = "idle" THEN Queued("disconnect") ELSE wq
       ELSE UNCHANGED <<carrier, wq>>
    /\ UNCHANGED <<iftype, state, up, bsses, connect_result, wpc, wbss, tpc,
                   sme, told, joining, user, ghosts>>

\* c2h_del_sta_event: the firmware lost a link; in an IBSS only a station goes.
del_sta_event ==
    /\ links > 0
    /\ links' = links - 1
    /\ IF iftype = "STATION" THEN carrier' = FALSE /\ wq' = Queued("disconnect")
       ELSE UNCHANGED <<carrier, wq>>
    /\ UNCHANGED <<iftype, state, up, bsses, connect_result, wpc, wbss, tpc,
                   sme, told, joining, user, ghosts>>

-----------------------------------------------------------------------------
(* The works.                                                              *)

work_start ==
    /\ wpc = "idle" /\ wq # <<>>
    /\ wpc' = Head(wq) /\ wq' = Tail(wq)
    /\ UNCHANGED <<iftype, state, up, bsses, connect_result, wbss, tpc, kernel,
                   fw, user, ghosts>>

\* r92su_bss_connect_work gives up: not open, nothing wanted or no result.
\* What it looked at is freed all the same.
connect_work_out ==
    /\ LockFree /\ wpc = "connect"
    /\ ~IsOpen \/ want_connect_bss = NoBss \/ connect_result = "none"
    /\ wbss' = IF IsOpen THEN want_connect_bss ELSE NoBss
    /\ connect_result' = IF IsOpen /\ connect_result # "none" THEN "freed"
                         ELSE connect_result
    /\ wpc' = "out"
    /\ UNCHANGED <<iftype, state, up, bsses, wq, tpc, kernel, fw, user, ghosts>>

\* cfg80211_connect_result (STATION) or cfg80211_ibss_joined (ADHOC, only on
\* success), then kfree and reset of assoc_ie.
Report(ok) ==
    LET b == want_connect_bss
        heard == iftype = "STATION" \/ ok
    IN  /\ misused' = (misused \/ assoc_ie[b] = "freed")
        /\ assoc_ie' = [assoc_ie EXCEPT ![b] = "null"]
        /\ told' = IF ok /\ iftype = "STATION" THEN "up" ELSE told
        /\ sme' = IF ~heard \/ sme # "connecting" THEN sme
                  ELSE IF ok THEN "connected" ELSE "idle"

\* A join that worked, with memory for its station: the wanted bss becomes the
\* connected one.
connect_work_joined ==
    /\ LockFree /\ wpc = "connect" /\ IsOpen
    /\ want_connect_bss # NoBss /\ connect_result = "joined"
    /\ connect_result' = "none"
    /\ Report(TRUE)
    /\ connect_bss' = want_connect_bss
    /\ want_connect_bss' = NoBss
    /\ state' = "CONNECTED"
    /\ wpc' = "start_queues"
    /\ UNCHANGED <<iftype, up, refs, wq, wbss, tpc, carrier, fw, user, unbalanced, lost>>

\* A join that failed, or an answer that is too short: reported, and the bss is
\* freed once the lock is gone; want_connect_bss keeps naming it.
connect_work_refused ==
    /\ LockFree /\ wpc = "connect" /\ IsOpen
    /\ want_connect_bss # NoBss /\ connect_result # "none"
    /\ connect_result' = "none"
    /\ Report(FALSE)
    /\ wbss' = want_connect_bss
    /\ wpc' = "out"
    /\ UNCHANGED <<iftype, state, up, want_connect_bss, connect_bss, refs, wq, tpc,
                   carrier, fw, user, unbalanced, lost>>

\* After the lock: netif_tx_start_all_queues and netif_carrier_on ...
connect_work_start ==
    /\ wpc = "start_queues"
    /\ carrier' = TRUE /\ wpc' = "idle"
    /\ UNCHANGED <<iftype, state, up, bsses, connect_result, wq, wbss, tpc, sme,
                   told, fw, user, ghosts>>

\* ... or r92su_bss_free(cfg_bss).
connect_work_free ==
    /\ wpc = "out"
    /\ bss_free(wbss)
    /\ wpc' = "idle" /\ wbss' = NoBss
    /\ UNCHANGED <<iftype, state, up, want_connect_bss, connect_bss,
                   connect_result, wq, tpc, kernel, fw, user>>

disconnect_work ==
    /\ LockFree /\ wpc = "disconnect"
    /\ bss_free_connected
    /\ sme' = IF told = told' THEN sme ELSE "idle"
    /\ wpc' = "idle"
    /\ UNCHANGED <<iftype, up, want_connect_bss, connect_result, wq, wbss, tpc,
                   carrier, fw, user>>

-----------------------------------------------------------------------------
(* The user.                                                               *)

\* r92su_change_virtual_intf: only while the device is stopped.
change_virtual_intf(t) ==
    /\ up = "down" /\ state = "STOP"
    /\ iftype' = t
    /\ UNCHANGED <<state, up, bsses, connect_result, works, kernel, fw,
                   user, ghosts>>

\* r92su_open succeeded; the new firmware knows of no joins and no links.
open ==
    /\ up = "down" /\ state = "STOP"
    /\ state' = "OPEN" /\ up' = "up"
    /\ joining' = 0 /\ links' = 0
    /\ UNCHANGED <<iftype, bsses, connect_result, works, kernel, user, ghosts>>

\* r92su_disconnect and r92su_leave_ibss; a join that is under way stays wanted.
\* cfg80211 counts the interface as idle when the call returns.
disconnect ==
    /\ up = "up" /\ sme # "idle"
    /\ bss_free_connected
    /\ sme' = "idle"
    /\ abandoned' = (abandoned \/ want_connect_bss # NoBss)
    /\ UNCHANGED <<iftype, up, want_connect_bss, connect_result, works, carrier,
                   fw, connects>>

\* r92su_stop, called after cfg80211 left the network: first the connected bss,
\* if the state still says so, ...
stop ==
    /\ up = "up" /\ sme = "idle"
    /\ IF IsConnected THEN bss_free_connected
       ELSE UNCHANGED <<state, told, connect_bss, assoc_ie, refs, ghosts>>
    /\ up' = "stopping"
    /\ UNCHANGED <<iftype, want_connect_bss, connect_result, works, sme, carrier,
                   fw, user>>

\* ... then the state and the wanted one; the lock is released, ...
stop_want ==
    /\ up = "stopping"
    /\ state' = IF IsOpen THEN "STOP" ELSE state
    /\ bss_free(want_connect_bss)
    /\ want_connect_bss' = NoBss
    /\ up' = "cancel_connect"
    /\ UNCHANGED <<iftype, connect_bss, connect_result, works, kernel, fw, user>>

\* ... and the works are cancelled, one after the other: cancel_work_sync also
\* waits for an item that runs.
stop_cancel_connect ==
    /\ up = "cancel_connect" /\ wpc \notin {"connect", "out", "start_queues"}
    /\ wq' = Cancelled("connect")
    /\ up' = "cancel_disconnect"
    /\ UNCHANGED <<iftype, state, bsses, connect_result, wpc, wbss, tpc, kernel,
                   fw, user, ghosts>>

stop_cancel_disconnect ==
    /\ up = "cancel_disconnect" /\ wpc # "disconnect"
    /\ wq' = Cancelled("disconnect")
    /\ up' = "down"
    /\ UNCHANGED <<iftype, state, bsses, connect_result, wpc, wbss, tpc, kernel,
                   fw, user, ghosts>>

-----------------------------------------------------------------------------

\* r92su_mark_dead, from any context.
mark_dead ==
    /\ state # "DEAD"
    /\ state' = "DEAD" /\ carrier' = FALSE
    /\ UNCHANGED <<iftype, up, bsses, connect_result, works, sme, told, fw,
                   user, ghosts>>

Rest ==   \* nobody opens a dead device again
    /\ state = "DEAD" /\ up = "down"
    /\ UNCHANGED vars

User ==
    \/ connect_nothing \/ connect_unknown
    \/ \E b \in Bss : connect_refused(b) \/ connect_failed(b) \/ connect(b)
    \/ disconnect
    \/ open \/ \E t \in Iftype : change_virtual_intf(t)
    \/ stop \/ stop_want \/ stop_cancel_connect \/ stop_cancel_disconnect

Tasklet ==
    \/ \E r \in Result : join_bss_event(r)
    \/ join_bss_queue
    \/ del_sta_event

Works ==
    \/ work_start
    \/ connect_work_out \/ connect_work_joined \/ connect_work_refused
    \/ connect_work_start \/ connect_work_free
    \/ disconnect_work

Next == User \/ Tasklet \/ Works \/ mark_dead \/ Rest

Spec == Init /\ [][Next]_vars
-----------------------------------------------------------------------------
(* Properties.                                                             *)

\* CONNECTED implies a connected bss - r92su_tx, r92su_rx_handler and the key
\* operations test the state first and then follow connect_bss - and what
\* cfg80211 was told of the link is what connect_bss says, so that
\* r92su_bss_free_connected never calls cfg80211_disconnected without reason
\* (main.c:510), whatever order works, events, the user and a death come in.
LinkAgrees ==
    /\ TypeOK
    /\ IsConnected => connect_bss # NoBss
    /\ iftype = "STATION" => (told = "up" <=> connect_bss # NoBss)

\* While there is memory for join events, r92su_bss_connect_work never looks
\* into a join result it freed before (main.c:663 frees one and leaves the
\* pointer): no work is queued for it.
NoFreedResult ==
    wpc = "connect" /\ IsOpen /\ want_connect_bss # NoBss
        => connect_result # "freed" \/ lost

\* A connected device can send: the queues that connect_bss_work starts after
\* it gave the lock back were not stopped meanwhile for good.
ConnectedCanSend ==
    \/ ~IsConnected \/ carrier
    \/ wpc = "start_queues"
    \/ wpc = "disconnect" \/ Contains(wq, "disconnect")

\* The connected bss is referenced, as long as no join was abandoned and no
\* reference was given back twice (r92su_stop after a failed join).
ConnectedIsReferenced ==
    connect_bss # NoBss => refs[connect_bss] >= 1 \/ abandoned \/ unbalanced

\* The association IEs of a bss are neither read nor freed once they were freed,
\* as r92su.h:221 has it, where assoc_ie is "only valid during connect".
AssocIeValid == ~misused
=============================================================================
