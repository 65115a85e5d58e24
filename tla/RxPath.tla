------------------------------- MODULE RxPath -------------------------------
(***************************************************************************)
(* The receive path of r92su (r92su/rx.c) during one association, and the  *)
(* keys it uses (r92su/main.c, r92su/sta.c).  The USB callback splits an   *)
(* RX buffer into packets, hands events on and queues data frames; the rx  *)
(* tasklet dequeues them, drops repetitions, passes them through the       *)
(* reorder buffer and calls r92su_rx_handler, as the release timer of the  *)
(* reorder buffer does.  The handler, under rx_path, finds the key of a    *)
(* frame, checks packet number and MIC, joins fragments and delivers.      *)
(* Keys change at any time: r92su_add_key and r92su_del_key hold           *)
(* r92su->lock, which no receiving context takes.                          *)
(*                                                                         *)
(* Frames may be lost, repeated and arrive in any order.  The reorder      *)
(* buffer appears here by what it can do to a QoS frame (drop it, keep it, *)
(* release it with others in order); Reorder has the details.  Frames are  *)
(* long enough for their headers, and stations are those of one bss.       *)
(***************************************************************************)
EXTENDS Integers, Sequences, SequencesExt, FiniteSets

CONSTANTS
    Frame,     \* [Cipher -> what the peer sends: seq, frag, more, qos, idx, iv]
    Shape,     \* how packets share a buffer: sequences of packet kinds
    Cipher,    \* the ciphers tried, of "none", "wep", "tkip", "ccmp"
    NoEncrypt, \* bss_priv->control_port_no_encrypt
    KeyIdx,    \* the indices of the group keys
    MaxKey,    \* bound: keys installed
    MaxUrb,    \* bound: RX buffers received
    MaxOps     \* bound: keys and buffers together

ASSUME RxPathAssumption ==
    /\ Cipher \subseteq {"none", "wep", "tkip", "ccmp"}
    /\ \A f \in UNION {Frame[c] : c \in Cipher} :
          /\ DOMAIN f = {"seq", "frag", "more", "qos", "idx", "iv"}
          /\ f.seq \in Nat /\ f.frag \in Nat /\ f.iv \in Nat
          /\ f.more \in BOOLEAN /\ f.qos \in BOOLEAN /\ f.idx \in KeyIdx
    /\ \A s \in Shape : s \in Seq({"data", "event", "badevent", "clipped"})
    /\ NoEncrypt \in BOOLEAN /\ "sta" \notin KeyIdx
    /\ MaxKey \in Nat /\ MaxUrb \in Nat /\ MaxOps \in Nat

VARIABLES
    cipher,      \* the cipher suite of the bss
    state,       \* r92su->state
    connect_bss, \* connect_bss # NULL
    lock,        \* what the holder of r92su->lock still has to do
    key,         \* [Slot -> sta_key or group_key[idx], 0 for NULL]
    nkeys,       \* keys allocated so far
    rx_pn,       \* [1 .. MaxKey -> tkip.rx_seq or ccmp.rx_seq]
    buf,         \* the packets of the RX buffer that were not looked at
    pkt_cnt,     \* the counter of r92su_rx's loop
    parsing,     \* r92su_rx runs
    urbs,        \* RX buffers received so far
    rx_queue,    \* r92su->rx_queue
    pending,     \* the rx tasklet is scheduled
    left,        \* r92su_rx returned without scheduling the tasklet
    rx_seq,      \* [BOOLEAN -> sta->rx_seq, sta->rx_seq_tid[0]]
    parked,      \* the frames in the reorder buffer
    rx_path,     \* the context that holds rx_path
    ctx,         \* [Ctx -> where the receiving context is]
    defrag,      \* sta->defrag[AC_BE].queue
    delivered    \* what the network stack got

link  == <<cipher, state, connect_bss, lock>>
keys  == <<key, nkeys>>
usb   == <<buf, pkt_cnt, parsing, urbs>>
queue == <<rx_queue, pending, left>>
sta   == <<rx_seq, parked, defrag, rx_pn>>
vars  == <<link, keys, usb, queue, sta, rx_path, ctx, delivered>>

Ctx  == {"tasklet", "timer"}
Slot == {"sta"} \cup KeyIdx
IsConnected == state = "CONNECTED"
-----------------------------------------------------------------------------
(* A received frame: the peer's frame, whether it is enciphered and, with  *)
(* TKIP, the key of its MIC.                                               *)
Rx(f, k) ==
    [seq |-> f.seq, frag |-> f.frag, more |-> f.more, qos |-> f.qos,
     idx |-> f.idx, prot |-> k # 0, iv |-> IF k = 0 THEN 0 ELSE f.iv,
     mic |-> IF cipher = "tkip" THEN k ELSE 0]

RxFrame == [seq : Nat, frag : Nat, more : BOOLEAN, qos : BOOLEAN,
            idx : KeyIdx, prot : BOOLEAN, iv : Nat, mic : 0 .. MaxKey]

\* A frame on its way to the network stack, with the fragments it is made of.
Joined == [key : 0 .. MaxKey, pn : Nat, prot : BOOLEAN, parts : Seq(RxFrame)]

Idle(pc) == [pc |-> pc, frames |-> <<>>, key |-> 0, out |-> <<>>]

Init ==
    /\ cipher \in Cipher
    /\ state = "OPEN" /\ connect_bss = FALSE /\ lock = "free"
    /\ key = [s \in Slot |-> 0] /\ nkeys = 0
    /\ rx_pn = [k \in 1 .. MaxKey |-> 0]
    /\ buf = <<>> /\ pkt_cnt = 0 /\ parsing = FALSE /\ urbs = 0
    /\ rx_queue = <<>> /\ pending = FALSE /\ left = FALSE
    /\ rx_seq = [q \in BOOLEAN |-> <<0, 0>>] /\ parked = {} /\ defrag = <<>>
    /\ rx_path = "free" /\ ctx = [c \in Ctx |-> Idle("idle")]
    /\ delivered = <<>>
-----------------------------------------------------------------------------
(* The association, under r92su->lock.                                     *)

\* A successful join: the station is new, its counters are 0.
connect_work ==
    /\ state = "OPEN" /\ lock = "free" /\ ~connect_bss /\ nkeys = 0
    /\ connect_bss' = TRUE /\ state' = "CONNECTED"
    /\ UNCHANGED <<cipher, lock, keys, usb, queue, sta, rx_path,
                   ctx, delivered>>

\* r92su_bss_free_connected first changes the state ...
free_connected ==
    /\ lock = "free" /\ connect_bss
    /\ state' = IF IsConnected THEN "OPEN" ELSE state
    /\ lock' = "unlink"
    /\ UNCHANGED <<cipher, connect_bss, keys, usb, queue, sta,
                   rx_path, ctx, delivered>>

\* ... then takes the bss away and its group keys with it; the key of the
\* station lives until the RCU callback.
bss_free ==
    /\ lock = "unlink"
    /\ lock' = "gone" /\ connect_bss' = FALSE
    /\ key' = [s \in Slot |-> IF s = "sta" THEN key[s] ELSE 0]
    /\ UNCHANGED <<cipher, state, nkeys, usb, queue,
                   sta, rx_path, ctx, delivered>>
-----------------------------------------------------------------------------
(* Keys.                                                                   *)

\* r92su_key_alloc: the counter a new key starts with.
FirstPn == IF cipher = "tkip" THEN 1 ELSE 0

\* r92su_add_key sends the key to the firmware (if that fails, nothing
\* changed) and publishes it.
add_key(s) ==
    /\ lock = "free" /\ IsConnected /\ cipher # "none" /\ nkeys < MaxKey
    /\ nkeys + urbs < MaxOps
    /\ nkeys' = nkeys + 1
    /\ rx_pn' = [rx_pn EXCEPT ![nkeys'] = FirstPn]
    /\ key' = [key EXCEPT ![s] = nkeys']
    /\ UNCHANGED <<link, usb, queue, rx_seq, parked, defrag, rx_path, ctx,
                   delivered>>

del_key(s) ==
    /\ lock = "free" /\ IsConnected /\ key[s] # 0
    /\ key' = [key EXCEPT ![s] = 0]
    /\ UNCHANGED <<link, nkeys, usb, queue, sta, rx_path, ctx, delivered>>
-----------------------------------------------------------------------------
(* The USB callback: r92su_rx_usb_cb and r92su_rx.                         *)

\* A buffer arrives.  Its first descriptor says how many packets it holds.
rx_usb_cb ==
    /\ ~parsing /\ urbs < MaxUrb /\ nkeys + urbs < MaxOps /\ state # "DEAD"
    /\ buf' \in Shape
    /\ pkt_cnt' = Len(buf') /\ parsing' = TRUE /\ urbs' = urbs + 1
    /\ UNCHANGED <<link, keys, queue, sta, rx_path, ctx, delivered>>

Next_packet == buf' = Tail(buf) /\ pkt_cnt' = pkt_cnt - 1

Parse(kind) == parsing /\ pkt_cnt > 0 /\ buf # <<>> /\ Head(buf) = kind

\* The peer may still use an old key, or already the next one.
PeerKey == {0} \cup {k \in 1 .. MaxKey : cipher # "none" /\ k <= nkeys + 1}

\* A data frame is copied and queued, unless there is no memory.
rx_queue_data ==
    /\ Parse("data") /\ IsConnected
    /\ Next_packet
    /\ \/ \E f \in Frame[cipher], k \in PeerKey : rx_queue' = Append(rx_queue, Rx(f, k))
       \/ rx_queue' = rx_queue
    /\ UNCHANGED <<link, keys, parsing, urbs, pending, left, sta, rx_path, ctx,
                   delivered>>

\* Without a connection the loop continues and meets the same packet again.
rx_skip_data ==
    /\ Parse("data") /\ ~IsConnected
    /\ pkt_cnt' = pkt_cnt - 1
    /\ UNCHANGED <<link, keys, buf, parsing, urbs, queue, sta, rx_path, ctx,
                   delivered>>

\* An event goes to r92su_c2h_event (see Scan and StaTable); one that does not
\* fit its buffer kills the device.
rx_event ==
    /\ Parse("event") \/ Parse("badevent")
    /\ Next_packet
    /\ state' = IF Head(buf) = "badevent" THEN "DEAD" ELSE state
    /\ UNCHANGED <<cipher, connect_bss, lock, keys, parsing, urbs,
                   queue, sta, rx_path, ctx, delivered>>

\* A packet longer than the buffer ends the loop: err_garbage.
rx_clipped ==
    /\ Parse("clipped")
    /\ buf' = <<>> /\ pkt_cnt' = 0 /\ parsing' = FALSE /\ left' = TRUE
    /\ UNCHANGED <<link, keys, urbs, rx_queue, pending, sta, rx_path, ctx,
                   delivered>>

rx_done ==
    /\ parsing /\ (buf = <<>> \/ pkt_cnt = 0)
    /\ buf' = <<>> /\ pkt_cnt' = 0 /\ parsing' = FALSE
    /\ pending' = (pending \/ IsConnected) /\ left' = ~IsConnected
    /\ UNCHANGED <<link, keys, urbs, rx_queue, sta, rx_path, ctx, delivered>>
-----------------------------------------------------------------------------
(* The tasklet and the release timer: how frames get to r92su_rx_handler.  *)

tasklet_start ==
    /\ pending /\ ctx["tasklet"].pc = "idle"
    /\ pending' = FALSE
    /\ ctx' = [ctx EXCEPT !["tasklet"] = Idle("loop")]
    /\ UNCHANGED <<link, keys, usb, rx_queue, left, sta, rx_path, delivered>>

\* Mutant: the tasklet takes one frame only.
MutOneFrame ==
    /\ ctx["tasklet"].pc = "loop"
    /\ ctx' = [ctx EXCEPT !["tasklet"] = Idle("idle")]
    /\ UNCHANGED <<link, keys, usb, queue, sta, rx_path, delivered>>

tasklet_end ==
    /\ ctx["tasklet"].pc = "loop" /\ rx_queue = <<>>
    /\ ctx' = [ctx EXCEPT !["tasklet"] = Idle("idle")]
    /\ UNCHANGED <<link, keys, usb, queue, sta, rx_path, delivered>>

Dequeued == ctx["tasklet"].pc = "loop" /\ rx_queue # <<>>
            /\ rx_queue' = Tail(rx_queue)
SeqCtrl(f) == <<f.seq, f.frag>>

\* r92su_rx_data up to the duplicate check: what is dropped ...
Repeated(f) == rx_seq[f.qos] = SeqCtrl(f)

\* (by the state, or by r92su_rx_hw_header_check: a bad checksum, or a frame
\* the hardware had no key for, or by r92su_rx_deduplicate)
rx_data_drop ==
    /\ Dequeued
    /\ UNCHANGED <<link, keys, usb, pending, left, sta, rx_path, ctx, delivered>>

\* Frames leave the reorder buffer in order; what stays is younger.
Released(R, S) == R \subseteq S /\ \A f \in R, g \in S \ R : f.seq < g.seq
InOrder(R) == {q \in [1 .. Cardinality(R) -> R] :
                 \A i, j \in 1 .. Cardinality(R) : i < j => q[i].seq < q[j].seq}

Handle(c, frames) == ctx' = [ctx EXCEPT ![c] = [Idle("wait") EXCEPT !.frames = frames]]

\* ... and what goes on: a frame without QoS directly, a QoS frame through the
\* reorder buffer, which may drop it, and does if its slot is taken.
rx_data ==
    LET f == Head(rx_queue) IN
    /\ Dequeued /\ IsConnected /\ connect_bss /\ ~Repeated(f)
    /\ rx_seq' = [rx_seq EXCEPT ![f.qos] = SeqCtrl(f)]
    /\ \/ /\ ~f.qos
          /\ Handle("tasklet", <<f>>) /\ parked' = parked
       \/ /\ f.qos /\ \A g \in parked : g.seq # f.seq
          /\ \E R \in SUBSET (parked \cup {f}) :
                /\ Released(R, parked \cup {f})
                /\ \E q \in InOrder(R) : Handle("tasklet", q)
                /\ parked' = (parked \cup {f}) \ R
       \/ f.qos /\ UNCHANGED <<ctx, parked>>
    /\ UNCHANGED <<link, keys, usb, pending, left, defrag, rx_pn, rx_path,
                   delivered>>

reorder_tid_timer ==
    /\ ctx["timer"].pc = "idle" /\ IsConnected /\ connect_bss
    /\ \E R \in SUBSET parked \ {{}} :
          /\ Released(R, parked)
          /\ \E q \in InOrder(R) : Handle("timer", q)
          /\ parked' = parked \ R
    /\ UNCHANGED <<link, keys, usb, queue, rx_seq, defrag, rx_pn, rx_path,
                   delivered>>
-----------------------------------------------------------------------------
(* r92su_rx_handler.                                                       *)

LockFree == rx_path = "free"

handler_lock(c) ==
    /\ ctx[c].pc = "wait" /\ LockFree
    /\ rx_path' = c
    /\ ctx' = [ctx EXCEPT ![c].pc = "prep"]
    /\ UNCHANGED <<link, keys, usb, queue, sta, delivered>>

Skb(c) == Head(ctx[c].frames)

\* The key of a frame: the group key of its index, if there is one.
FoundKey(f) == IF key[f.idx] # 0 THEN key[f.idx] ELSE key["sta"]

\* What is left of the context once its frame is gone or kept.
Gone(c, out) == [ctx EXCEPT ![c].frames = Tail(@), ![c].pc = "prep",
                            ![c].key = 0, ![c].out = @ \o out]

find_key(c) ==
    /\ ctx[c].pc = "prep" /\ ctx[c].frames # <<>>
    /\ LET f == Skb(c) IN
       ctx' = IF f.prot /\ FoundKey(f) = 0 THEN Gone(c, <<>>)
              ELSE [ctx EXCEPT ![c].pc = "check",
                               ![c].key = IF f.prot THEN FoundKey(f) ELSE 0]
    /\ UNCHANGED <<link, keys, usb, queue, sta, rx_path, delivered>>

\* r92su_rx_iv_handle: only a packet number above the last one is accepted.
Counted(k) == k # 0 /\ cipher \in {"tkip", "ccmp"}

\* Mutant: a packet number is accepted twice.
MutIvEqual(f, k) == Counted(k) => f.iv >= rx_pn[k]

IvOk(f, k) == Counted(k) => f.iv > rx_pn[k]

\* Mutant: the MIC is removed without being compared.
MutNoMic(f, k) == TRUE

\* r92su_rx_icv_mic_handle.  The peer computes one MIC per frame, with its own
\* key; the driver compares it for every fragment, with the key it found.
MicOk(f, k) == k # 0 /\ cipher = "tkip" => f.mic = k /\ f.frag = 0 /\ ~f.more

\* r92su_rx_iv_check (and, before it, the MIC handler of TKIP).
SetPn(f, k) == rx_pn' = IF Counted(k) THEN [rx_pn EXCEPT ![k] = f.iv] ELSE rx_pn

\* Mutant: a fragment matches an empty queue.
MutMatchEmpty(f, k) ==
    defrag # <<>> => f.seq = Last(defrag).seq \/ f.frag = 1 + Last(defrag).frag

\* r92su_check_if_match.
Match(f, k) ==
    /\ defrag # <<>>
    /\ LET t == Last(defrag) IN
       /\ f.seq = t.seq \/ f.frag = 1 + t.frag
       /\ k # 0 /\ cipher = "ccmp" => f.iv = t.iv + 1

\* r92su_defrag_add clears skb->cb, where the packet number is kept.
Cleared(f) == [f EXCEPT !.iv = 0]

At(c) == ctx[c].pc = "check"
Accepted(c) == At(c) /\ IvOk(Skb(c), ctx[c].key) /\ MicOk(Skb(c), ctx[c].key)
Fits(c) == Skb(c).frag # 0 /\ Match(Skb(c), ctx[c].key)
Checked == UNCHANGED <<link, keys, usb, queue, rx_seq, parked, rx_path, delivered>>

crypto_drop(c) ==
    /\ At(c) /\ ~Accepted(c)
    /\ ctx' = Gone(c, <<>>)
    /\ UNCHANGED <<defrag, rx_pn>> /\ Checked

defrag_queue(c) ==
    /\ Accepted(c) /\ Skb(c).more
    /\ \/ Skb(c).frag = 0 /\ defrag' = <<Cleared(Skb(c))>>
       \/ Fits(c) /\ defrag' = Append(defrag, Cleared(Skb(c)))
    /\ ctx' = Gone(c, <<>>)
    /\ rx_pn' = rx_pn /\ Checked

\* No match, or no memory (pskb_expand_head) for the last fragment.
defrag_drop(c) ==
    /\ Accepted(c) /\ Skb(c).frag # 0
    /\ Fits(c) => ~Skb(c).more
    /\ defrag' = <<>>
    /\ ctx' = Gone(c, <<>>)
    /\ rx_pn' = rx_pn /\ Checked

Skbs(c) == [key |-> ctx[c].key, pn |-> Skb(c).iv, prot |-> Skb(c).prot,
            parts |-> (IF Skb(c).frag = 0 THEN <<>> ELSE defrag) \o <<Skb(c)>>]

\* A whole frame, or the last fragment: the frame is complete.
complete(c) ==
    /\ Accepted(c) /\ ~Skb(c).more
    /\ Skb(c).frag = 0 \/ Fits(c)
    /\ defrag' = <<>>
    /\ SetPn(Skb(c), ctx[c].key)
    /\ ctx' = Gone(c, <<Skbs(c)>>)
    /\ Checked

\* r92su_rx_port_check.  skb->protocol, which it compares with the ethertype of
\* the control port, is only set by r92su_rx_deliver: it differs.
PortOk(d) == ~(cipher # "none" /\ ~d.prot /\ NoEncrypt)

\* Once all frames are through, the joined ones are delivered one by one, ...
rx_deliver(c) ==
    /\ ctx[c].pc = "prep" /\ ctx[c].frames = <<>> /\ ctx[c].out # <<>>
    /\ LET d == Head(ctx[c].out)
       IN  delivered' = IF PortOk(d) THEN Append(delivered, d) ELSE delivered
    /\ ctx' = [ctx EXCEPT ![c].out = Tail(@)]
    /\ UNCHANGED <<link, keys, usb, queue, sta, rx_path>>

\* ... and the lock is released.
handler_unlock(c) ==
    /\ ctx[c].pc = "prep" /\ ctx[c].frames = <<>> /\ ctx[c].out = <<>>
    /\ rx_path' = "free"
    /\ ctx' = [ctx EXCEPT ![c] = Idle(IF c = "tasklet" THEN "loop" ELSE "idle")]
    /\ UNCHANGED <<link, keys, usb, queue, sta, delivered>>
-----------------------------------------------------------------------------
Connection == connect_work \/ free_connected \/ bss_free
SetKeys == \E s \in Slot : add_key(s) \/ del_key(s)
Usb == rx_usb_cb \/ rx_queue_data \/ rx_skip_data \/ rx_event \/ rx_clipped
       \/ rx_done
Tasklet == tasklet_start \/ tasklet_end \/ rx_data_drop \/ rx_data
Handler(c) == \/ handler_lock(c) \/ find_key(c) \/ crypto_drop(c)
              \/ defrag_queue(c) \/ defrag_drop(c) \/ complete(c)
              \/ rx_deliver(c) \/ handler_unlock(c)

\* Nothing to do until the next buffer arrives; no context is stuck.
Rest == ~parsing /\ ~pending /\ (\A c \in Ctx : ctx[c].pc = "idle")
        /\ UNCHANGED vars

Next == \/ Connection \/ SetKeys \/ Usb \/ Tasklet \/ reorder_tid_timer
        \/ \E c \in Ctx : Handler(c)
        \/ Rest

Spec == Init /\ [][Next]_vars
-----------------------------------------------------------------------------
\* Types, and rx_path is held exactly by the context inside the handler.
TypeOK ==
    /\ cipher \in Cipher
    /\ state \in {"DEAD", "OPEN", "CONNECTED"} /\ connect_bss \in BOOLEAN
    /\ lock \in {"free", "unlink", "gone"}
    /\ key \in [Slot -> 0 .. MaxKey]
    /\ nkeys \in 0 .. MaxKey /\ rx_pn \in [1 .. MaxKey -> Nat]
    /\ buf \in Seq({"data", "event", "badevent", "clipped"})
    /\ pkt_cnt \in Nat /\ parsing \in BOOLEAN /\ urbs \in 0 .. MaxUrb
    /\ rx_queue \in Seq(RxFrame) /\ defrag \in Seq(RxFrame)
    /\ pending \in BOOLEAN /\ left \in BOOLEAN
    /\ rx_seq \in [BOOLEAN -> Nat \X Nat] /\ parked \in SUBSET RxFrame
    /\ rx_path \in {"free"} \cup Ctx
    /\ ctx \in [Ctx -> [pc : {"idle", "loop", "wait", "prep", "check"},
                        frames : Seq(RxFrame), key : 0 .. MaxKey, out : Seq(Joined)]]
    /\ delivered \in Seq(Joined)
    /\ \A c \in Ctx : rx_path = c <=> ctx[c].pc \in {"prep", "check"}

\* Replay protection (r92su_rx_iv_handle, r92su_rx_iv_check).  Of what is
\* delivered under one TKIP or CCMP key every packet number is higher than the
\* one before, whatever is repeated, reordered, kept in the reorder buffer or
\* joined from fragments, and whichever context delivers it, one at a time.
NoReplay ==
    /\ TypeOK
    /\ \A i, j \in DOMAIN delivered :
          i < j /\ Counted(delivered[i].key) /\ delivered[i].key = delivered[j].key
              => delivered[i].pn < delivered[j].pn

\* Defragmentation (r92su_rx_defrag).  A delivered frame begins with a first
\* fragment and ends with a last one, and no other fragment in it is a last
\* one: fragments are lost as a whole, never delivered without their start.
JoinedIsClosed ==
    \A i \in DOMAIN delivered :
        LET p == delivered[i].parts IN
        /\ p[1].frag = 0
        /\ \A j \in DOMAIN p : p[j].more <=> j < Len(p)

\* Rekeying (r92su_add_key, r92su_rx_icv_mic_handle).  With TKIP a protected
\* frame is delivered under the key its sender used, though the key may be
\* replaced between its reception, its lookup and its delivery.
TkipKeyAgrees ==
    cipher = "tkip" =>
        \A i \in DOMAIN delivered : \A j \in DOMAIN delivered[i].parts :
            delivered[i].prot => delivered[i].parts[j].mic = delivered[i].key

\* r92su_rx, r92su_rx_tasklet.  When r92su_rx scheduled the tasklet, no frame is
\* left in rx_queue without a tasklet that will take it.
NoStrandedFrame ==
    ~parsing /\ ~left /\ rx_queue # <<>> =>
        pending \/ ctx["tasklet"].pc # "idle"

\* r92su_set_wiphy_params (main.c) says of a receiver that "all fragments have
\* to have the same sequence couter": a joined frame has one sequence number.
JoinedFromOneFrame ==
    \A i \in DOMAIN delivered : \A j \in DOMAIN delivered[i].parts :
        delivered[i].parts[j].seq = delivered[i].parts[1].seq
=============================================================================
