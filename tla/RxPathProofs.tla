---------------------------- MODULE RxPathProofs ----------------------------
(***************************************************************************)
(* Proofs about RxPath for any frames the peer may send, any way packets   *)
(* share a buffer, and any number of keys and buffers.  First which parts  *)
(* of the driver leave which variables alone; then, part by part, types    *)
(* and control, the fragments that wait, and what is known of a frame from *)
(* its acceptance to its delivery.                                         *)
(***************************************************************************)
EXTENDS RxPath, FiniteSetTheorems, TLAPS

\* A receiving context, as TypeOK has it.
CtxRec == [pc : {"idle", "loop", "wait", "prep", "check"},
           frames : Seq(RxFrame), key : 0 .. MaxKey, out : Seq(Joined)]

\* The keys in use were installed, a frame that is checked is there and has a
\* key if it is protected, and frames are on their way out inside rx_path only.
HandlerInv ==
    /\ IsFiniteSet(parked)
    /\ \A s \in Slot : key[s] <= nkeys
    /\ \A c \in Ctx :
        /\ ctx[c].key <= nkeys
        /\ ctx[c].pc = "check" => ctx[c].frames # <<>>
        /\ ctx[c].pc = "check" /\ Skb(c).prot => ctx[c].key # 0
        /\ ctx[c].pc \notin {"prep", "check"} => ctx[c].out = <<>>

\* The fragments that wait begin with a first one, and more is to come.
DefragInv ==
    /\ defrag # <<>> => defrag[1].frag = 0
    /\ \A i \in DOMAIN defrag : defrag[i].more

\* The fragments are one complete row.
Whole(p) ==
    /\ p # <<>> /\ p[1].frag = 0
    /\ \A j \in DOMAIN p : p[j].more <=> j < Len(p)

\* The frame was decrypted with a key whose cipher numbers its packets.
Numbered(k, ci) == k # 0 /\ ci \in {"tkip", "ccmp"}

\* What is known of a frame d when n keys were installed, pn is their packet
\* numbers and ci the cipher: its number is used up, its fragments are one
\* complete row and, with TKIP, they are its key's.
Sound(d, n, pn, ci) ==
    /\ d.key <= n
    /\ Numbered(d.key, ci) => d.pn <= pn[d.key]
    /\ Whole(d.parts)
    /\ ci = "tkip" /\ d.prot => \A j \in DOMAIN d.parts : d.parts[j].mic = d.key

\* ... and it is known of every frame delivered or about to be.
SoundInv ==
    /\ \A i \in DOMAIN delivered : Sound(delivered[i], nkeys, rx_pn, cipher)
    /\ \A c \in Ctx : \A i \in DOMAIN ctx[c].out :
          Sound(ctx[c].out[i], nkeys, rx_pn, cipher)

\* Frames of one key have rising packet numbers, the delivered ones and those
\* about to be.
Before(d, e, ci) == Numbered(d.key, ci) /\ d.key = e.key => d.pn < e.pn

\* A sequence of frames in that order.
Rising(q, ci) == \A i, j \in DOMAIN q : i < j => Before(q[i], q[j], ci)

\* Each queue rises, and what is delivered comes before what waits.
OrderInv ==
    /\ Rising(delivered, cipher)
    /\ \A c \in Ctx : Rising(ctx[c].out, cipher)
    /\ \A c \in Ctx : \A i \in DOMAIN delivered, j \in DOMAIN ctx[c].out :
          Before(delivered[i], ctx[c].out[j], cipher)

\* The invariant of the receive path.
Inductive ==
    /\ TypeOK /\ HandlerInv /\ DefragInv /\ SoundInv /\ OrderInv
    /\ NoStrandedFrame
-----------------------------------------------------------------------------
(* Sequences *)

\* What is left of a sequence without its head.
LEMMA TailFacts ==
  ASSUME NEW S, NEW q \in Seq(S), q # <<>>
  PROVE  /\ Head(q) \in S /\ Head(q) = q[1] /\ 1 \in DOMAIN q
         /\ Tail(q) \in Seq(S)
         /\ DOMAIN q \subseteq Nat
         /\ \A i \in DOMAIN Tail(q) :
               i \in Nat /\ 1 < i + 1 /\ i + 1 \in DOMAIN q /\ Tail(q)[i] = q[i + 1]
  OBVIOUS

\* A sequence with one element more.
LEMMA AppendFacts ==
  ASSUME NEW S, NEW q \in Seq(S), NEW e \in S
  PROVE  /\ q \o <<e>> = Append(q, e)
         /\ Append(q, e) \in Seq(S) /\ Append(q, e) # <<>>
         /\ Len(Append(q, e)) = Len(q) + 1 /\ Len(q) \in Nat
         /\ DOMAIN Append(q, e) = DOMAIN q \cup {Len(q) + 1}
         /\ Append(q, e)[Len(q) + 1] = e
         /\ \A i \in DOMAIN q : i \in Nat /\ i <= Len(q) /\ Append(q, e)[i] = q[i]
         /\ q # <<>> => 1 \in DOMAIN q
         /\ q = <<>> => Append(q, e) = <<e>>
<1>1. q \o <<e>> = Append(q, e)
  OBVIOUS
<1>2. /\ Append(q, e) \in Seq(S) /\ Append(q, e) # <<>>
      /\ Len(Append(q, e)) = Len(q) + 1 /\ Len(q) \in Nat
      /\ Append(q, e)[Len(q) + 1] = e
  OBVIOUS
<1>3. /\ DOMAIN Append(q, e) = DOMAIN q \cup {Len(q) + 1}
      /\ \A i \in DOMAIN q : i \in Nat /\ i <= Len(q) /\ Append(q, e)[i] = q[i]
      /\ q # <<>> => 1 \in DOMAIN q
  OBVIOUS
<1>4. q = <<>> => Append(q, e) = <<e>>
  OBVIOUS
<1> QED BY <1>1, <1>2, <1>3, <1>4

\* The empty sequence is one of any set.
LEMMA EmptySeq == ASSUME NEW S PROVE <<>> \in Seq(S)
  OBVIOUS

\* A function with one value replaced.
LEMMA ExceptType ==
  ASSUME NEW D, NEW R, NEW f \in [D -> R], NEW x \in D, NEW y \in R
  PROVE  [f EXCEPT ![x] = y] \in [D -> R]
  OBVIOUS

-----------------------------------------------------------------------------
(* Which part of the driver leaves which variables alone *)

\* connect_work and r92su_bss_free_connected touch no receiving context.
LEMMA ConnectionFrame == Connection =>
    /\ cipher' = cipher /\ nkeys' = nkeys
    /\ UNCHANGED <<usb, queue, sta, rx_path, ctx, delivered>>
  BY DEF Connection, connect_work, free_connected, bss_free, keys

\* r92su_add_key and r92su_del_key touch no receiving context either.
LEMMA KeysFrame == SetKeys =>
    UNCHANGED <<link, usb, queue, rx_seq, parked, defrag, rx_path, ctx, delivered>>
  BY DEF SetKeys, add_key, del_key, sta

\* r92su_rx and the tasklet share rx_queue only.
LEMMA UsbFrame == Usb =>
    UNCHANGED <<cipher, connect_bss, lock, keys, sta, rx_path, ctx, delivered>>
  BY DEF Usb, rx_usb_cb, rx_queue_data, rx_skip_data, rx_event, rx_clipped,
         rx_done, link

\* r92su_rx_tasklet, up to the call of r92su_rx_handler.
LEMMA TaskletFrame == Tasklet =>
    UNCHANGED <<link, keys, usb, left, defrag, rx_pn, rx_path, delivered>>
  BY DEF Tasklet, tasklet_start, tasklet_end, rx_data_drop, rx_data, sta, queue

\* The release timer, up to the call of r92su_rx_handler.
LEMMA TimerFrame == reorder_tid_timer =>
    UNCHANGED <<link, keys, usb, queue, rx_seq, defrag, rx_pn, rx_path, delivered>>
  BY DEF reorder_tid_timer

\* r92su_rx_handler leaves what is in front of it alone.
LEMMA HandlerFrame ==
  ASSUME NEW c, Handler(c)
  PROVE  UNCHANGED <<link, keys, usb, queue, rx_seq, parked>>
  BY DEF Handler, handler_lock, find_key, crypto_drop, defrag_queue, defrag_drop,
         complete, rx_deliver, handler_unlock, Checked, sta

\* So a step that preserves a property is one of these parts, or changes nothing.
LEMMA Steps ==
  ASSUME [Next]_vars
  PROVE  \/ Connection \/ SetKeys \/ Usb \/ Tasklet \/ reorder_tid_timer
         \/ \E c \in Ctx : Handler(c)
         \/ UNCHANGED vars
  BY DEF Next, Rest

-----------------------------------------------------------------------------
(* Types and control *)

\* The parts of TypeOK, by the steps that disturb them.
LinkType == /\ cipher \in Cipher /\ state \in {"DEAD", "OPEN", "CONNECTED"}
            /\ connect_bss \in BOOLEAN /\ lock \in {"free", "unlink", "gone"}
KeyType == /\ key \in [Slot -> 0 .. MaxKey] /\ nkeys \in 0 .. MaxKey
           /\ rx_pn \in [1 .. MaxKey -> Nat] /\ \A s \in Slot : key[s] <= nkeys
UsbType == /\ buf \in Seq({"data", "event", "badevent", "clipped"})
           /\ pkt_cnt \in Nat /\ parsing \in BOOLEAN /\ urbs \in 0 .. MaxUrb
QueueType == rx_queue \in Seq(RxFrame) /\ pending \in BOOLEAN /\ left \in BOOLEAN
StaType == /\ rx_seq \in [BOOLEAN -> Nat \X Nat] /\ defrag \in Seq(RxFrame)
           /\ parked \in SUBSET RxFrame /\ IsFiniteSet(parked)
OutType == delivered \in Seq(Joined)
CtxType ==
    /\ rx_path \in {"free"} \cup Ctx /\ ctx \in [Ctx -> CtxRec]
    /\ \A c \in Ctx : rx_path = c <=> ctx[c].pc \in {"prep", "check"}
    /\ \A c \in Ctx :
        /\ ctx[c].key <= nkeys
        /\ ctx[c].pc = "check" => ctx[c].frames # <<>>
        /\ ctx[c].pc = "check" /\ Skb(c).prot => ctx[c].key # 0
        /\ ctx[c].pc \notin {"prep", "check"} => ctx[c].out = <<>>

\* The types in parts that different steps change.
LEMMA TypeParts ==
    TypeOK /\ HandlerInv <=> /\ LinkType /\ KeyType /\ UsbType /\ QueueType
                             /\ StaType /\ OutType /\ CtxType
  BY Zenon DEF TypeOK, HandlerInv, LinkType, KeyType, UsbType, QueueType, StaType,
         OutType, CtxType, CtxRec

\* What the peer sends is a frame the driver can receive.
LEMMA RxType ==
  ASSUME LinkType, NEW f \in Frame[cipher], NEW k \in 0 .. MaxKey
  PROVE  Rx(f, k) \in RxFrame
<1>1. /\ f.seq \in Nat /\ f.frag \in Nat /\ f.iv \in Nat /\ f.idx \in KeyIdx
      /\ MaxKey \in Nat
  BY RxPathAssumption DEF LinkType
<1>2. f.more \in BOOLEAN /\ f.qos \in BOOLEAN
  BY RxPathAssumption, Zenon DEF LinkType
<1>3. (k # 0) \in BOOLEAN
  OBVIOUS
<1>4. /\ (IF k = 0 THEN 0 ELSE f.iv) \in Nat
      /\ (IF cipher = "tkip" THEN k ELSE 0) \in 0 .. MaxKey
  BY <1>1
<1> QED BY <1>1, <1>2, <1>3, <1>4, Zenon DEF Rx, RxFrame

\* The association keeps its types.
LEMMA LinkNext == LinkType /\ [Next]_vars => LinkType'
<1> SUFFICES ASSUME LinkType, [Next]_vars PROVE LinkType'
  OBVIOUS
<1> USE DEF LinkType, link
<1>1. CASE connect_work
  BY <1>1 DEF connect_work
<1>2. CASE free_connected
  BY <1>2 DEF free_connected
<1>3. CASE bss_free
  BY <1>3 DEF bss_free
<1>4. CASE SetKeys
  BY <1>4, KeysFrame
<1>5. CASE Usb
  <2>1. state' \in {"DEAD", "OPEN", "CONNECTED"}
    BY <1>5 DEF Usb, rx_usb_cb, rx_queue_data, rx_skip_data, rx_event, rx_clipped,
                rx_done
  <2> QED BY <1>5, <2>1, UsbFrame
<1>6. CASE Tasklet
  BY <1>6, TaskletFrame
<1>7. CASE reorder_tid_timer
  BY <1>7, TimerFrame
<1>8. ASSUME NEW c \in Ctx, Handler(c) PROVE LinkType'
  BY <1>8, HandlerFrame
<1>9. CASE UNCHANGED vars
  BY <1>9 DEF vars
<1> QED BY <1>1, <1>2, <1>3, <1>4, <1>5, <1>6, <1>7, <1>8, <1>9, Steps DEF Connection

\* Packet numbers are Nat, whatever iv an accepted frame carries, and a key in
\* use is one that was installed.
LEMMA KeyNext ==
  ASSUME LinkType, KeyType, CtxType, [Next]_vars
  PROVE  KeyType' /\ nkeys <= nkeys'
<1> USE DEF KeyType, keys, Slot
<1>0. MaxKey \in Nat /\ "sta" \notin KeyIdx
  BY RxPathAssumption
<1>1. CASE Connection
  <2>1. UNCHANGED <<nkeys, rx_pn>>
    BY <1>1, ConnectionFrame DEF sta
  <2>2. CASE UNCHANGED key
    BY <2>1, <2>2
  <2>3. CASE bss_free
    BY <1>0, <2>1, <2>3 DEF bss_free
  <2> QED BY <1>1, <2>2, <2>3 DEF Connection, connect_work, free_connected
<1>2. ASSUME NEW s \in Slot, add_key(s) PROVE KeyType' /\ nkeys <= nkeys'
  <2>1. nkeys' = nkeys + 1 /\ nkeys' \in 1 .. MaxKey /\ FirstPn \in Nat
    BY <1>0, <1>2 DEF add_key, FirstPn
  <2> QED BY <1>0, <1>2, <2>1 DEF add_key
<1>3. ASSUME NEW s \in Slot, del_key(s) PROVE KeyType' /\ nkeys <= nkeys'
  BY <1>0, <1>3 DEF del_key, sta
<1>4. CASE Usb
  BY <1>4, UsbFrame DEF sta
<1>5. CASE Tasklet
  BY <1>5, TaskletFrame
<1>6. CASE reorder_tid_timer
  BY <1>6, TimerFrame
<1>7. ASSUME NEW c \in Ctx, Handler(c) PROVE KeyType' /\ nkeys <= nkeys'
  <2>1. UNCHANGED keys
    BY <1>7, HandlerFrame
  <2>2. CASE UNCHANGED rx_pn
    BY <2>1, <2>2
  <2>3. CASE complete(c)
    <3>1. ctx[c] \in CtxRec /\ ctx[c].frames # <<>>
      BY <1>7, <2>3 DEF CtxType, complete, Accepted, At
    <3>2. Skb(c) \in RxFrame
      BY <3>1 DEF CtxRec, Skb
    <3>3. Skb(c).iv \in Nat /\ ctx[c].key \in 0 .. MaxKey
      BY <3>1, <3>2 DEF RxFrame, CtxRec
    <3>4. rx_pn' \in [1 .. MaxKey -> Nat]
      BY <1>0, <2>3, <3>3 DEF complete, SetPn, Counted
    <3> QED BY <2>1, <3>4
  <2> QED BY <1>7, <2>2, <2>3 DEF Handler, handler_lock, find_key, crypto_drop,
             defrag_queue, defrag_drop, rx_deliver, handler_unlock, sta
<1>8. CASE UNCHANGED vars
  BY <1>8 DEF vars, sta
<1> QED BY <1>1, <1>2, <1>3, <1>4, <1>5, <1>6, <1>7, <1>8, Steps DEF SetKeys

\* The RX buffer keeps its types: the packet counter is not taken below 0.
LEMMA UsbNext == UsbType /\ [Next]_vars => UsbType'
<1> SUFFICES ASSUME UsbType, [Next]_vars PROVE UsbType'
  OBVIOUS
<1> USE RxPathAssumption DEF UsbType, usb
<1>1. CASE Connection
  BY <1>1, ConnectionFrame
<1>2. CASE SetKeys
  BY <1>2, KeysFrame
<1>3. CASE rx_usb_cb
  BY <1>3 DEF rx_usb_cb
<1>4. CASE rx_queue_data
  BY <1>4 DEF rx_queue_data, Parse, Next_packet
<1>5. CASE rx_skip_data
  BY <1>5 DEF rx_skip_data, Parse
<1>6. CASE rx_event
  BY <1>6 DEF rx_event, Parse, Next_packet
<1>7. CASE rx_clipped
  BY <1>7, EmptySeq DEF rx_clipped
<1>8. CASE rx_done
  BY <1>8, EmptySeq DEF rx_done
<1>9. CASE Tasklet
  BY <1>9, TaskletFrame
<1>10. CASE reorder_tid_timer
  BY <1>10, TimerFrame
<1>11. ASSUME NEW c \in Ctx, Handler(c) PROVE UsbType'
  BY <1>11, HandlerFrame
<1>12. CASE UNCHANGED vars
  BY <1>12 DEF vars
<1> QED BY <1>1, <1>2, <1>3, <1>4, <1>5, <1>6, <1>7, <1>8, <1>9, <1>10, <1>11, <1>12,
           Steps DEF Usb

\* rx_queue holds frames.
LEMMA QueueNext == LinkType /\ KeyType /\ QueueType /\ [Next]_vars => QueueType'
<1> SUFFICES ASSUME LinkType, KeyType, QueueType, [Next]_vars PROVE QueueType'
  OBVIOUS
<1> USE DEF QueueType, queue
<1>1. CASE Connection
  BY <1>1, ConnectionFrame
<1>2. CASE SetKeys
  BY <1>2, KeysFrame
<1>3. CASE rx_queue_data
  <2>1. \A k \in PeerKey : k \in 0 .. MaxKey
    BY RxPathAssumption DEF PeerKey
  <2>2. rx_queue' \in Seq(RxFrame)
    BY <1>3, <2>1, RxType, AppendFacts DEF rx_queue_data
  <2> QED BY <1>3, <2>2 DEF rx_queue_data
<1>4. CASE rx_usb_cb \/ rx_skip_data \/ rx_event
  BY <1>4 DEF rx_usb_cb, rx_skip_data, rx_event
<1>5. CASE rx_clipped \/ rx_done
  BY <1>5, Zenon DEF rx_clipped, rx_done
<1>6. CASE Tasklet
  <2>1. left' = left
    BY <1>6, TaskletFrame
  <2>2. pending' \in BOOLEAN
    BY <1>6 DEF Tasklet, tasklet_start, tasklet_end, rx_data_drop, rx_data
  <2>3. rx_queue' \in Seq(RxFrame)
    <3>1. rx_queue' = rx_queue \/ (rx_queue # <<>> /\ rx_queue' = Tail(rx_queue))
      <4>1. rx_data => Dequeued
        BY Zenon DEF rx_data
      <4>2. tasklet_start \/ tasklet_end => rx_queue' = rx_queue
        BY DEF tasklet_start, tasklet_end
      <4>3. rx_data_drop => Dequeued
        BY DEF rx_data_drop
      <4> QED BY <1>6, <4>1, <4>2, <4>3 DEF Tasklet, Dequeued
    <3> QED BY <3>1, TailFacts
  <2> QED BY <2>1, <2>2, <2>3
<1>7. CASE reorder_tid_timer
  BY <1>7, TimerFrame
<1>8. ASSUME NEW c \in Ctx, Handler(c) PROVE QueueType'
  BY <1>8, HandlerFrame
<1>9. CASE UNCHANGED vars
  BY <1>9 DEF vars
<1> QED BY <1>1, <1>2, <1>3, <1>4, <1>5, <1>6, <1>7, <1>8, <1>9, Steps DEF Usb

\* A context that is inside rx_path at a frame has the frame.
LEMMA SkbType ==
  ASSUME CtxType, NEW c \in Ctx, ctx[c].frames # <<>>
  PROVE  /\ ctx[c] \in CtxRec /\ ctx[c].frames \in Seq(RxFrame)
         /\ ctx[c].key \in 0 .. MaxKey /\ ctx[c].out \in Seq(Joined)
         /\ Skb(c) \in RxFrame /\ Skb(c).iv \in Nat /\ Tail(ctx[c].frames) \in Seq(RxFrame)
<1>1. /\ ctx[c] \in CtxRec /\ ctx[c].frames \in Seq(RxFrame)
      /\ ctx[c].key \in 0 .. MaxKey /\ ctx[c].out \in Seq(Joined)
  BY DEF CtxType, CtxRec
<1>2. Skb(c) \in RxFrame /\ Tail(ctx[c].frames) \in Seq(RxFrame)
  BY <1>1, TailFacts DEF Skb
<1>3. Skb(c).iv \in Nat
  BY <1>2 DEF RxFrame
<1> QED BY <1>1, <1>2, <1>3

\* Every frame that is checked is one.
LEMMA AtFrame ==
  ASSUME CtxType, NEW c \in Ctx, At(c)
  PROVE  ctx[c].frames # <<>>
  BY DEF CtxType, At

\* The reorder buffer releases frames it holds, and holds finitely many.
LEMMA InOrderType ==
  ASSUME NEW S, IsFiniteSet(S), NEW R \in SUBSET S, NEW q \in InOrder(R)
  PROVE  q \in Seq(S) /\ IsFiniteSet(S \ R) /\ S \ R \subseteq S
<1>1. IsFiniteSet(R) /\ IsFiniteSet(S \ R)
  BY FS_Subset, FS_Difference
<1>2. Cardinality(R) \in Nat
  BY <1>1, FS_CardinalityType
<1>3. q \in [1 .. Cardinality(R) -> S]
  BY DEF InOrder
<1>4. q \in Seq(S)
  BY <1>2, <1>3
<1> QED BY <1>1, <1>4

\* The duplicate check, the reorder buffer and the fragments hold frames.
LEMMA StaNext ==
  ASSUME StaType, QueueType, CtxType, [Next]_vars
  PROVE  StaType'
<1> USE DEF StaType, sta
<1>1. CASE Connection
  BY <1>1, ConnectionFrame
<1>2. CASE SetKeys
  BY <1>2, KeysFrame
<1>3. CASE Usb
  BY <1>3, UsbFrame
<1>4. CASE tasklet_start \/ tasklet_end \/ rx_data_drop
  BY <1>4 DEF tasklet_start, tasklet_end, rx_data_drop
<1>5. CASE rx_data
  <2> DEFINE f == Head(rx_queue)
  <2>1. f \in RxFrame
    BY <1>5, TailFacts DEF rx_data, Dequeued, QueueType
  <2>2. f.qos \in BOOLEAN
    BY <2>1, Zenon DEF RxFrame
  <2>3. SeqCtrl(f) \in Nat \X Nat
    BY <2>1 DEF RxFrame, SeqCtrl
  <2>4. rx_seq' \in [BOOLEAN -> Nat \X Nat]
    BY <1>5, <2>2, <2>3, ExceptType DEF rx_data
  <2>5. IsFiniteSet(parked \cup {f})
    BY FS_AddElement
  <2>6. parked' = parked \/ \E R \in SUBSET (parked \cup {f}) : parked' = (parked \cup {f}) \ R
    BY <1>5, Zenon DEF rx_data
  <2>7. parked' \in SUBSET RxFrame /\ IsFiniteSet(parked')
    <3>1. CASE parked' = parked
      BY <3>1
    <3>2. ASSUME NEW R \in SUBSET (parked \cup {f}), parked' = (parked \cup {f}) \ R
          PROVE  parked' \in SUBSET RxFrame /\ IsFiniteSet(parked')
      BY <2>1, <2>5, <3>2, FS_Difference
    <3> QED BY <2>6, <3>1, <3>2
  <2> QED BY <1>5, <2>4, <2>7, TaskletFrame DEF Tasklet
<1>6. CASE reorder_tid_timer
  <2>1. PICK R \in SUBSET parked : parked' = parked \ R
    BY <1>6 DEF reorder_tid_timer
  <2>2. parked' \in SUBSET RxFrame /\ IsFiniteSet(parked')
    BY <2>1, FS_Difference
  <2> QED BY <1>6, <2>2, TimerFrame
<1>7. ASSUME NEW c \in Ctx, Handler(c) PROVE StaType'
  <2>1. UNCHANGED <<rx_seq, parked>>
    BY <1>7, HandlerFrame
  <2>2. CASE defrag' \in {defrag, <<>>}
    BY <2>1, <2>2, EmptySeq
  <2>3. CASE defrag_queue(c)
    <3>1. Skb(c) \in RxFrame
      BY <2>3, AtFrame, SkbType DEF defrag_queue, Accepted
    <3>2. Cleared(Skb(c)) \in RxFrame
      <4>1. Skb(c).more \in BOOLEAN /\ Skb(c).qos \in BOOLEAN /\ Skb(c).prot \in BOOLEAN
        BY <3>1, Zenon DEF RxFrame
      <4> QED BY <3>1, <4>1 DEF Cleared, RxFrame
    <3>3. defrag' \in Seq(RxFrame)
      <4>1. Append(defrag, Cleared(Skb(c))) \in Seq(RxFrame)
        BY <3>2, AppendFacts
      <4>2. <<Cleared(Skb(c))>> \in Seq(RxFrame)
        BY <3>2
      <4> QED BY <2>3, <4>1, <4>2 DEF defrag_queue
    <3> QED BY <2>1, <3>3
  <2> QED BY <1>7, <2>2, <2>3 DEF Handler, handler_lock, find_key, crypto_drop,
             defrag_drop, complete, rx_deliver, handler_unlock
<1>8. CASE UNCHANGED vars
  BY <1>8 DEF vars
<1> QED BY <1>1, <1>2, <1>3, <1>4, <1>5, <1>6, <1>7, <1>8, Steps DEF Tasklet

\* One context moves to r, the others and their frames are left alone.
LEMMA CtxUpdate ==
  ASSUME CtxType, KeyType, KeyType', nkeys <= nkeys',
         NEW c \in Ctx, NEW r \in CtxRec, ctx' = [ctx EXCEPT ![c] = r],
         rx_path' \in {"free"} \cup Ctx,
         rx_path' = c <=> r.pc \in {"prep", "check"},
         \A d \in Ctx \ {c} : rx_path' = d <=> rx_path = d,
         r.key <= nkeys',
         r.pc = "check" => r.frames # <<>>,
         r.pc = "check" /\ Head(r.frames).prot => r.key # 0,
         r.pc \notin {"prep", "check"} => r.out = <<>>
  PROVE  CtxType'
<1>1. ctx' \in [Ctx -> CtxRec] /\ ctx'[c] = r /\ \A d \in Ctx \ {c} : ctx'[d] = ctx[d]
  BY DEF CtxType
<1>2. \A d \in Ctx : rx_path' = d <=> ctx'[d].pc \in {"prep", "check"}
  BY <1>1 DEF CtxType
<1>3. ASSUME NEW d \in Ctx
      PROVE  /\ ctx'[d].key <= nkeys'
             /\ ctx'[d].pc = "check" => ctx'[d].frames # <<>>
             /\ ctx'[d].pc = "check" /\ Head(ctx'[d].frames).prot => ctx'[d].key # 0
             /\ ctx'[d].pc \notin {"prep", "check"} => ctx'[d].out = <<>>
  <2>1. CASE d = c
    BY <1>1, <2>1
  <2>2. CASE d # c
    <3>1. ctx[d].key \in Int /\ nkeys \in Int /\ nkeys' \in Int
      BY RxPathAssumption DEF CtxType, CtxRec, KeyType
    <3> QED BY <1>1, <2>2, <3>1 DEF CtxType, Skb
  <2> QED BY <2>1, <2>2
<1> QED BY <1>1, <1>2, <1>3 DEF CtxType, Skb

\* The records the contexts move to.
GoneRec(c, out) == [pc |-> "prep", frames |-> Tail(ctx[c].frames), key |-> 0,
                    out |-> ctx[c].out \o out]
WaitRec(q) == [pc |-> "wait", frames |-> q, key |-> 0, out |-> <<>>]

\* Gone moves a context to GoneRec, ...
LEMMA GoneFacts ==
  ASSUME CtxType, NEW c \in Ctx, ctx[c].frames # <<>>, NEW out \in Seq(Joined)
  PROVE  /\ GoneRec(c, out) \in CtxRec
         /\ Gone(c, out) = [ctx EXCEPT ![c] = GoneRec(c, out)]
<1>1. /\ ctx \in [Ctx -> CtxRec] /\ ctx[c] \in CtxRec
      /\ Tail(ctx[c].frames) \in Seq(RxFrame) /\ ctx[c].out \in Seq(Joined)
      /\ ctx[c].frames \in Seq(RxFrame)
  BY SkbType DEF CtxType
<1>2. ctx[c].out \o out \in Seq(Joined)
  BY <1>1
<1>3. 0 \in 0 .. MaxKey
  BY RxPathAssumption
<1>4. GoneRec(c, out) \in CtxRec
  BY <1>1, <1>2, <1>3 DEF GoneRec, CtxRec
<1>5. Gone(c, out) = [ctx EXCEPT ![c] = GoneRec(c, out)]
  <2>1. DOMAIN Gone(c, out) = Ctx /\ \A d \in Ctx \ {c} : Gone(c, out)[d] = ctx[d]
    BY <1>1 DEF Gone
  <2>2. Gone(c, out)[c] = GoneRec(c, out)
    BY <1>1 DEF Gone, GoneRec, CtxRec
  <2>3. Gone(c, out) = [d \in Ctx |-> Gone(c, out)[d]]
    BY <1>1 DEF Gone
  <2> QED BY <1>1, <2>1, <2>2, <2>3
<1> QED BY <1>4, <1>5

\* ... a call of r92su_rx_handler to WaitRec, ...
LEMMA WaitFacts ==
  ASSUME NEW q \in Seq(RxFrame), NEW c \in Ctx, Handle(c, q)
  PROVE  WaitRec(q) \in CtxRec /\ ctx' = [ctx EXCEPT ![c] = WaitRec(q)]
<1>1. WaitRec(q) = [Idle("wait") EXCEPT !.frames = q]
  BY DEF WaitRec, Idle
<1>2. WaitRec(q) \in CtxRec
  BY RxPathAssumption, EmptySeq DEF WaitRec, CtxRec
<1> QED BY <1>1, <1>2 DEF Handle

\* ... and Idle is a context without frames.
LEMMA IdleFacts ==
  ASSUME NEW pc \in {"idle", "loop", "wait", "prep", "check"}
  PROVE  /\ Idle(pc) \in CtxRec /\ Idle(pc).pc = pc /\ Idle(pc).key = 0
         /\ Idle(pc).out = <<>> /\ Idle(pc).frames = <<>>
  BY RxPathAssumption, EmptySeq DEF Idle, CtxRec

\* What the tasklet and the timer do to a context: it goes on, ends, or calls
\* r92su_rx_handler with frames that were received.
LEMMA TaskletCtx ==
  ASSUME StaType, QueueType, Tasklet
  PROVE  \/ ctx' = ctx
         \/ /\ ctx["tasklet"].pc \in {"idle", "loop"}
            /\ \E pc \in {"idle", "loop"} : ctx' = [ctx EXCEPT !["tasklet"] = Idle(pc)]
         \/ /\ ctx["tasklet"].pc = "loop"
            /\ \E q \in Seq(RxFrame) : Handle("tasklet", q)
<1>1. CASE tasklet_start \/ tasklet_end \/ rx_data_drop
  BY <1>1 DEF tasklet_start, tasklet_end, rx_data_drop
<1>2. CASE rx_data
  <2> DEFINE f == Head(rx_queue)
  <2>1. ctx["tasklet"].pc = "loop" /\ rx_queue # <<>>
    BY <1>2, Zenon DEF rx_data, Dequeued
  <2>2. f \in RxFrame
    BY <2>1, TailFacts DEF QueueType
  <2>3. \/ ctx' = ctx \/ Handle("tasklet", <<f>>)
        \/ \E R \in SUBSET (parked \cup {f}) : \E q \in InOrder(R) : Handle("tasklet", q)
    BY <1>2, Zenon DEF rx_data
  <2>4. <<f>> \in Seq(RxFrame)
    BY <2>2
  <2>5. ASSUME NEW R \in SUBSET (parked \cup {f}), NEW q \in InOrder(R)
        PROVE  q \in Seq(RxFrame)
    <3>1. IsFiniteSet(parked \cup {f})
      BY FS_AddElement DEF StaType
    <3>2. q \in Seq(parked \cup {f})
      BY <3>1, InOrderType
    <3>3. parked \cup {f} \subseteq RxFrame
      BY <2>2 DEF StaType
    <3> QED BY <3>2, <3>3
  <2> QED BY <2>1, <2>3, <2>4, <2>5
<1> QED BY <1>1, <1>2 DEF Tasklet

\* The timer calls r92su_rx_handler with frames that were received.
LEMMA TimerCtx ==
  ASSUME StaType, reorder_tid_timer
  PROVE  ctx["timer"].pc = "idle" /\ \E q \in Seq(RxFrame) : Handle("timer", q)
<1>1. PICK R \in SUBSET parked : \E q \in InOrder(R) : Handle("timer", q)
  BY DEF reorder_tid_timer
<1>2. ASSUME NEW q \in InOrder(R) PROVE q \in Seq(RxFrame)
  <2>1. q \in Seq(parked)
    BY InOrderType DEF StaType
  <2> QED BY <2>1 DEF StaType
<1> QED BY <1>1, <1>2 DEF reorder_tid_timer

\* A frame with the fragments that waited for it.
LEMMA SkbsType ==
  ASSUME CtxType, StaType, NEW c \in Ctx, ctx[c].frames # <<>>
  PROVE  Skbs(c) \in Joined
<1>1. Skb(c) \in RxFrame /\ Skb(c).iv \in Nat /\ ctx[c].key \in 0 .. MaxKey
  BY SkbType
<1>2. Skb(c).prot \in BOOLEAN
  BY <1>1, Zenon DEF RxFrame
<1> DEFINE p == (IF Skb(c).frag = 0 THEN <<>> ELSE defrag) \o <<Skb(c)>>
<1>3. p \in Seq(RxFrame)
  BY <1>1, EmptySeq, AppendFacts DEF StaType
<1> HIDE DEF p
<1>4. Skbs(c) = [key |-> ctx[c].key, pn |-> Skb(c).iv, prot |-> Skb(c).prot, parts |-> p]
  BY DEF Skbs, p
<1> QED BY <1>1, <1>2, <1>3, <1>4 DEF Joined

\* Only the context that holds rx_path is inside r92su_rx_handler, with a frame
\* and its key when it checks one.
LEMMA CtxNext ==
  ASSUME CtxType, KeyType, KeyType', nkeys <= nkeys', StaType, QueueType, [Next]_vars
  PROVE  CtxType'
<1>0. /\ ctx \in [Ctx -> CtxRec] /\ "tasklet" \in Ctx /\ "timer" \in Ctx
      /\ "free" \notin Ctx /\ 0 <= nkeys' /\ 0 <= nkeys
  BY RxPathAssumption DEF CtxType, Ctx, KeyType
<1>1. CASE UNCHANGED <<rx_path, ctx>>
  <2>1. \A c \in Ctx : ctx[c].key \in Int /\ nkeys \in Int /\ nkeys' \in Int
    BY RxPathAssumption DEF CtxType, CtxRec, KeyType
  <2> QED BY <1>1, <2>1 DEF CtxType, Skb
<1>2. ASSUME NEW c \in Ctx, NEW pc \in {"idle", "loop"}, rx_path' = rx_path,
             ctx[c].pc \notin {"prep", "check"}, ctx' = [ctx EXCEPT ![c] = Idle(pc)]
      PROVE  CtxType'
  <2> DEFINE r == Idle(pc)
  <2>1. /\ r \in CtxRec /\ r.pc = pc /\ r.key = 0 /\ r.out = <<>>
    BY IdleFacts
  <2>2. rx_path # c
    BY <1>2 DEF CtxType
  <2> HIDE DEF r
  <2>3. ctx' = [ctx EXCEPT ![c] = r]
    BY <1>2 DEF r
  <2>4. rx_path' \in {"free"} \cup Ctx
    BY <1>2 DEF CtxType
  <2> QED BY <1>0, <1>2, <2>1, <2>2, <2>3, <2>4, CtxUpdate
<1>3. ASSUME NEW c \in Ctx, NEW q \in Seq(RxFrame), rx_path' = rx_path,
             ctx[c].pc \notin {"prep", "check"}, Handle(c, q)
      PROVE  CtxType'
  <2> DEFINE r == WaitRec(q)
  <2>1. r \in CtxRec /\ ctx' = [ctx EXCEPT ![c] = r]
    BY <1>3, WaitFacts
  <2>2. r.pc = "wait" /\ r.key = 0 /\ r.out = <<>>
    BY DEF WaitRec
  <2>3. rx_path # c /\ rx_path' \in {"free"} \cup Ctx
    BY <1>3 DEF CtxType
  <2> HIDE DEF r
  <2> QED BY <1>0, <1>3, <2>1, <2>2, <2>3, CtxUpdate
<1>4. ASSUME NEW c \in Ctx, NEW out \in Seq(Joined), rx_path' = rx_path,
             ctx[c].pc \in {"prep", "check"}, ctx[c].frames # <<>>,
             ctx' = Gone(c, out)
      PROVE  CtxType'
  <2> DEFINE r == GoneRec(c, out)
  <2>1. r \in CtxRec /\ ctx' = [ctx EXCEPT ![c] = r]
    BY <1>4, GoneFacts
  <2>2. r.pc = "prep" /\ r.key = 0
    BY DEF GoneRec
  <2>3. rx_path = c /\ rx_path' \in {"free"} \cup Ctx
    BY <1>4 DEF CtxType
  <2> HIDE DEF r
  <2> QED BY <1>0, <1>4, <2>1, <2>2, <2>3, CtxUpdate
<1>5. CASE Connection
  BY <1>1, <1>5, ConnectionFrame
<1>6. CASE SetKeys
  BY <1>1, <1>6, KeysFrame
<1>7. CASE Usb
  BY <1>1, <1>7, UsbFrame
<1>8. CASE Tasklet
  <2>1. rx_path' = rx_path
    BY <1>8, TaskletFrame
  <2> QED BY <1>0, <1>1, <1>2, <1>3, <1>8, <2>1, TaskletCtx
<1>9. CASE reorder_tid_timer
  <2>1. rx_path' = rx_path
    BY <1>9, TimerFrame
  <2> QED BY <1>0, <1>3, <1>9, <2>1, TimerCtx
<1>10. ASSUME NEW c \in Ctx, Handler(c) PROVE CtxType'
  <2>0. ctx[c] \in CtxRec
    BY <1>0
  <2>1. CASE handler_lock(c)
    <3> DEFINE r == [ctx[c] EXCEPT !.pc = "prep"]
    <3>1. /\ ctx' = [ctx EXCEPT ![c] = r] /\ r \in CtxRec
          /\ r.pc = "prep" /\ r.key = ctx[c].key
      BY <2>0, <2>1 DEF handler_lock, CtxRec
    <3>2. rx_path' = c /\ rx_path = "free" /\ nkeys' = nkeys
      BY <1>10, <2>1, HandlerFrame DEF handler_lock, LockFree, keys
    <3>3. r.key <= nkeys'
      BY <3>1, <3>2 DEF CtxType
    <3> HIDE DEF r
    <3> QED BY <1>0, <3>1, <3>2, <3>3, CtxUpdate
  <2>2. CASE find_key(c)
    <3>1. /\ rx_path' = rx_path /\ nkeys' = nkeys
          /\ ctx[c].pc = "prep" /\ ctx[c].frames # <<>>
      BY <1>10, <2>2, HandlerFrame DEF find_key, keys
    <3>2. CASE ctx' = Gone(c, <<>>)
      BY <1>4, <3>1, <3>2, EmptySeq
    <3>3. CASE ctx' # Gone(c, <<>>)
      <4> DEFINE f == Skb(c)
                 k == IF f.prot THEN FoundKey(f) ELSE 0
                 r == [ctx[c] EXCEPT !.pc = "check", !.key = k]
      <4>1. f \in RxFrame
        BY <3>1, SkbType
      <4>2. f.idx \in Slot /\ "sta" \in Slot
        BY <4>1 DEF RxFrame, Slot
      <4>3. FoundKey(f) \in 0 .. MaxKey /\ FoundKey(f) <= nkeys
        BY <4>2 DEF FoundKey, KeyType
      <4>4. k \in 0 .. MaxKey /\ k <= nkeys'
        BY <1>0, <3>1, <4>3, RxPathAssumption
      <4>5. ctx' = [ctx EXCEPT ![c].pc = "check", ![c].key = k]
        BY <2>2, <3>3 DEF find_key
      <4>6. ~(f.prot /\ FoundKey(f) = 0)
        BY <2>2, <3>3 DEF find_key
      <4>7. f.prot => k # 0
        BY <4>6
      <4> HIDE DEF k, f
      <4>8. ctx' = [ctx EXCEPT ![c] = r]
        <5>1. DOMAIN ctx' = Ctx /\ \A d \in Ctx \ {c} : ctx'[d] = ctx[d]
          BY <1>0, <4>5
        <5>2. ctx'[c] = r
          BY <1>0, <2>0, <4>5 DEF CtxRec
        <5>3. ctx' = [d \in Ctx |-> ctx'[d]]
          BY <1>0, <4>5
        <5> QED BY <1>0, <5>1, <5>2, <5>3
      <4>9. r \in CtxRec /\ r.pc = "check" /\ r.key = k /\ r.frames = ctx[c].frames
        BY <2>0, <4>4 DEF CtxRec
      <4>10. Head(r.frames).prot => r.key # 0
        BY <4>7, <4>9 DEF f, Skb
      <4>11. rx_path = c /\ rx_path' \in {"free"} \cup Ctx
        BY <3>1 DEF CtxType
      <4> HIDE DEF r
      <4> QED BY <1>0, <3>1, <4>4, <4>8, <4>9, <4>10, <4>11, CtxUpdate
    <3> QED BY <3>2, <3>3
  <2>3. CASE crypto_drop(c) \/ defrag_queue(c) \/ defrag_drop(c)
    <3>1. At(c) /\ ctx' = Gone(c, <<>>) /\ rx_path' = rx_path
      BY <2>3 DEF crypto_drop, defrag_queue, defrag_drop, Accepted, Checked
    <3> QED BY <1>4, <3>1, AtFrame, EmptySeq DEF At
  <2>4. CASE complete(c)
    <3>1. At(c) /\ ctx' = Gone(c, <<Skbs(c)>>) /\ rx_path' = rx_path
      BY <2>4 DEF complete, Accepted, Checked
    <3>2. Skbs(c) \in Joined
      BY <3>1, AtFrame, SkbsType
    <3>3. <<Skbs(c)>> \in Seq(Joined)
      BY <3>2
    <3> QED BY <1>4, <3>1, <3>3, AtFrame DEF At
  <2>5. CASE rx_deliver(c)
    <3> DEFINE r == [ctx[c] EXCEPT !.out = Tail(ctx[c].out)]
    <3>1. /\ rx_path' = rx_path /\ nkeys' = nkeys /\ ctx[c].pc = "prep"
          /\ ctx[c].out # <<>> /\ ctx' = [ctx EXCEPT ![c] = r]
      BY <1>10, <2>5, HandlerFrame DEF rx_deliver, keys
    <3>2. ctx[c].out \in Seq(Joined)
      BY <2>0 DEF CtxRec
    <3>3. Tail(ctx[c].out) \in Seq(Joined)
      BY <3>1, <3>2, TailFacts
    <3>4. r \in CtxRec /\ r.pc = "prep" /\ r.key = ctx[c].key
      BY <2>0, <3>1, <3>3 DEF CtxRec
    <3>5. rx_path = c /\ rx_path' \in {"free"} \cup Ctx /\ r.key <= nkeys'
      BY <3>1, <3>4 DEF CtxType
    <3> HIDE DEF r
    <3> QED BY <1>0, <3>1, <3>4, <3>5, CtxUpdate
  <2>6. CASE handler_unlock(c)
    <3> DEFINE pc == IF c = "tasklet" THEN "loop" ELSE "idle"
               r == Idle(pc)
    <3>1. pc \in {"idle", "loop"} /\ pc \notin {"prep", "check"}
      OBVIOUS
    <3>2. r \in CtxRec /\ r.pc = pc /\ r.key = 0 /\ r.out = <<>>
      BY <3>1, IdleFacts
    <3>3. rx_path' = "free" /\ rx_path = c /\ ctx' = [ctx EXCEPT ![c] = r]
      BY <2>6 DEF handler_unlock, CtxType
    <3> HIDE DEF r, pc
    <3> QED BY <1>0, <3>1, <3>2, <3>3, CtxUpdate
  <2> QED BY <1>10, <2>1, <2>2, <2>3, <2>4, <2>5, <2>6 DEF Handler
<1>11. CASE UNCHANGED vars
  BY <1>1, <1>11 DEF vars
<1> QED BY <1>5, <1>6, <1>7, <1>8, <1>9, <1>10, <1>11, Steps

\* What is delivered are frames.
LEMMA OutNext ==
  ASSUME OutType, CtxType, [Next]_vars
  PROVE  OutType'
<1>1. CASE delivered' = delivered
  BY <1>1 DEF OutType
<1>2. ASSUME NEW c \in Ctx, rx_deliver(c) PROVE OutType'
  <2>1. ctx[c].out \in Seq(Joined)
    BY DEF CtxType, CtxRec
  <2>2. Head(ctx[c].out) \in Joined
    BY <1>2, <2>1, TailFacts DEF rx_deliver
  <2>3. \/ delivered' = delivered
        \/ delivered' = Append(delivered, Head(ctx[c].out))
    BY <1>2 DEF rx_deliver
  <2> QED BY <2>2, <2>3, AppendFacts DEF OutType
<1>3. ASSUME NEW c \in Ctx, Handler(c), ~rx_deliver(c) PROVE delivered' = delivered
  BY <1>3 DEF Handler, handler_lock, find_key, crypto_drop, defrag_queue, defrag_drop,
              complete, handler_unlock, Checked
<1> QED BY <1>1, <1>2, <1>3, Steps, ConnectionFrame, KeysFrame, UsbFrame, TaskletFrame,
           TimerFrame DEF vars

-----------------------------------------------------------------------------
(* Fragments that wait *)

\* Every step keeps the fragments that wait a row that was begun.
LEMMA DefragNext ==
  ASSUME CtxType, StaType, DefragInv, [Next]_vars
  PROVE  DefragInv'
<1>1. CASE defrag' = defrag
  BY <1>1 DEF DefragInv
<1>2. CASE defrag' = <<>>
  BY <1>2 DEF DefragInv
<1>3. ASSUME NEW c \in Ctx, defrag_queue(c) PROVE DefragInv'
  <2> DEFINE e == Cleared(Skb(c))
  <2>1. Skb(c) \in RxFrame
    BY <1>3, AtFrame, SkbType DEF defrag_queue, Accepted
  <2>2. e \in RxFrame /\ e.frag = Skb(c).frag /\ e.more
    <3>1. Skb(c).more /\ Skb(c).more \in BOOLEAN /\ Skb(c).qos \in BOOLEAN
          /\ Skb(c).prot \in BOOLEAN
      BY <1>3, <2>1, Zenon DEF RxFrame, defrag_queue
    <3> QED BY <2>1, <3>1 DEF Cleared, RxFrame
  <2> HIDE DEF e
  <2>3. CASE Skb(c).frag = 0 /\ defrag' = <<e>>
    BY <2>2, <2>3 DEF DefragInv
  <2>4. CASE defrag # <<>> /\ defrag' = Append(defrag, e)
    <3>1. defrag \in Seq(RxFrame)
      BY DEF StaType
    <3> QED BY <2>2, <2>4, <3>1, AppendFacts DEF DefragInv
  <2> QED BY <1>3, <2>3, <2>4 DEF defrag_queue, e, Fits, Match
<1>4. ASSUME NEW c \in Ctx, Handler(c), ~defrag_queue(c) PROVE defrag' \in {defrag, <<>>}
  BY <1>4 DEF Handler, handler_lock, find_key, crypto_drop, defrag_drop, complete,
              rx_deliver, handler_unlock, sta
<1> QED BY <1>1, <1>2, <1>3, <1>4, Steps, ConnectionFrame, KeysFrame, UsbFrame,
           TaskletFrame, TimerFrame DEF vars, sta

-----------------------------------------------------------------------------
(* From acceptance to delivery *)

\* Neither a new key nor a higher packet number spoils what is known of a frame.
LEMMA SoundStays ==
  ASSUME NEW d \in Joined, NEW ci, NEW n \in 0 .. MaxKey, NEW m \in 0 .. MaxKey, n <= m,
         NEW pn \in [1 .. MaxKey -> Nat], NEW qn \in [1 .. MaxKey -> Nat],
         \A k \in 1 .. n : pn[k] <= qn[k],
         Sound(d, n, pn, ci)
  PROVE  Sound(d, m, qn, ci)
<1>1. d.key \in 0 .. MaxKey /\ d.pn \in Nat /\ MaxKey \in Nat
  BY RxPathAssumption DEF Joined
<1>2. Numbered(d.key, ci) => d.pn <= qn[d.key]
  BY <1>1 DEF Sound, Numbered
<1>3. d.key <= m
  BY <1>1 DEF Sound
<1> QED BY <1>2, <1>3 DEF Sound

\* The packet number of a key only grows.
LEMMA PnGrows ==
  ASSUME KeyType, CtxType, [Next]_vars
  PROVE  cipher' = cipher /\ \A k \in 1 .. nkeys : rx_pn[k] <= rx_pn'[k]
<1>0. /\ MaxKey \in Nat /\ \A k \in 1 .. nkeys : k \in 1 .. MaxKey /\ rx_pn[k] \in Nat
  BY RxPathAssumption DEF KeyType
<1>1. cipher' = cipher
  <2>1. ASSUME NEW c \in Ctx, Handler(c) PROVE cipher' = cipher
    BY <2>1, HandlerFrame DEF link
  <2> QED BY <2>1, Steps, ConnectionFrame, KeysFrame, UsbFrame, TaskletFrame, TimerFrame
             DEF link, vars
<1>2. CASE rx_pn' = rx_pn
  BY <1>0, <1>1, <1>2
<1>3. ASSUME NEW s \in Slot, add_key(s)
      PROVE  \A k \in 1 .. nkeys : rx_pn[k] <= rx_pn'[k]
  BY <1>0, <1>3 DEF add_key, KeyType
<1>4. ASSUME NEW c \in Ctx, complete(c)
      PROVE  \A k \in 1 .. nkeys : rx_pn[k] <= rx_pn'[k]
  <2>1. ctx[c].frames # <<>> /\ IvOk(Skb(c), ctx[c].key) /\ SetPn(Skb(c), ctx[c].key)
    BY <1>4, AtFrame DEF complete, Accepted
  <2>2. Skb(c).iv \in Nat /\ ctx[c].key \in 0 .. MaxKey
    BY <2>1, SkbType
  <2> QED BY <1>0, <2>1, <2>2 DEF IvOk, SetPn, Counted, KeyType
<1>5. ASSUME NEW c \in Ctx, Handler(c), ~complete(c) PROVE rx_pn' = rx_pn
  BY <1>5 DEF Handler, handler_lock, find_key, crypto_drop, defrag_queue, defrag_drop,
              rx_deliver, handler_unlock, sta
<1>6. SetKeys => rx_pn' = rx_pn \/ \E s \in Slot : add_key(s)
  BY DEF SetKeys, del_key, sta
<1> QED BY <1>1, <1>2, <1>3, <1>4, <1>5, <1>6, Steps, ConnectionFrame, UsbFrame,
           TaskletFrame, TimerFrame DEF vars, sta

\* A frame that is complete is known as Sound says, and comes after every frame
\* of its key that is known.
LEMMA CompleteSound ==
  ASSUME KeyType, StaType, CtxType, DefragInv, NEW c \in Ctx, complete(c)
  PROVE  /\ Skbs(c) \in Joined
         /\ Sound(Skbs(c), nkeys, rx_pn', cipher)
         /\ \A d \in Joined : Sound(d, nkeys, rx_pn, cipher) => Before(d, Skbs(c), cipher)
<1> DEFINE e == Skbs(c)
           f == Skb(c)
           k == ctx[c].key
<1>1. /\ ctx[c].frames # <<>> /\ IvOk(f, k) /\ MicOk(f, k) /\ SetPn(f, k)
      /\ ~f.more /\ (f.frag = 0 \/ Fits(c))
  BY AtFrame DEF complete, Accepted
<1>2. f \in RxFrame /\ f.iv \in Nat /\ k \in 0 .. MaxKey /\ e \in Joined
  BY <1>1, SkbType, SkbsType
<1>3. e.key = k /\ e.pn = f.iv
  BY DEF Skbs
<1>4. f.frag = 0 => e.parts = <<f>>
  BY <1>2, EmptySeq, AppendFacts DEF Skbs
<1>5. Whole(e.parts)
  <2>1. CASE f.frag = 0
    <3>1. DOMAIN <<f>> = {1} /\ <<f>>[1] = f /\ Len(<<f>>) = 1 /\ <<f>> # <<>>
      OBVIOUS
    <3>2. DOMAIN e.parts = {1} /\ e.parts[1] = f /\ Len(e.parts) = 1 /\ e.parts # <<>>
      BY <1>4, <2>1, <3>1
    <3> HIDE DEF e, f
    <3> QED BY <1>1, <2>1, <3>2 DEF Whole
  <2>2. CASE f.frag # 0
    <3>1. defrag # <<>> /\ e.parts = Append(defrag, f)
      BY <1>1, <2>2, AppendFacts, <1>2 DEF Fits, Match, Skbs, StaType
    <3>2. defrag \in Seq(RxFrame)
      BY DEF StaType
    <3> QED BY <1>1, <1>2, <3>1, <3>2, AppendFacts DEF Whole, DefragInv
  <2> QED BY <2>1, <2>2
<1>6. k <= nkeys /\ (Counted(k) => rx_pn'[k] = f.iv)
  BY <1>1, <1>2, RxPathAssumption DEF CtxType, SetPn, Counted, KeyType
<1>7. e.prot => k # 0
  BY DEF Skbs, CtxType, complete, Accepted, At
<1>8. cipher = "tkip" /\ e.prot => \A j \in DOMAIN e.parts : e.parts[j].mic = k
  BY <1>1, <1>4, <1>7 DEF MicOk
<1>9. Sound(e, nkeys, rx_pn', cipher)
  BY <1>2, <1>3, <1>5, <1>6, <1>8 DEF Sound, Numbered, Counted
<1>10. ASSUME NEW d \in Joined, Sound(d, nkeys, rx_pn, cipher)
       PROVE  Before(d, e, cipher)
  <2>1. d.pn \in Nat /\ d.key \in 0 .. MaxKey
    BY <1>10 DEF Joined
  <2>2. Numbered(k, cipher) => rx_pn[k] \in Nat /\ rx_pn[k] < f.iv
    BY <1>1, <1>2, RxPathAssumption DEF IvOk, Counted, Numbered, KeyType
  <2> QED BY <1>2, <1>3, <1>10, <2>1, <2>2 DEF Before, Sound
<1> QED BY <1>2, <1>9, <1>10

\* How the frames on their way out change: not at all, by one that is complete,
\* or by one that is delivered or refused.
OutKept == /\ delivered' = delivered
           /\ \A c \in Ctx : ctx'[c].out \in {ctx[c].out, <<>>}
OutGrows(c) == /\ complete(c) /\ delivered' = delivered
               /\ ctx'[c].out = Append(ctx[c].out, Skbs(c))
               /\ \A d \in Ctx \ {c} : ctx'[d].out = ctx[d].out
OutLeaves(c) == /\ ctx[c].out # <<>> /\ ctx'[c].out = Tail(ctx[c].out)
                /\ \A d \in Ctx \ {c} : ctx[d].out = <<>> /\ ctx'[d].out = <<>>
                /\ delivered' \in {delivered, Append(delivered, Head(ctx[c].out))}

\* Every step changes the frames on their way out in one of these ways.
LEMMA OutSteps ==
  ASSUME CtxType, StaType, QueueType, [Next]_vars
  PROVE  OutKept \/ \E c \in Ctx : OutGrows(c) \/ OutLeaves(c)
<1>0. /\ ctx \in [Ctx -> CtxRec] /\ "tasklet" \in Ctx /\ "timer" \in Ctx
      /\ \A c \in Ctx : ctx[c] \in CtxRec /\ ctx[c].out \in Seq(Joined)
  BY DEF CtxType, Ctx, CtxRec
<1>1. CASE UNCHANGED <<ctx, delivered>>
  BY <1>1 DEF OutKept
<1>2. ASSUME NEW c \in Ctx, NEW pc \in {"idle", "loop"}, delivered' = delivered,
             ctx' = [ctx EXCEPT ![c] = Idle(pc)]
      PROVE  OutKept
  BY <1>0, <1>2, IdleFacts DEF OutKept
<1>3. ASSUME NEW c \in Ctx, NEW q \in Seq(RxFrame), delivered' = delivered, Handle(c, q)
      PROVE  OutKept
  <2>1. ctx' = [ctx EXCEPT ![c] = WaitRec(q)]
    BY <1>3, WaitFacts
  <2>2. WaitRec(q).out = <<>>
    BY DEF WaitRec
  <2> QED BY <1>0, <1>3, <2>1, <2>2 DEF OutKept
<1>4. ASSUME NEW c \in Ctx, delivered' = delivered, ctx[c].frames # <<>>,
             ctx' = Gone(c, <<>>)
      PROVE  OutKept
  <2>1. ctx' = [ctx EXCEPT ![c] = GoneRec(c, <<>>)]
    BY <1>4, GoneFacts, EmptySeq
  <2>2. GoneRec(c, <<>>).out = ctx[c].out
    BY <1>0 DEF GoneRec
  <2> QED BY <1>0, <1>4, <2>1, <2>2 DEF OutKept
<1>5. CASE Connection \/ SetKeys \/ Usb
  BY <1>1, <1>5, ConnectionFrame, KeysFrame, UsbFrame
<1>6. CASE Tasklet
  BY <1>0, <1>1, <1>2, <1>3, <1>6, TaskletFrame, TaskletCtx
<1>7. CASE reorder_tid_timer
  BY <1>0, <1>3, <1>7, TimerFrame, TimerCtx
<1>8. ASSUME NEW c \in Ctx, Handler(c) PROVE OutKept \/ OutGrows(c) \/ OutLeaves(c)
  <2>1. CASE handler_lock(c)
    BY <1>0, <2>1 DEF handler_lock, OutKept, CtxRec
  <2>2. CASE find_key(c)
    <3>1. CASE ctx' = Gone(c, <<>>)
      BY <1>4, <2>2, <3>1 DEF find_key
    <3>2. CASE ctx' # Gone(c, <<>>)
      <4>1. PICK k : ctx' = [ctx EXCEPT ![c].pc = "check", ![c].key = k]
        BY <2>2, <3>2 DEF find_key
      <4> QED BY <1>0, <2>2, <4>1 DEF find_key, OutKept, CtxRec
    <3> QED BY <3>1, <3>2
  <2>3. CASE crypto_drop(c) \/ defrag_queue(c) \/ defrag_drop(c)
    <3>1. At(c) /\ ctx' = Gone(c, <<>>) /\ delivered' = delivered
      BY <2>3 DEF crypto_drop, defrag_queue, defrag_drop, Accepted, Checked
    <3> QED BY <1>4, <3>1, AtFrame
  <2>4. CASE complete(c)
    <3>1. At(c) /\ ctx' = Gone(c, <<Skbs(c)>>) /\ delivered' = delivered
      BY <2>4 DEF complete, Accepted, Checked
    <3>2. Skbs(c) \in Joined /\ ctx[c].frames # <<>>
      BY <3>1, AtFrame, SkbsType
    <3>3. <<Skbs(c)>> \in Seq(Joined)
      BY <3>2
    <3>4. ctx' = [ctx EXCEPT ![c] = GoneRec(c, <<Skbs(c)>>)]
      BY <3>1, <3>2, <3>3, GoneFacts
    <3>5. GoneRec(c, <<Skbs(c)>>).out = Append(ctx[c].out, Skbs(c))
      BY <1>0, <3>2, AppendFacts DEF GoneRec
    <3> QED BY <1>0, <2>4, <3>1, <3>4, <3>5 DEF OutGrows
  <2>5. CASE rx_deliver(c)
    <3>1. \A d \in Ctx \ {c} : ctx[d].out = <<>>
      BY <2>5 DEF rx_deliver, CtxType
    <3>2. /\ ctx'[c].out = Tail(ctx[c].out)
          /\ \A d \in Ctx \ {c} : ctx'[d] = ctx[d]
      BY <1>0, <2>5 DEF rx_deliver, CtxRec
    <3>3. /\ ctx[c].out # <<>>
          /\ delivered' \in {delivered, Append(delivered, Head(ctx[c].out))}
      BY <2>5 DEF rx_deliver
    <3> QED BY <3>1, <3>2, <3>3 DEF OutLeaves
  <2>6. CASE handler_unlock(c)
    <3>1. (IF c = "tasklet" THEN "loop" ELSE "idle") \in {"idle", "loop"}
      OBVIOUS
    <3> QED BY <1>2, <2>6, <3>1 DEF handler_unlock
  <2> QED BY <1>8, <2>1, <2>2, <2>3, <2>4, <2>5, <2>6 DEF Handler
<1>9. CASE UNCHANGED vars
  BY <1>1, <1>9 DEF vars
<1> QED BY <1>5, <1>6, <1>7, <1>8, <1>9, Steps

\* Every step keeps what is known of the frames.
LEMMA SoundNext ==
  ASSUME KeyType, KeyType', nkeys <= nkeys', StaType, QueueType, CtxType, OutType,
         DefragInv, SoundInv, [Next]_vars
  PROVE  SoundInv'
<1>0. /\ delivered \in Seq(Joined) /\ \A c \in Ctx : ctx[c].out \in Seq(Joined)
  BY DEF OutType, CtxType, CtxRec
<1>1. \A d \in Joined : Sound(d, nkeys, rx_pn, cipher) => Sound(d, nkeys', rx_pn', cipher')
  <2>1. cipher' = cipher /\ \A k \in 1 .. nkeys : rx_pn[k] <= rx_pn'[k]
    BY PnGrows
  <2>2. /\ nkeys \in 0 .. MaxKey /\ nkeys' \in 0 .. MaxKey
        /\ rx_pn \in [1 .. MaxKey -> Nat] /\ rx_pn' \in [1 .. MaxKey -> Nat]
    BY DEF KeyType
  <2> QED BY <2>1, <2>2, SoundStays
<1>2. /\ \A i \in DOMAIN delivered : Sound(delivered[i], nkeys', rx_pn', cipher')
      /\ \A c \in Ctx : \A i \in DOMAIN ctx[c].out :
            Sound(ctx[c].out[i], nkeys', rx_pn', cipher')
  BY <1>0, <1>1 DEF SoundInv
<1>3. CASE OutKept
  BY <1>2, <1>3 DEF OutKept, SoundInv
<1>4. ASSUME NEW c \in Ctx, OutGrows(c) PROVE SoundInv'
  <2>1. Skbs(c) \in Joined /\ Sound(Skbs(c), nkeys, rx_pn', cipher)
    BY <1>4, CompleteSound DEF OutGrows
  <2>2. cipher' = cipher /\ nkeys' = nkeys
    BY <1>4, PnGrows DEF OutGrows, complete, Checked, keys
  <2>3. \A i \in DOMAIN ctx'[c].out : Sound(ctx'[c].out[i], nkeys', rx_pn', cipher')
    BY <1>0, <1>2, <1>4, <2>1, <2>2, AppendFacts DEF OutGrows
  <2> QED BY <1>2, <1>4, <2>3 DEF OutGrows, SoundInv
<1>5. ASSUME NEW c \in Ctx, OutLeaves(c) PROVE SoundInv'
  <2>1. /\ Head(ctx[c].out) \in Joined
        /\ Sound(Head(ctx[c].out), nkeys', rx_pn', cipher')
    BY <1>0, <1>2, <1>5, TailFacts DEF OutLeaves
  <2>2. \A i \in DOMAIN ctx'[c].out : Sound(ctx'[c].out[i], nkeys', rx_pn', cipher')
    BY <1>0, <1>2, <1>5, TailFacts DEF OutLeaves
  <2>3. \A d \in Ctx : \A i \in DOMAIN ctx'[d].out :
           Sound(ctx'[d].out[i], nkeys', rx_pn', cipher')
    BY <1>2, <1>5, <2>2 DEF OutLeaves
  <2>4. \A i \in DOMAIN delivered' : Sound(delivered'[i], nkeys', rx_pn', cipher')
    BY <1>0, <1>2, <1>5, <2>1, AppendFacts DEF OutLeaves
  <2> QED BY <2>3, <2>4 DEF SoundInv
<1> QED BY <1>3, <1>4, <1>5, OutSteps

\* Every step keeps the packet numbers of one key rising.
LEMMA OrderNext ==
  ASSUME KeyType, StaType, QueueType, CtxType, OutType, DefragInv, SoundInv, OrderInv,
         [Next]_vars
  PROVE  OrderInv'
<1>0. /\ delivered \in Seq(Joined) /\ \A c \in Ctx : ctx[c].out \in Seq(Joined)
      /\ cipher' = cipher
  BY PnGrows DEF OutType, CtxType, CtxRec
<1>1. CASE OutKept
  BY <1>0, <1>1 DEF OutKept, OrderInv, Rising
<1>2. ASSUME NEW c \in Ctx, OutGrows(c) PROVE OrderInv'
  <2> DEFINE e == Skbs(c)
  <2>1. /\ e \in Joined
        /\ \A d \in Joined : Sound(d, nkeys, rx_pn, cipher) => Before(d, e, cipher)
    BY <1>2, CompleteSound DEF OutGrows
  <2> HIDE DEF e
  <2>2. /\ \A i \in DOMAIN delivered : Before(delivered[i], e, cipher)
        /\ \A i \in DOMAIN ctx[c].out : Before(ctx[c].out[i], e, cipher)
    BY <1>0, <2>1 DEF SoundInv
  <2>3. ctx'[c].out = Append(ctx[c].out, e)
    BY <1>2 DEF OutGrows, e
  <2>4. Rising(ctx'[c].out, cipher)
    BY <1>0, <2>1, <2>2, <2>3, AppendFacts DEF OrderInv, Rising
  <2>5. \A i \in DOMAIN delivered, j \in DOMAIN ctx'[c].out :
           Before(delivered[i], ctx'[c].out[j], cipher)
    BY <1>0, <2>1, <2>2, <2>3, AppendFacts DEF OrderInv
  <2> QED BY <1>0, <1>2, <2>4, <2>5 DEF OutGrows, OrderInv
<1>3. ASSUME NEW c \in Ctx, OutLeaves(c) PROVE OrderInv'
  <2> DEFINE h == Head(ctx[c].out)
             t == Tail(ctx[c].out)
  <2>1. /\ h \in Joined /\ t \in Seq(Joined) /\ h = ctx[c].out[1] /\ 1 \in DOMAIN ctx[c].out
        /\ \A i \in DOMAIN t : /\ i \in Nat /\ 1 < i + 1 /\ i + 1 \in DOMAIN ctx[c].out
                               /\ t[i] = ctx[c].out[i + 1]
    BY <1>0, <1>3, TailFacts DEF OutLeaves
  <2> HIDE DEF h, t
  <2>2. Rising(t, cipher) /\ \A i \in DOMAIN t : Before(h, t[i], cipher)
    <3>1. \A i, j \in DOMAIN ctx[c].out :
             i < j => Before(ctx[c].out[i], ctx[c].out[j], cipher)
      BY DEF OrderInv, Rising
    <3>2. \A i \in DOMAIN t : Before(h, t[i], cipher)
      BY <2>1, <3>1
    <3>3. ASSUME NEW i \in DOMAIN t, NEW j \in DOMAIN t, i < j
          PROVE  Before(t[i], t[j], cipher)
      <4>1. i + 1 < j + 1
        BY <2>1, <3>3
      <4> QED BY <2>1, <3>1, <4>1
    <3> QED BY <3>2, <3>3 DEF Rising
  <2>3. /\ \A i \in DOMAIN delivered : Before(delivered[i], h, cipher)
        /\ \A i \in DOMAIN delivered, j \in DOMAIN t : Before(delivered[i], t[j], cipher)
    BY <2>1 DEF OrderInv
  <2>4. delivered' \in {delivered, Append(delivered, h)} /\ ctx'[c].out = t
    BY <1>3 DEF OutLeaves, h, t
  <2>5. Rising(delivered', cipher)
    <3>1. Rising(delivered, cipher)
      BY DEF OrderInv
    <3>2. Rising(Append(delivered, h), cipher)
      BY <1>0, <2>1, <2>3, <3>1, AppendFacts DEF Rising
    <3> QED BY <2>4, <3>1, <3>2
  <2>6. \A i \in DOMAIN delivered', j \in DOMAIN t : Before(delivered'[i], t[j], cipher)
    <3>1. \A i \in DOMAIN Append(delivered, h), j \in DOMAIN t :
             Before(Append(delivered, h)[i], t[j], cipher)
      <4>1. \A i \in DOMAIN Append(delivered, h) :
               \/ Append(delivered, h)[i] = h
               \/ i \in DOMAIN delivered /\ Append(delivered, h)[i] = delivered[i]
        BY <1>0, <2>1, AppendFacts
      <4> QED BY <2>2, <2>3, <4>1
    <3> QED BY <2>3, <2>4, <3>1
  <2>7. \A d \in Ctx \ {c} : ctx'[d].out = <<>>
    BY <1>3 DEF OutLeaves
  <2>8. \A d \in Ctx : Rising(ctx'[d].out, cipher)
    BY <2>2, <2>4, <2>7 DEF Rising
  <2>9. \A d \in Ctx : \A i \in DOMAIN delivered', j \in DOMAIN ctx'[d].out :
           Before(delivered'[i], ctx'[d].out[j], cipher)
    BY <2>4, <2>6, <2>7
  <2> QED BY <1>0, <2>5, <2>8, <2>9 DEF OrderInv
<1> QED BY <1>1, <1>2, <1>3, OutSteps

-----------------------------------------------------------------------------
(* Frames in rx_queue *)

\* r92su_rx schedules the tasklet for what it queued, and the tasklet ends with
\* an empty rx_queue.
LEMMA StrandedNext == CtxType /\ NoStrandedFrame /\ [Next]_vars => NoStrandedFrame'
<1> SUFFICES ASSUME CtxType, NoStrandedFrame, [Next]_vars PROVE NoStrandedFrame'
  OBVIOUS
<1>0. ctx \in [Ctx -> CtxRec] /\ "tasklet" \in Ctx
  BY DEF CtxType, Ctx
<1> USE DEF NoStrandedFrame
<1>1. CASE Connection
  BY <1>1, ConnectionFrame DEF usb, queue
<1>2. CASE SetKeys
  BY <1>2, KeysFrame DEF usb, queue
<1>3. CASE rx_usb_cb
  BY <1>3 DEF rx_usb_cb
<1>4. CASE rx_queue_data \/ rx_skip_data \/ rx_event
  BY <1>4 DEF rx_queue_data, rx_skip_data, rx_event, Parse
<1>5. CASE rx_clipped
  BY <1>5 DEF rx_clipped
<1>6. CASE rx_done
  BY <1>6 DEF rx_done
<1>7. CASE tasklet_start
  BY <1>0, <1>7 DEF tasklet_start, Idle
<1>8. CASE tasklet_end
  BY <1>8 DEF tasklet_end, queue
<1>9. CASE rx_data_drop
  BY <1>9 DEF rx_data_drop, Dequeued
<1>10. CASE rx_data
  <2>1. ctx["tasklet"].pc = "loop" /\ (ctx' = ctx \/ \E q : Handle("tasklet", q))
    BY <1>10, Zenon DEF rx_data, Dequeued
  <2>2. ctx'["tasklet"].pc # "idle"
    BY <1>0, <2>1 DEF Handle, Idle
  <2> QED BY <2>2
<1>11. CASE reorder_tid_timer
  <2>1. \E q : Handle("timer", q)
    BY <1>11 DEF reorder_tid_timer
  <2>2. ctx'["tasklet"] = ctx["tasklet"]
    BY <1>0, <2>1 DEF Handle
  <2> QED BY <1>11, <2>2, TimerFrame DEF usb, queue
<1>12. ASSUME NEW c \in Ctx, Handler(c) PROVE NoStrandedFrame'
  <2>1. ctx["tasklet"].pc # "idle" => ctx'["tasklet"].pc # "idle"
    <3>1. CASE c = "tasklet"
      BY <1>0, <1>12, <3>1
      DEF Handler, handler_lock, find_key, crypto_drop, defrag_queue, defrag_drop,
          complete, rx_deliver, handler_unlock, Gone, Idle, CtxRec
    <3>2. CASE c # "tasklet"
      BY <1>0, <1>12, <3>2
      DEF Handler, handler_lock, find_key, crypto_drop, defrag_queue, defrag_drop,
          complete, rx_deliver, handler_unlock, Gone
    <3> QED BY <3>1, <3>2
  <2> QED BY <1>12, <2>1, HandlerFrame DEF usb, queue
<1>13. CASE UNCHANGED vars
  BY <1>13 DEF vars, usb, queue
<1> QED BY <1>1, <1>2, <1>3, <1>4, <1>5, <1>6, <1>7, <1>8, <1>9, <1>10, <1>11, <1>12,
           <1>13, Steps DEF Usb, Tasklet

-----------------------------------------------------------------------------
(* The theorems *)

\* The invariant holds in front of the association ...
LEMMA InductiveInit == Init => Inductive
<1> SUFFICES ASSUME Init PROVE Inductive
  OBVIOUS
<1>1. /\ rx_queue = <<>> /\ delivered = <<>> /\ defrag = <<>> /\ buf = <<>>
      /\ ctx = [c \in Ctx |-> Idle("idle")] /\ parked = {} /\ rx_path = "free"
  BY DEF Init
<1>2. LinkType
  BY DEF Init, LinkType
<1>3. KeyType
  BY RxPathAssumption DEF Init, KeyType
<1>4. UsbType /\ QueueType /\ OutType
  <2>1. pkt_cnt \in Nat /\ urbs \in 0 .. MaxUrb
    BY RxPathAssumption DEF Init
  <2>2. parsing \in BOOLEAN /\ pending \in BOOLEAN /\ left \in BOOLEAN
    BY DEF Init
  <2> QED BY <1>1, <2>1, <2>2, EmptySeq DEF UsbType, QueueType, OutType
<1>5. StaType
  <2>1. <<0, 0>> \in Nat \X Nat
    OBVIOUS
  <2>2. rx_seq \in [BOOLEAN -> Nat \X Nat]
    BY <2>1, Zenon DEF Init
  <2> QED BY <1>1, <2>2, EmptySeq, FS_EmptySet DEF StaType
<1>6. CtxType
  <2>1. \A c \in Ctx : ctx[c] = Idle("idle")
    BY <1>1
  <2>2. ctx \in [Ctx -> CtxRec]
    BY <1>1, IdleFacts
  <2>3. nkeys = 0 /\ "free" \notin Ctx
    BY DEF Init, Ctx
  <2> QED BY <1>1, <2>1, <2>2, <2>3, IdleFacts DEF CtxType
<1>7. DefragInv /\ NoStrandedFrame
  BY <1>1 DEF DefragInv, NoStrandedFrame
<1>8. \A c \in Ctx : ctx[c].out = <<>>
  BY <1>1, IdleFacts
<1>9. SoundInv /\ OrderInv
  BY <1>1, <1>8 DEF SoundInv, OrderInv, Rising
<1> QED BY <1>2, <1>3, <1>4, <1>5, <1>6, <1>7, <1>9, TypeParts DEF Inductive

\* ... and after every step.
LEMMA InductiveNext == Inductive /\ [Next]_vars => Inductive'
<1> SUFFICES ASSUME Inductive, [Next]_vars PROVE Inductive'
  OBVIOUS
<1>1. LinkType /\ KeyType /\ UsbType /\ QueueType /\ StaType /\ OutType /\ CtxType
  BY TypeParts DEF Inductive
<1>2. LinkType' /\ KeyType' /\ nkeys <= nkeys'
  BY <1>1, LinkNext, KeyNext
<1>3. UsbType' /\ QueueType' /\ StaType' /\ OutType' /\ CtxType'
  BY <1>1, <1>2, UsbNext, QueueNext, StaNext, OutNext, CtxNext
<1>4. TypeOK' /\ HandlerInv'
  BY <1>2, <1>3, Zenon DEF TypeOK, HandlerInv, LinkType, KeyType, UsbType, QueueType,
         StaType, OutType, CtxType, CtxRec
<1>5. DefragInv' /\ SoundInv' /\ OrderInv'
  BY <1>1, <1>2, DefragNext, SoundNext, OrderNext DEF Inductive
<1>6. NoStrandedFrame'
  BY <1>1, StrandedNext DEF Inductive
<1> QED BY <1>4, <1>5, <1>6 DEF Inductive

\* The invariant of the receive path: types and control (r92su_rx_handler works
\* on its frames under rx_path), fragments that wait, frames on their way out.
THEOREM InductiveHolds == Spec => []Inductive
<1> QED BY InductiveInit, InductiveNext, PTL DEF Spec

\* r92su_rx_iv_handle and r92su_rx_iv_check: what is delivered under one TKIP or
\* CCMP key has rising packet numbers, for any frames, keys and interleaving.
THEOREM NothingReplayed == Spec => []NoReplay
<1>1. Inductive => NoReplay
  BY DEF Inductive, OrderInv, Rising, Before, Numbered, Counted, NoReplay
<1> QED BY <1>1, InductiveHolds, PTL

\* r92su_rx_defrag: what is delivered is a complete row of fragments.
THEOREM DeliveredIsWhole == Spec => []JoinedIsClosed
<1>1. Inductive => JoinedIsClosed
  BY DEF Inductive, SoundInv, Sound, Whole, JoinedIsClosed
<1> QED BY <1>1, InductiveHolds, PTL

\* r92su_rx_icv_mic_handle: with TKIP the key of a delivered frame is its
\* sender's, whenever r92su_add_key and r92su_del_key run.
THEOREM DeliveredUnderSendersKey == Spec => []TkipKeyAgrees
<1>1. Inductive => TkipKeyAgrees
  BY DEF Inductive, SoundInv, Sound, TkipKeyAgrees
<1> QED BY <1>1, InductiveHolds, PTL

\* r92su_rx and r92su_rx_tasklet: a frame in rx_queue has a tasklet that takes it.
THEOREM NoFrameIsStranded == Spec => []NoStrandedFrame
<1>1. Inductive => NoStrandedFrame
  BY DEF Inductive
<1> QED BY <1>1, InductiveHolds, PTL
=============================================================================
