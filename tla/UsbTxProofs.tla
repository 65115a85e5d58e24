---------------------------- MODULE UsbTxProofs ----------------------------
(***************************************************************************)
(* Proofs about UsbTx for any finite number of buffers, senders and        *)
(* completion contexts and any URB limit.  The invariant Inductive of      *)
(* UsbTx is proved part by part: first types and control, then the places  *)
(* of the buffers, then the disconnect, then the counting, on top of the   *)
(* counting the absence of a lost wakeup, and last the refinement of       *)
(* TxPipe.                                                                 *)
(***************************************************************************)
EXTENDS UsbTx, FiniteSetTheorems, TLAPS

----------------------------------------------------------------------------
(* Sequences and cardinalities *)

\* Appending adds one element, and keeps a queue free of repetitions if the
\* element was not in it.
LEMMA AppendFacts ==
  ASSUME NEW S, NEW q \in Seq(S), NEW e \in S
  PROVE  /\ Append(q, e) \in Seq(S)
         /\ \A x : In(x, Append(q, e)) <=> In(x, q) \/ x = e
         /\ NoRepeats(q) /\ ~In(e, q) => NoRepeats(Append(q, e))
<1>1. /\ Append(q, e) \in Seq(S)
      /\ DOMAIN Append(q, e) = DOMAIN q \cup {Len(q) + 1}
      /\ Append(q, e)[Len(q) + 1] = e
      /\ \A i \in DOMAIN q : Append(q, e)[i] = q[i]
  OBVIOUS
<1> QED BY <1>1 DEF In, NoRepeats

\* Taking the head of a queue without repetitions removes exactly the head.
LEMMA TailFacts ==
  ASSUME NEW S, NEW q \in Seq(S), q # <<>>
  PROVE  /\ Head(q) \in S /\ Tail(q) \in Seq(S)
         /\ In(Head(q), q)
         /\ NoRepeats(q) => /\ NoRepeats(Tail(q))
                            /\ \A x : In(x, Tail(q)) <=> In(x, q) /\ x # Head(q)
<1>1. /\ Head(q) \in S /\ Head(q) = q[1] /\ 1 \in DOMAIN q
      /\ Tail(q) \in Seq(S)
      /\ \A i \in DOMAIN Tail(q) :
            i \in Int /\ i > 0 /\ i + 1 \in DOMAIN q /\ Tail(q)[i] = q[i + 1]
      /\ \A i \in DOMAIN q :
            i # 1 => i \in Int /\ i - 1 \in DOMAIN Tail(q) /\ Tail(q)[i - 1] = q[i]
  OBVIOUS
<1>2. In(Head(q), q)
  BY <1>1 DEF In
<1>3. ASSUME NoRepeats(q) PROVE NoRepeats(Tail(q))
  BY <1>1, <1>3 DEF NoRepeats
<1>4. ASSUME NoRepeats(q), NEW x PROVE In(x, Tail(q)) => In(x, q) /\ x # Head(q)
  BY <1>1, <1>4 DEF NoRepeats, In
<1>5. ASSUME NEW x, In(x, q), x # Head(q) PROVE In(x, Tail(q))
  BY <1>1, <1>5 DEF In
<1> QED BY <1>1, <1>2, <1>3, <1>4, <1>5

\* One element more ...
LEMMA AddOne ==
  ASSUME NEW S, NEW x, IsFiniteSet(S), x \notin S
  PROVE  Cardinality(S \cup {x}) = Cardinality(S) + 1
  BY FS_AddElement

\* ... and one element less.
LEMMA RemoveOne ==
  ASSUME NEW S, NEW x \in S, IsFiniteSet(S)
  PROVE  Cardinality(S \ {x}) = Cardinality(S) - 1
  BY FS_RemoveElement

\* The sets the counting is about are finite.
LEMMA Finite ==
  ASSUME TypeOK
  PROVE  /\ IsFiniteSet(Ctx) /\ IsFiniteSet(hcd)
         /\ IsFiniteSet(Counted) /\ IsFiniteSet(Granted)
         /\ Cardinality(Ctx) \in Nat /\ Cardinality(hcd) \in Nat
         /\ Cardinality(Counted) \in Nat /\ Cardinality(Granted) \in Nat
         /\ Cardinality(Granted) <= Cardinality(Counted)
<1>1. IsFiniteSet(Ctx)
  BY UsbTxAssumption, FS_Union DEF Ctx
<1>2. Counted \subseteq Ctx /\ Granted \subseteq Counted /\ hcd \subseteq Skb
  BY DEF Counted, Granted, TypeOK
<1>3. IsFiniteSet(hcd) /\ IsFiniteSet(Counted)
  BY <1>1, <1>2, UsbTxAssumption, FS_Subset
<1>4. IsFiniteSet(Granted) /\ Cardinality(Granted) <= Cardinality(Counted)
  BY <1>2, <1>3, FS_Subset
<1> QED BY <1>1, <1>3, <1>4, FS_CardinalityType

----------------------------------------------------------------------------
(* Types and control *)

\* r92su_usb_probe leaves every variable with its type and no context inside.
LEMMA TypeInit == Init => TypeOK /\ ControlInv
  BY UsbTxAssumption DEF Init, TypeOK, State, DisconnectPC, PC, ControlInv, Holding, CbPC, Ctx

\* No step of senders, callbacks or the disconnect leaves the types, and a
\* context holds an URB exactly in the statements that use one.
LEMMA TypeNext == TypeOK /\ ControlInv /\ [Next]_vars => TypeOK' /\ ControlInv'
<1> SUFFICES ASSUME TypeOK, ControlInv, [Next]_vars PROVE TypeOK' /\ ControlInv'
  OBVIOUS
<1> USE DEF dev, anchors, core, skbs, ctl, Ctx, Goto, Take, Free, mark_dead,
            ControlInv, TypeOK, State, DisconnectPC, PC, TxPC, SchedulePC, CbPC, Holding
<1>1. ASSUME NEW s \in Sender, NEW k \in Skb, usb_tx_refused(s, k) PROVE TypeOK' /\ ControlInv'
  BY <1>1, UsbTxAssumption DEF usb_tx_refused
<1>2. ASSUME NEW s \in Sender, NEW k \in Skb, usb_tx_accepted(s, k) PROVE TypeOK' /\ ControlInv'
  BY <1>2, UsbTxAssumption DEF usb_tx_accepted
<1>3. ASSUME NEW s \in Sender, usb_tx_anchor(s) PROVE TypeOK' /\ ControlInv'
  BY <1>3, UsbTxAssumption DEF usb_tx_anchor
<1>4. ASSUME NEW c \in Ctx, schedule_inc(c) PROVE TypeOK' /\ ControlInv'
  BY <1>4, UsbTxAssumption DEF schedule_inc
<1>5. ASSUME NEW c \in Ctx, schedule_get(c) PROVE TypeOK' /\ ControlInv'
  <2>1. CASE tx_wait = <<>>
    BY <1>5, <2>1, UsbTxAssumption DEF schedule_get
  <2>2. CASE tx_wait # <<>>
    <3>1. Head(tx_wait) \in Skb /\ Tail(tx_wait) \in Seq(Skb)
      BY <2>2, TailFacts
    <3> QED BY <1>5, <2>2, <3>1, UsbTxAssumption DEF schedule_get
  <2> QED BY <2>1, <2>2
<1>6. ASSUME NEW c \in Ctx, schedule_anchor(c) PROVE TypeOK' /\ ControlInv'
  BY <1>6, UsbTxAssumption DEF schedule_anchor
<1>7. ASSUME NEW c \in Ctx, schedule_submit_ok(c) PROVE TypeOK' /\ ControlInv'
  BY <1>7, UsbTxAssumption DEF schedule_submit_ok
<1>8. ASSUME NEW c \in Ctx, schedule_submit_err(c) PROVE TypeOK' /\ ControlInv'
  BY <1>8, UsbTxAssumption DEF schedule_submit_err
<1>9. ASSUME NEW c \in Ctx, schedule_fail(c) PROVE TypeOK' /\ ControlInv'
  BY <1>9, UsbTxAssumption DEF schedule_fail
<1>10. ASSUME NEW c \in Ctx, schedule_dec(c) PROVE TypeOK' /\ ControlInv'
  BY <1>10, UsbTxAssumption DEF schedule_dec
<1>11. ASSUME NEW c \in Completer, cb_dec(c) PROVE TypeOK' /\ ControlInv'
  BY <1>11, UsbTxAssumption DEF cb_dec
<1>12. ASSUME NEW c \in Completer, cb_free(c) PROVE TypeOK' /\ ControlInv'
  BY <1>12, UsbTxAssumption DEF cb_free
<1>13. ASSUME NEW c \in Completer, deal_with_usb_errors(c) PROVE TypeOK' /\ ControlInv'
  BY <1>13, UsbTxAssumption DEF deal_with_usb_errors
<1>14. ASSUME NEW c \in Completer, cb_mark_dead(c) PROVE TypeOK' /\ ControlInv'
  BY <1>14, UsbTxAssumption DEF cb_mark_dead
<1>15. ASSUME NEW c \in Completer, NEW k \in Skb, giveback(c, k) PROVE TypeOK' /\ ControlInv'
  BY <1>15, UsbTxAssumption DEF giveback
<1>16. ASSUME unbind PROVE TypeOK' /\ ControlInv'
  BY <1>16, UsbTxAssumption DEF unbind
<1>17. ASSUME unregister PROVE TypeOK' /\ ControlInv'
  BY <1>17, UsbTxAssumption DEF unregister
<1>18. ASSUME flush PROVE TypeOK' /\ ControlInv'
  BY <1>18, UsbTxAssumption DEF flush
<1>19. ASSUME poison_anchor PROVE TypeOK' /\ ControlInv'
  BY <1>19, UsbTxAssumption DEF poison_anchor
<1>20. ASSUME NEW k \in Skb, poison_urb(k) PROVE TypeOK' /\ ControlInv'
  BY <1>20, UsbTxAssumption DEF poison_urb
<1>21. ASSUME poison_done PROVE TypeOK' /\ ControlInv'
  BY <1>21, UsbTxAssumption DEF poison_done
<1>22. ASSUME drain PROVE TypeOK' /\ ControlInv'
  BY <1>22, UsbTxAssumption DEF drain
<1>23. ASSUME free_device PROVE TypeOK' /\ ControlInv'
  BY <1>23, UsbTxAssumption DEF free_device
<1>24. CASE UNCHANGED vars
  BY <1>24 DEF vars
<1> QED
  BY <1>1, <1>2, <1>3, <1>4, <1>5, <1>6, <1>7, <1>8, <1>9, <1>10, <1>11, <1>12, <1>13, <1>14, <1>15, <1>16, <1>17, <1>18, <1>19, <1>20, <1>21, <1>22, <1>23, <1>24
  DEF Next, Send, tx_schedule, tx_usb_cb, usb_disconnect

----------------------------------------------------------------------------
(* Every buffer is in one place *)

\* Before the first r92su_usb_tx no skb is anywhere.
LEMMA PlacesInit == Init => ExactlyOnePlace /\ AnchorInv
  BY UsbTxAssumption DEF Init, ExactlyOnePlace, AnchorInv, NoRepeats, In, InHands, Ctx

\* A step moves an skb from one place to another, or frees it, once.
LEMMA PlacesNext ==
  TypeOK /\ ControlInv /\ ExactlyOnePlace /\ AnchorInv /\ [Next]_vars
    => ExactlyOnePlace' /\ AnchorInv'
<1> SUFFICES ASSUME TypeOK, ControlInv, ExactlyOnePlace, AnchorInv, [Next]_vars
             PROVE  ExactlyOnePlace' /\ AnchorInv'
  OBVIOUS
<1> USE DEF dev, anchors, core, skbs, ctl, Ctx, Goto, Take, Free, mark_dead,
            ControlInv, ExactlyOnePlace, AnchorInv, InHands, TypeOK, State, DisconnectPC, PC, TxPC, SchedulePC, CbPC, Holding
<1>1. ASSUME NEW s \in Sender, NEW k \in Skb, usb_tx_refused(s, k) PROVE ExactlyOnePlace' /\ AnchorInv'
  BY <1>1, UsbTxAssumption DEF usb_tx_refused
<1>2. ASSUME NEW s \in Sender, NEW k \in Skb, usb_tx_accepted(s, k) PROVE ExactlyOnePlace' /\ AnchorInv'
  BY <1>2, UsbTxAssumption DEF usb_tx_accepted
<1>3. ASSUME NEW s \in Sender, usb_tx_anchor(s) PROVE ExactlyOnePlace' /\ AnchorInv'
  BY <1>3, UsbTxAssumption, AppendFacts DEF usb_tx_anchor
<1>4. ASSUME NEW c \in Ctx, schedule_inc(c) PROVE ExactlyOnePlace' /\ AnchorInv'
  BY <1>4, UsbTxAssumption DEF schedule_inc
<1>5. ASSUME NEW c \in Ctx, schedule_get(c) PROVE ExactlyOnePlace' /\ AnchorInv'
  <2>1. CASE tx_wait = <<>>
    BY <1>5, <2>1, UsbTxAssumption DEF schedule_get
  <2>2. CASE tx_wait # <<>>
    <3> DEFINE h == Head(tx_wait)
    <3>1. /\ h \in Skb /\ In(h, tx_wait) /\ NoRepeats(Tail(tx_wait))
          /\ \A x : In(x, Tail(tx_wait)) <=> In(x, tx_wait) /\ x # h
      BY <2>2, TailFacts
    <3>2. /\ tx_wait' = Tail(tx_wait) /\ urb' = [urb EXCEPT ![c] = h]
          /\ pc[c] = "get" /\ pc' = [pc EXCEPT ![c] = "anchor"]
          /\ UNCHANGED <<tx_submitted, hcd, freed, sent>>
      BY <1>5, <2>2 DEF schedule_get
    <3> HIDE DEF h
    <3>3. ExactlyOnePlace'
      BY <3>1, <3>2, UsbTxAssumption
    <3>4. AnchorInv'
      BY <3>1, <3>2, UsbTxAssumption
    <3> QED BY <3>3, <3>4
  <2> QED BY <2>1, <2>2
<1>6. ASSUME NEW c \in Ctx, schedule_anchor(c) PROVE ExactlyOnePlace' /\ AnchorInv'
  BY <1>6, UsbTxAssumption DEF schedule_anchor
<1>7. ASSUME NEW c \in Ctx, schedule_submit_ok(c) PROVE ExactlyOnePlace' /\ AnchorInv'
  BY <1>7, UsbTxAssumption DEF schedule_submit_ok
<1>8. ASSUME NEW c \in Ctx, schedule_submit_err(c) PROVE ExactlyOnePlace' /\ AnchorInv'
  BY <1>8, UsbTxAssumption DEF schedule_submit_err
<1>9. ASSUME NEW c \in Ctx, schedule_fail(c) PROVE ExactlyOnePlace' /\ AnchorInv'
  BY <1>9, UsbTxAssumption DEF schedule_fail
<1>10. ASSUME NEW c \in Ctx, schedule_dec(c) PROVE ExactlyOnePlace' /\ AnchorInv'
  BY <1>10, UsbTxAssumption DEF schedule_dec
<1>11. ASSUME NEW c \in Completer, cb_dec(c) PROVE ExactlyOnePlace' /\ AnchorInv'
  BY <1>11, UsbTxAssumption DEF cb_dec
<1>12. ASSUME NEW c \in Completer, cb_free(c) PROVE ExactlyOnePlace' /\ AnchorInv'
  <2>1. PICK l \in {"inc", "cb_err"} : pc' = [pc EXCEPT ![c] = l]
    BY <1>12 DEF cb_free
  <2>2. /\ pc[c] = "cb_free" /\ urb[c] \in Skb
        /\ freed' = [freed EXCEPT ![urb[c]] = @ + 1]
        /\ urb' = [urb EXCEPT ![c] = NoSkb]
        /\ UNCHANGED <<tx_wait, tx_submitted, hcd, sent>>
    BY <1>12 DEF cb_free
  <2>3. ExactlyOnePlace'
    BY <2>1, <2>2, UsbTxAssumption
  <2>4. AnchorInv'
    BY <2>1, <2>2, UsbTxAssumption
  <2> QED BY <2>3, <2>4
<1>13. ASSUME NEW c \in Completer, deal_with_usb_errors(c) PROVE ExactlyOnePlace' /\ AnchorInv'
  BY <1>13, UsbTxAssumption DEF deal_with_usb_errors
<1>14. ASSUME NEW c \in Completer, cb_mark_dead(c) PROVE ExactlyOnePlace' /\ AnchorInv'
  BY <1>14, UsbTxAssumption DEF cb_mark_dead
<1>15. ASSUME NEW c \in Completer, NEW k \in Skb, giveback(c, k) PROVE ExactlyOnePlace' /\ AnchorInv'
  BY <1>15, UsbTxAssumption DEF giveback
<1>16. ASSUME unbind PROVE ExactlyOnePlace' /\ AnchorInv'
  BY <1>16, UsbTxAssumption DEF unbind
<1>17. ASSUME unregister PROVE ExactlyOnePlace' /\ AnchorInv'
  BY <1>17, UsbTxAssumption DEF unregister
<1>18. ASSUME flush PROVE ExactlyOnePlace' /\ AnchorInv'
  BY <1>18, UsbTxAssumption DEF flush
<1>19. ASSUME poison_anchor PROVE ExactlyOnePlace' /\ AnchorInv'
  BY <1>19, UsbTxAssumption DEF poison_anchor
<1>20. ASSUME NEW k \in Skb, poison_urb(k) PROVE ExactlyOnePlace' /\ AnchorInv'
  BY <1>20, UsbTxAssumption DEF poison_urb
<1>21. ASSUME poison_done PROVE ExactlyOnePlace' /\ AnchorInv'
  BY <1>21, UsbTxAssumption DEF poison_done
<1>22. ASSUME drain PROVE ExactlyOnePlace' /\ AnchorInv'
  BY <1>22, UsbTxAssumption, TailFacts DEF drain
<1>23. ASSUME free_device PROVE ExactlyOnePlace' /\ AnchorInv'
  BY <1>23, UsbTxAssumption DEF free_device
<1>24. CASE UNCHANGED vars
  BY <1>24 DEF vars
<1> QED
  BY <1>1, <1>2, <1>3, <1>4, <1>5, <1>6, <1>7, <1>8, <1>9, <1>10, <1>11, <1>12, <1>13, <1>14, <1>15, <1>16, <1>17, <1>18, <1>19, <1>20, <1>21, <1>22, <1>23, <1>24
  DEF Next, Send, tx_schedule, tx_usb_cb, usb_disconnect

----------------------------------------------------------------------------
(* The disconnect *)

\* What r92su_usb_disconnect has waited for stays true: no sender after the
\* flush, no callback and nothing submitted after the poisoning.
LEMMA DisconnectNext ==
  TypeOK /\ ControlInv /\ AnchorInv /\ DisconnectInv /\ [Next]_vars => DisconnectInv'
<1> SUFFICES ASSUME TypeOK, ControlInv, AnchorInv, DisconnectInv, [Next]_vars
             PROVE  DisconnectInv'
  OBVIOUS
<1> USE DEF dev, anchors, core, skbs, ctl, Ctx, Goto, Take, Free, mark_dead,
            ControlInv, AnchorInv, DisconnectInv, TypeOK, State, DisconnectPC, PC, TxPC, SchedulePC, CbPC, Holding
<1>1. ASSUME NEW s \in Sender, NEW k \in Skb, usb_tx_refused(s, k) PROVE DisconnectInv'
  BY <1>1, UsbTxAssumption DEF usb_tx_refused
<1>2. ASSUME NEW s \in Sender, NEW k \in Skb, usb_tx_accepted(s, k) PROVE DisconnectInv'
  BY <1>2, UsbTxAssumption DEF usb_tx_accepted
<1>3. ASSUME NEW s \in Sender, usb_tx_anchor(s) PROVE DisconnectInv'
  BY <1>3, UsbTxAssumption DEF usb_tx_anchor
<1>4. ASSUME NEW c \in Ctx, schedule_inc(c) PROVE DisconnectInv'
  BY <1>4, UsbTxAssumption DEF schedule_inc
<1>5. ASSUME NEW c \in Ctx, schedule_get(c) PROVE DisconnectInv'
  BY <1>5, UsbTxAssumption DEF schedule_get
<1>6. ASSUME NEW c \in Ctx, schedule_anchor(c) PROVE DisconnectInv'
  BY <1>6, UsbTxAssumption DEF schedule_anchor
<1>7. ASSUME NEW c \in Ctx, schedule_submit_ok(c) PROVE DisconnectInv'
  BY <1>7, UsbTxAssumption DEF schedule_submit_ok
<1>8. ASSUME NEW c \in Ctx, schedule_submit_err(c) PROVE DisconnectInv'
  BY <1>8, UsbTxAssumption DEF schedule_submit_err
<1>9. ASSUME NEW c \in Ctx, schedule_fail(c) PROVE DisconnectInv'
  BY <1>9, UsbTxAssumption DEF schedule_fail
<1>10. ASSUME NEW c \in Ctx, schedule_dec(c) PROVE DisconnectInv'
  BY <1>10, UsbTxAssumption DEF schedule_dec
<1>11. ASSUME NEW c \in Completer, cb_dec(c) PROVE DisconnectInv'
  BY <1>11, UsbTxAssumption DEF cb_dec
<1>12. ASSUME NEW c \in Completer, cb_free(c) PROVE DisconnectInv'
  BY <1>12, UsbTxAssumption DEF cb_free
<1>13. ASSUME NEW c \in Completer, deal_with_usb_errors(c) PROVE DisconnectInv'
  BY <1>13, UsbTxAssumption DEF deal_with_usb_errors
<1>14. ASSUME NEW c \in Completer, cb_mark_dead(c) PROVE DisconnectInv'
  BY <1>14, UsbTxAssumption DEF cb_mark_dead
<1>15. ASSUME NEW c \in Completer, NEW k \in Skb, giveback(c, k) PROVE DisconnectInv'
  BY <1>15, UsbTxAssumption DEF giveback
<1>16. ASSUME unbind PROVE DisconnectInv'
  BY <1>16, UsbTxAssumption DEF unbind
<1>17. ASSUME unregister PROVE DisconnectInv'
  BY <1>17, UsbTxAssumption DEF unregister
<1>18. ASSUME flush PROVE DisconnectInv'
  BY <1>18, UsbTxAssumption DEF flush
<1>19. ASSUME poison_anchor PROVE DisconnectInv'
  BY <1>19, UsbTxAssumption DEF poison_anchor
<1>20. ASSUME NEW k \in Skb, poison_urb(k) PROVE DisconnectInv'
  BY <1>20, UsbTxAssumption DEF poison_urb
<1>21. ASSUME poison_done PROVE DisconnectInv'
  BY <1>21, UsbTxAssumption DEF poison_done
<1>22. ASSUME drain PROVE DisconnectInv'
  BY <1>22, UsbTxAssumption DEF drain
<1>23. ASSUME free_device PROVE DisconnectInv'
  BY <1>23, UsbTxAssumption DEF free_device
<1>24. CASE UNCHANGED vars
  BY <1>24 DEF vars
<1> QED
  BY <1>1, <1>2, <1>3, <1>4, <1>5, <1>6, <1>7, <1>8, <1>9, <1>10, <1>11, <1>12, <1>13, <1>14, <1>15, <1>16, <1>17, <1>18, <1>19, <1>20, <1>21, <1>22, <1>23, <1>24
  DEF Next, Send, tx_schedule, tx_usb_cb, usb_disconnect

----------------------------------------------------------------------------
(* Counting *)

\* The counter starts at zero with nothing to count.
LEMMA CountInit == Init => PendingExact /\ InFlightBound
<1> SUFFICES ASSUME Init PROVE PendingExact /\ InFlightBound
  OBVIOUS
<1>1. hcd = {} /\ Counted = {} /\ Granted = {} /\ tx_pending_urbs = 0
  BY DEF Init, Counted, Granted
<1> QED BY <1>1, FS_EmptySet, UsbTxAssumption DEF PendingExact, InFlightBound

\* Only these steps touch the counter, the controller's set or the contexts
\* that have counted themselves; each keeps the two sides balanced.
LEMMA CountNext ==
  TypeOK /\ ControlInv /\ ExactlyOnePlace /\ PendingExact /\ InFlightBound /\ [Next]_vars
    => PendingExact' /\ InFlightBound'
<1> SUFFICES ASSUME TypeOK, ControlInv, ExactlyOnePlace, PendingExact, InFlightBound,
                    [Next]_vars
             PROVE  PendingExact' /\ InFlightBound'
  OBVIOUS
<1> USE DEF PendingExact, InFlightBound
<1>t. TypeOK'
  BY TypeNext
<1>f. /\ IsFiniteSet(hcd) /\ IsFiniteSet(Counted) /\ IsFiniteSet(Granted)
      /\ Cardinality(hcd) \in Nat /\ Cardinality(Counted) \in Nat
      /\ Cardinality(Granted) \in Nat /\ Cardinality(Granted) <= Cardinality(Counted)
      /\ MaxTx \in Nat /\ tx_pending_urbs \in Int
  BY Finite, UsbTxAssumption DEF TypeOK
<1>1. ASSUME UNCHANGED <<hcd, tx_pending_urbs>>, Counted' = Counted, Granted' \subseteq Granted
      PROVE  PendingExact' /\ InFlightBound'
  <2>1. Cardinality(Granted') \in Nat /\ Cardinality(Granted') <= Cardinality(Granted)
    BY <1>1, <1>f, FS_Subset, FS_CardinalityType
  <2> QED BY <1>1, <1>f, <2>1
<1>2. ASSUME NEW c \in Ctx, schedule_inc(c) PROVE PendingExact' /\ InFlightBound'
  <2>1. c \notin Counted /\ c \notin Granted /\ Counted' = Counted \cup {c}
    BY <1>2 DEF schedule_inc, Counted, Granted, Goto, TypeOK
  <2>2. Cardinality(Counted') = Cardinality(Counted) + 1
    BY <2>1, <1>f, AddOne
  <2>3. hcd' = hcd /\ tx_pending_urbs' = tx_pending_urbs + 1
    BY <1>2 DEF schedule_inc, core
  <2>4. CASE tx_pending_urbs + 1 > MaxTx
    <3>1. Granted' = Granted
      BY <1>2, <2>4 DEF schedule_inc, Granted, Goto, TypeOK
    <3> QED BY <3>1, <2>2, <2>3, <1>f
  <2>5. CASE ~(tx_pending_urbs + 1 > MaxTx)
    <3>1. Granted' = Granted \cup {c}
      BY <1>2, <2>5 DEF schedule_inc, Granted, Goto, TypeOK
    <3>2. Cardinality(Granted') = Cardinality(Granted) + 1
      BY <3>1, <2>1, <1>f, AddOne
    <3> QED BY <3>2, <2>2, <2>3, <2>5, <1>f
  <2> QED BY <2>4, <2>5
<1>3. ASSUME NEW c \in Ctx, schedule_submit_ok(c) PROVE PendingExact' /\ InFlightBound'
  <2>1. /\ c \in Counted /\ c \in Granted
        /\ Counted' = Counted \ {c} /\ Granted' = Granted \ {c}
    BY <1>3 DEF schedule_submit_ok, Counted, Granted, Goto, TypeOK
  <2>2. urb[c] \notin hcd /\ hcd' = hcd \cup {urb[c]} /\ UNCHANGED tx_pending_urbs
    BY <1>3 DEF schedule_submit_ok, ControlInv, Holding, ExactlyOnePlace, InHands
  <2>3. /\ Cardinality(Counted') = Cardinality(Counted) - 1
        /\ Cardinality(Granted') = Cardinality(Granted) - 1
    BY <2>1, <1>f, RemoveOne
  <2>4. Cardinality(hcd') = Cardinality(hcd) + 1
    BY <2>2, <1>f, AddOne
  <2> QED BY <2>2, <2>3, <2>4, <1>f
<1>4. ASSUME NEW c \in Ctx, schedule_dec(c) \/ cb_dec(c) PROVE PendingExact' /\ InFlightBound'
  <2>1. c \in Counted /\ Counted' = Counted \ {c} /\ Granted' = Granted
    BY <1>4 DEF schedule_dec, cb_dec, Counted, Granted, Goto, TypeOK
  <2>2. hcd' = hcd /\ tx_pending_urbs' = tx_pending_urbs - 1
    BY <1>4 DEF schedule_dec, cb_dec, core
  <2>3. Cardinality(Counted') = Cardinality(Counted) - 1
    BY <2>1, <1>f, RemoveOne
  <2> QED BY <2>1, <2>2, <2>3, <1>f
<1>5. ASSUME NEW c \in Completer, NEW k \in Skb, giveback(c, k)
      PROVE  PendingExact' /\ InFlightBound'
  <2>1. c \notin Counted /\ Counted' = Counted \cup {c} /\ Granted' = Granted
    BY <1>5 DEF giveback, Counted, Granted, Goto, TypeOK, Ctx
  <2>2. k \in hcd /\ hcd' = hcd \ {k} /\ UNCHANGED tx_pending_urbs
    BY <1>5 DEF giveback
  <2>3. Cardinality(Counted') = Cardinality(Counted) + 1
    BY <2>1, <1>f, AddOne
  <2>4. Cardinality(hcd') = Cardinality(hcd) - 1
    BY <2>2, <1>f, RemoveOne
  <2> QED BY <2>1, <2>2, <2>3, <2>4, <1>f
<1>6. ASSUME NEW c \in Ctx,
             \/ schedule_get(c) \/ schedule_anchor(c) \/ schedule_submit_err(c)
             \/ schedule_fail(c)
      PROVE  PendingExact' /\ InFlightBound'
  <2>1. UNCHANGED <<hcd, tx_pending_urbs>>
    BY <1>6 DEF schedule_get, schedule_anchor, schedule_submit_err, schedule_fail, core
  <2>2. Counted' = Counted /\ Granted' \subseteq Granted
    BY <1>6 DEF schedule_get, schedule_anchor, schedule_submit_err, schedule_fail,
                Counted, Granted, Goto, TypeOK
  <2> QED BY <2>1, <2>2, <1>1
<1>7. ASSUME NEW c \in Completer, cb_free(c) \/ deal_with_usb_errors(c) \/ cb_mark_dead(c)
      PROVE  PendingExact' /\ InFlightBound'
  <2>1. UNCHANGED <<hcd, tx_pending_urbs>> /\ Counted' = Counted /\ Granted' \subseteq Granted
    BY <1>7 DEF cb_free, deal_with_usb_errors, cb_mark_dead, core, Counted, Granted, Goto,
                TypeOK, Ctx
  <2> QED BY <2>1, <1>1
<1>8. ASSUME NEW s \in Sender, Send(s) PROVE PendingExact' /\ InFlightBound'
  <2>1. UNCHANGED <<hcd, tx_pending_urbs>> /\ Counted' = Counted /\ Granted' \subseteq Granted
    BY <1>8 DEF Send, usb_tx_refused, usb_tx_accepted, usb_tx_anchor, core, ctl, Counted,
                Granted, Goto, TypeOK, Ctx
  <2> QED BY <2>1, <1>1
<1>9. ASSUME unbind \/ usb_disconnect \/ UNCHANGED vars PROVE PendingExact' /\ InFlightBound'
  <2>1. UNCHANGED <<hcd, tx_pending_urbs, pc>>
    BY <1>9 DEF unbind, usb_disconnect, unregister, flush, poison_anchor, poison_urb,
                poison_done, drain, free_device, core, ctl, vars
  <2>2. Counted' = Counted /\ Granted' \subseteq Granted
    BY <2>1 DEF Counted, Granted
  <2> QED BY <2>1, <2>2, <1>1
<1> QED
  BY <1>2, <1>3, <1>4, <1>5, <1>6, <1>7, <1>8, <1>9
  DEF Next, tx_schedule, tx_usb_cb, Ctx

----------------------------------------------------------------------------
(* No lost wakeup *)

\* A context is sent away by the limit only while the controller owns an URB:
\* the other contexts alone, at most MaxTx - 1, cannot exhaust the limit.
LEMMA LimitMeansInFlight ==
  ASSUME TypeOK, PendingExact, Cardinality(Ctx) <= MaxTx,
         NEW c \in Ctx, pc[c] = "inc", tx_pending_urbs + 1 > MaxTx
  PROVE  hcd # {}
<1>1. /\ IsFiniteSet(Ctx) /\ Cardinality(Ctx) \in Nat /\ MaxTx \in Nat
      /\ IsFiniteSet(Counted) /\ Cardinality(Counted) \in Nat
  BY Finite, UsbTxAssumption
<1>2. Counted \subseteq Ctx \ {c}
  BY DEF Counted
<1>3. Cardinality(Ctx \ {c}) = Cardinality(Ctx) - 1 /\ IsFiniteSet(Ctx \ {c})
  BY <1>1, FS_RemoveElement
<1>4. Cardinality(Counted) <= Cardinality(Ctx) - 1
  BY <1>2, <1>3, FS_Subset
<1>5. Cardinality(hcd) # 0
  BY <1>1, <1>4 DEF PendingExact, TypeOK
<1> QED BY <1>5, FS_EmptySet

\* Whoever leaves r92su_tx_schedule with URBs still waiting leaves somebody
\* behind who will run it again.
LEMMA WakeupNext ==
  TypeOK /\ ControlInv /\ PendingExact /\ NoLostWakeup /\ [Next]_vars => NoLostWakeup'
<1> SUFFICES ASSUME TypeOK, ControlInv, PendingExact, NoLostWakeup, [Next]_vars,
                    Cardinality(Ctx) <= MaxTx, tx_wait' # <<>>, state' = "PROBE"
             PROVE  hcd' # {} \/ \E c \in Ctx : Rescheduler(c)'
  BY DEF NoLostWakeup
<1> DEFINE Goal == hcd' # {} \/ \E c \in Ctx : Rescheduler(c)'
<1> USE DEF TypeOK, Rescheduler, CbPC, Goto, dev, anchors, core, skbs, ctl
<1>t. state = "PROBE" \/ unregister
  BY DEF Next, Send, usb_tx_refused, usb_tx_accepted, usb_tx_anchor, tx_schedule,
         schedule_inc, schedule_get, schedule_anchor, schedule_submit_ok,
         schedule_submit_err, schedule_fail, schedule_dec, tx_usb_cb, cb_dec, cb_free,
         deal_with_usb_errors, cb_mark_dead, giveback, unbind, usb_disconnect, flush,
         poison_anchor, poison_urb, poison_done, drain, free_device, mark_dead, vars
<1>0. state = "PROBE"
  BY <1>t DEF unregister
<1>1. ASSUME NEW s \in Sender, NEW k \in Skb, usb_tx_refused(s, k) \/ usb_tx_accepted(s, k)
      PROVE  Goal
  BY <1>0, <1>1 DEF usb_tx_refused, usb_tx_accepted, NoLostWakeup, Ctx
<1>2. ASSUME NEW s \in Sender, usb_tx_anchor(s) PROVE Goal
  BY <1>2 DEF usb_tx_anchor, Ctx
<1>3. ASSUME NEW c \in Ctx, schedule_inc(c) PROVE Goal
  <2>1. CASE tx_pending_urbs + 1 > MaxTx
    <3>1. pc[c] = "inc" /\ hcd' = hcd
      BY <1>3 DEF schedule_inc
    <3>2. hcd # {}
      BY <2>1, <3>1, LimitMeansInFlight
    <3> QED BY <3>1, <3>2
  <2>2. CASE ~(tx_pending_urbs + 1 > MaxTx)
    BY <1>3, <2>2 DEF schedule_inc
  <2> QED BY <2>1, <2>2
<1>4. ASSUME NEW c \in Ctx, schedule_get(c) \/ schedule_anchor(c) \/ schedule_submit_err(c)
      PROVE  Goal
  BY <1>4 DEF schedule_get, schedule_anchor, schedule_submit_err
<1>5. ASSUME NEW c \in Ctx, schedule_submit_ok(c) PROVE Goal
  BY <1>5 DEF schedule_submit_ok
<1>6. ASSUME NEW c \in Ctx, schedule_dec(c) PROVE Goal
  BY <1>0, <1>6 DEF schedule_dec, NoLostWakeup
<1>7. ASSUME NEW c \in Completer, tx_usb_cb(c) PROVE Goal
  BY <1>7 DEF tx_usb_cb, cb_dec, cb_free, deal_with_usb_errors, cb_mark_dead, Ctx
<1>8. ASSUME NEW c \in Completer, NEW k \in Skb, giveback(c, k) PROVE Goal
  BY <1>8 DEF giveback, Ctx
<1>9. ASSUME NEW c \in Ctx, schedule_fail(c) PROVE Goal
  BY <1>9 DEF schedule_fail, mark_dead
<1>10. CASE unbind \/ usb_disconnect \/ UNCHANGED vars
  <2>1. UNCHANGED <<pc, hcd>> /\ tx_wait # <<>>
    BY <1>10
    DEF unbind, usb_disconnect, unregister, flush, poison_anchor, poison_urb, poison_done,
        drain, free_device, vars
  <2> QED BY <1>0, <2>1 DEF NoLostWakeup
<1> QED
  BY <1>1, <1>2, <1>3, <1>4, <1>5, <1>6, <1>7, <1>8, <1>9, <1>10
  DEF Next, Send, tx_schedule

----------------------------------------------------------------------------
(* Theorems *)

\* The invariant Inductive of UsbTx holds in every reachable state.
THEOREM InductiveHolds == Spec => []Inductive
<1>1. Init => Inductive
  <2> SUFFICES ASSUME Init PROVE Inductive
    OBVIOUS
  <2>1. DisconnectInv
    BY DEF Init, DisconnectInv
  <2>2. NoLostWakeup
    BY DEF Init, NoLostWakeup
  <2> QED BY <2>1, <2>2, TypeInit, PlacesInit, CountInit DEF Inductive
<1>2. Inductive /\ [Next]_vars => Inductive'
  BY TypeNext, PlacesNext, DisconnectNext, CountNext, WakeupNext DEF Inductive
<1> QED BY <1>1, <1>2, PTL DEF Spec

\* Every variable of usb.c's transmit path keeps its type: in particular no
\* context ever dereferences an URB it does not hold.
THEOREM TypeCorrect == Spec => []TypeOK
  BY InductiveHolds, PTL DEF Inductive

\* tx_pending_urbs never drifts from what it counts.
THEOREM PendingIsExact == Spec => []PendingExact
  BY InductiveHolds, PTL DEF Inductive

\* The controller never owns more than RTL_USB_MAX_TX_URBS_NUM URBs.
THEOREM InFlightIsBounded == Spec => []InFlightBound
  BY InductiveHolds, PTL DEF Inductive

\* r92su_tx_schedule loses no wakeup as long as no more contexts run it at the
\* same time than the controller may own URBs.
THEOREM NoWakeupIsLost == Spec => []NoLostWakeup
  BY InductiveHolds, PTL DEF Inductive

\* No skb is freed twice, lost or shared, however the contexts interleave.
THEOREM OnePlacePerSkb == Spec => []ExactlyOnePlace
  BY InductiveHolds, PTL DEF Inductive

\* r92su_usb_disconnect leaves nothing behind when it frees the device.
THEOREM DisconnectLeavesNothing == Spec => []NothingLeftBehind
<1>1. Inductive => NothingLeftBehind
  <2> SUFFICES ASSUME Inductive, dpc = "gone"
               PROVE  /\ \A k \in sent : freed[k] = 1
                      /\ hcd = {} /\ tx_submitted = {} /\ tx_pending_urbs = 0
    BY DEF NothingLeftBehind
  <2>1. tx_submitted = {} /\ hcd = {} /\ tx_wait = <<>> /\ \A c \in Ctx : pc[c] = "idle"
    BY DEF Inductive, DisconnectInv, AnchorInv, Ctx
  <2>2. \A k \in Skb : ~In(k, tx_wait) /\ ~InHands(k)
    BY <2>1 DEF Inductive, ControlInv, Holding, In, InHands
  <2>3. \A k \in sent : freed[k] = 1
    BY <2>1, <2>2 DEF Inductive, ExactlyOnePlace, TypeOK
  <2>4. Counted = {}
    BY <2>1 DEF Counted
  <2> QED BY <2>1, <2>3, <2>4, FS_EmptySet DEF Inductive, PendingExact
<1> QED BY <1>1, InductiveHolds, PTL

\* Once r92su_free has run, neither a sender nor a callback takes a step.
THEOREM NoStepAfterFree == Spec => NoUseAfterFree
<1>1. Inductive /\ [Next]_vars => [dpc # "gone"]_vars
  <2> SUFFICES ASSUME Inductive, Next, dpc = "gone" PROVE UNCHANGED vars
    OBVIOUS
  <2>1. hcd = {} /\ \A c \in Ctx : pc[c] = "idle"
    BY DEF Inductive, DisconnectInv, AnchorInv, Ctx
  <2> QED
    BY <2>1
    DEF Next, Send, usb_tx_refused, usb_tx_accepted, usb_tx_anchor, tx_schedule,
        schedule_inc, schedule_get, schedule_anchor, schedule_submit_ok,
        schedule_submit_err, schedule_fail, schedule_dec, tx_usb_cb, cb_dec, cb_free,
        deal_with_usb_errors, cb_mark_dead, giveback, unbind, usb_disconnect, unregister,
        flush, poison_anchor, poison_urb, poison_done, drain, free_device, Ctx
<1> QED BY <1>1, InductiveHolds, PTL DEF Spec, NoUseAfterFree

----------------------------------------------------------------------------
(* UsbTx implements TxPipe: every step of the lock-free path moves at most *)
(* one buffer, one stage forward, and none is handed to the controller     *)
(* beyond the limit.                                                       *)

\* The stage of a buffer, once it is known to be freed at most once and to be
\* the driver's only after it was handed in.
LEMMA Stages ==
  ASSUME Inductive, NEW k \in Skb
  PROVE  /\ freed[k] = 1 => PhaseOf(k) = "freed"
         /\ k \in hcd => freed[k] = 0 /\ k \in sent /\ PhaseOf(k) = "busy"
         /\ InCallback(k) => freed[k] = 0 /\ k \in sent /\ k \notin hcd /\ PhaseOf(k) = "sent"
         /\ freed[k] = 0 /\ k \in sent /\ k \notin hcd /\ ~InCallback(k) => PhaseOf(k) = "queued"
         /\ k \notin sent => freed[k] = 0 /\ PhaseOf(k) = "new"
<1>1. /\ freed[k] \in {0, 1}
      /\ k \in hcd => freed[k] = 0 /\ k \in sent
      /\ InCallback(k) => freed[k] = 0 /\ k \in sent /\ k \notin hcd
      /\ k \notin sent => freed[k] = 0 /\ k \notin hcd /\ ~InCallback(k)
  BY DEF Inductive, ExactlyOnePlace, InHands, InCallback
<1> QED BY <1>1 DEF PhaseOf

\* The buffers that TxPipe calls busy are those the controller owns.
LEMMA BusyIsHcd ==
  ASSUME Inductive
  PROVE  Pipe!Busy = hcd
<1>1. hcd \subseteq Skb /\ \A k \in Skb : k \in hcd <=> PhaseOf(k) = "busy"
  BY DEF Inductive, TypeOK, ExactlyOnePlace, PhaseOf
<1> QED BY <1>1 DEF Pipe!Busy

\* TxPipe counts with its own instance of FiniteSets.
LEMMA SameCardinality == \A S : Pipe!Cardinality(S) = Cardinality(S)
  BY DEF Pipe!Cardinality, Cardinality

\* Moving one buffer and leaving the stage of every other one alone is a move
\* of TxPipe.
LEMMA MoveOne ==
  ASSUME NEW k \in Skb, NEW to, \A j \in Skb \ {k} : PhaseOf(j)' = PhaseOf(j), PhaseOf(k)' = to
  PROVE  [j \in Skb |-> PhaseOf(j)]' = [[j \in Skb |-> PhaseOf(j)] EXCEPT ![k] = to]
  OBVIOUS

\* What the stage of a buffer depends on.
LEMMA SameStage ==
  ASSUME NEW k \in Skb, freed'[k] = freed[k], k \in hcd' <=> k \in hcd,
         k \in sent' <=> k \in sent, InCallback(k)' <=> InCallback(k)
  PROVE  PhaseOf(k)' = PhaseOf(k)
  BY DEF PhaseOf

\* Every step of UsbTx is a step of TxPipe or leaves every stage as it is.
LEMMA StepSimulation ==
  Inductive /\ Inductive' /\ [Next]_vars => [Pipe!Next]_([k \in Skb |-> PhaseOf(k)])
<1> DEFINE phase == [k \in Skb |-> PhaseOf(k)]
<1> SUFFICES ASSUME Inductive, Inductive', [Next]_vars
             PROVE  Pipe!Next \/ phase' = phase
  BY DEF Pipe!Next
<1>a. TypeOK /\ ControlInv /\ ExactlyOnePlace /\ InFlightBound
  BY DEF Inductive
<1>same. ASSUME \A k \in Skb : PhaseOf(k)' = PhaseOf(k) PROVE phase' = phase
  BY <1>same
<1> USE DEF dev, anchors, core, skbs, ctl, Goto, Take, Free, mark_dead
<1>1. ASSUME NEW s \in Sender, NEW k \in Skb, usb_tx_refused(s, k) PROVE Pipe!Next
  <2>1. PhaseOf(k) = "new" /\ freed'[k] = 1
    BY <1>1, <1>a, Stages DEF usb_tx_refused, TypeOK
  <2>2. PhaseOf(k)' = "freed"
    BY <2>1 DEF PhaseOf
  <2>3. \A j \in Skb \ {k} : PhaseOf(j)' = PhaseOf(j)
    BY <1>1, <1>a, SameStage DEF usb_tx_refused, TypeOK, InCallback
  <2>4. Pipe!Refuse(k)
    BY <2>1, <2>2, <2>3, MoveOne DEF Pipe!Refuse, Pipe!Move
  <2> QED BY <2>4 DEF Pipe!Next
<1>2. ASSUME NEW s \in Sender, NEW k \in Skb, usb_tx_accepted(s, k) PROVE Pipe!Next
  <2>1. PhaseOf(k) = "new" /\ freed[k] = 0
    BY <1>2, Stages DEF usb_tx_accepted
  <2>2. ~InCallback(k)'
    BY <1>2, <1>a DEF usb_tx_accepted, InCallback, TypeOK, ExactlyOnePlace, InHands, Ctx
  <2>3. k \in sent' /\ freed'[k] = 0 /\ k \notin hcd'
    BY <1>2, <1>a, <2>1 DEF usb_tx_accepted, ExactlyOnePlace
  <2>4. PhaseOf(k)' = "queued"
    BY <2>2, <2>3, Stages DEF PhaseOf
  <2>5. \A j \in Skb \ {k} : PhaseOf(j)' = PhaseOf(j)
    <3> TAKE j \in Skb \ {k}
    <3>1. InCallback(j)' <=> InCallback(j)
      BY <1>2, <1>a DEF usb_tx_accepted, TypeOK, ControlInv, Holding, InCallback, Ctx
    <3> QED BY <3>1, <1>2, SameStage DEF usb_tx_accepted
  <2>6. Pipe!Queue(k)
    BY <2>1, <2>4, <2>5, MoveOne DEF Pipe!Queue, Pipe!Move
  <2> QED BY <2>6 DEF Pipe!Next
<1>3. ASSUME NEW c \in Ctx, schedule_submit_ok(c) PROVE Pipe!Next
  <2>0. PICK k \in Skb : k = urb[c] /\ pc[c] = "submit"
    BY <1>3, <1>a DEF schedule_submit_ok, ControlInv, Holding
  <2>1. k \in sent /\ freed[k] = 0 /\ k \notin hcd /\ ~InCallback(k)
    BY <2>0, <1>a DEF ExactlyOnePlace, InHands, InCallback
  <2>2. PhaseOf(k) = "queued"
    BY <2>0, <2>1 DEF PhaseOf
  <2>3. PhaseOf(k)' = "busy"
    BY <1>3, <2>0, <2>1 DEF schedule_submit_ok, PhaseOf
  <2>4. \A j \in Skb \ {k} : PhaseOf(j)' = PhaseOf(j)
    <3> TAKE j \in Skb \ {k}
    <3>1. InCallback(j)' <=> InCallback(j)
      BY <1>3, <1>a, <2>0 DEF schedule_submit_ok, TypeOK, InCallback
    <3> QED BY <3>1, <1>3, <2>0, SameStage DEF schedule_submit_ok
  <2>5. Pipe!Cardinality(Pipe!Busy) < MaxTx
    <3>1. c \in Granted
      BY <2>0 DEF Granted
    <3>2. Cardinality(Granted) # 0 /\ Cardinality(Granted) \in Nat /\ Cardinality(hcd) \in Nat
      BY <3>1, <1>a, Finite, FS_EmptySet
    <3> QED BY <3>2, <1>a, BusyIsHcd, SameCardinality, UsbTxAssumption DEF InFlightBound
  <2>6. Pipe!Start(k)
    BY <2>0, <2>2, <2>3, <2>4, <2>5, MoveOne DEF Pipe!Start, Pipe!Move
  <2> QED BY <2>0, <2>6 DEF Pipe!Next
<1>4. ASSUME NEW c \in Ctx, schedule_fail(c) PROVE Pipe!Next
  <2>0. PICK k \in Skb : k = urb[c] /\ pc[c] = "fail"
    BY <1>4, <1>a DEF schedule_fail, ControlInv, Holding
  <2>1. k \in sent /\ freed[k] = 0 /\ k \notin hcd /\ ~InCallback(k)
    BY <2>0, <1>a DEF ExactlyOnePlace, InHands, InCallback
  <2>2. PhaseOf(k) = "queued" /\ PhaseOf(k)' = "freed"
    BY <1>4, <1>a, <2>0, <2>1 DEF schedule_fail, PhaseOf, TypeOK
  <2>3. \A j \in Skb \ {k} : PhaseOf(j)' = PhaseOf(j)
    <3> TAKE j \in Skb \ {k}
    <3>1. InCallback(j)' <=> InCallback(j)
      BY <1>4, <1>a, <2>0 DEF schedule_fail, TypeOK, InCallback
    <3> QED BY <3>1, <1>4, <1>a, <2>0, SameStage DEF schedule_fail, TypeOK
  <2>4. Pipe!Drop(k)
    BY <2>0, <2>2, <2>3, MoveOne DEF Pipe!Drop, Pipe!Move
  <2> QED BY <2>0, <2>4 DEF Pipe!Next
<1>5. ASSUME NEW c \in Completer, NEW k \in Skb, giveback(c, k) PROVE Pipe!Next
  <2>0. c \in Ctx
    BY DEF Ctx
  <2>1. freed[k] = 0 /\ PhaseOf(k) = "busy"
    BY <1>5, Stages DEF giveback
  <2>2. InCallback(k)'
    BY <1>5, <1>a, <2>0 DEF giveback, InCallback, TypeOK
  <2>3. PhaseOf(k)' = "sent"
    BY <1>5, <2>1, <2>2 DEF giveback, PhaseOf
  <2>4. \A j \in Skb \ {k} : PhaseOf(j)' = PhaseOf(j)
    <3> TAKE j \in Skb \ {k}
    <3>1. InCallback(j)' <=> InCallback(j)
      BY <1>5, <1>a, <2>0 DEF giveback, TypeOK, InCallback
    <3> QED BY <3>1, <1>5, SameStage DEF giveback
  <2>5. Pipe!Finish(k)
    BY <2>1, <2>3, <2>4, MoveOne DEF Pipe!Finish, Pipe!Move
  <2> QED BY <2>5 DEF Pipe!Next
<1>6. ASSUME NEW c \in Completer, cb_free(c) PROVE Pipe!Next
  <2>0. PICK k \in Skb : c \in Ctx /\ k = urb[c] /\ pc[c] = "cb_free"
    BY <1>6, <1>a DEF cb_free, ControlInv, Holding, Ctx
  <2>1. freed[k] = 0 /\ PhaseOf(k) = "sent"
    BY <2>0, Stages DEF InCallback
  <2>2. PhaseOf(k)' = "freed"
    BY <1>6, <1>a, <2>0, <2>1 DEF cb_free, PhaseOf, TypeOK
  <2>3. \A j \in Skb \ {k} : PhaseOf(j)' = PhaseOf(j)
    <3> TAKE j \in Skb \ {k}
    <3>1. InCallback(j)' <=> InCallback(j)
      <4>1. PICK l \in {"inc", "cb_err"} : pc' = [pc EXCEPT ![c] = l]
        BY <1>6 DEF cb_free
      <4> QED BY <4>1, <1>6, <1>a, <2>0 DEF cb_free, TypeOK, InCallback
    <3> QED BY <3>1, <1>6, <1>a, <2>0, SameStage DEF cb_free, TypeOK
  <2>4. Pipe!Release(k)
    BY <2>0, <2>1, <2>2, <2>3, MoveOne DEF Pipe!Release, Pipe!Move
  <2> QED BY <2>0, <2>4 DEF Pipe!Next
<1>7. ASSUME drain PROVE Pipe!Next
  <2>0. PICK k \in Skb : k = Head(tx_wait) /\ In(k, tx_wait)
    BY <1>7, <1>a, TailFacts DEF drain, TypeOK
  <2>1. k \in sent /\ freed[k] = 0 /\ k \notin hcd /\ ~InCallback(k)
    BY <2>0, <1>a DEF ExactlyOnePlace, InHands, InCallback
  <2>2. PhaseOf(k) = "queued" /\ PhaseOf(k)' = "freed"
    BY <1>7, <1>a, <2>0, <2>1 DEF drain, PhaseOf, TypeOK
  <2>3. \A j \in Skb \ {k} : PhaseOf(j)' = PhaseOf(j)
    BY <1>7, <1>a, <2>0, SameStage DEF drain, TypeOK, InCallback
  <2>4. Pipe!Drop(k)
    BY <2>0, <2>2, <2>3, MoveOne DEF Pipe!Drop, Pipe!Move
  <2> QED BY <2>0, <2>4 DEF Pipe!Next
<1>8. ASSUME NEW c \in Ctx,
             \/ schedule_inc(c) \/ schedule_get(c) \/ schedule_anchor(c)
             \/ schedule_submit_err(c) \/ schedule_dec(c)
      PROVE  phase' = phase
  <2>1. UNCHANGED <<freed, hcd, sent>>
    BY <1>8 DEF schedule_inc, schedule_get, schedule_anchor, schedule_submit_err, schedule_dec
  <2>2. \A k \in Skb : InCallback(k)' <=> InCallback(k)
    BY <1>8, <1>a DEF schedule_inc, schedule_get, schedule_anchor, schedule_submit_err,
                      schedule_dec, TypeOK, InCallback
  <2> QED BY <2>1, <2>2, SameStage, <1>same
<1>9. ASSUME NEW c \in Completer, cb_dec(c) \/ deal_with_usb_errors(c) \/ cb_mark_dead(c)
      PROVE  phase' = phase
  <2>1. UNCHANGED <<freed, hcd, sent>> /\ c \in Ctx
    BY <1>9 DEF cb_dec, deal_with_usb_errors, cb_mark_dead, Ctx
  <2>2. \A k \in Skb : InCallback(k)' <=> InCallback(k)
    BY <1>9, <1>a, <2>1 DEF cb_dec, deal_with_usb_errors, cb_mark_dead, TypeOK, InCallback
  <2> QED BY <2>1, <2>2, SameStage, <1>same
<1>10. ASSUME NEW s \in Sender, usb_tx_anchor(s) PROVE phase' = phase
  <2>1. UNCHANGED <<freed, hcd, sent>> /\ s \in Ctx
    BY <1>10 DEF usb_tx_anchor, Ctx
  <2>2. \A k \in Skb : InCallback(k)' <=> InCallback(k)
    BY <1>10, <1>a, <2>1 DEF usb_tx_anchor, TypeOK, InCallback
  <2> QED BY <2>1, <2>2, SameStage, <1>same
<1>11. ASSUME \/ unbind \/ unregister \/ flush \/ poison_anchor \/ poison_done \/ free_device
              \/ (\E k \in Skb : poison_urb(k)) \/ UNCHANGED vars
       PROVE  phase' = phase
  <2>1. UNCHANGED <<freed, hcd, sent, pc, urb>>
    BY <1>11 DEF unbind, unregister, flush, poison_anchor, poison_done, free_device,
                 poison_urb, vars
  <2> QED BY <2>1 DEF PhaseOf, InCallback
<1> QED
  BY <1>1, <1>2, <1>3, <1>4, <1>5, <1>6, <1>7, <1>8, <1>9, <1>10, <1>11
  DEF Next, Send, tx_schedule, tx_usb_cb, usb_disconnect

\* The lock-free transmit path of usb.c implements the pipe of TxPipe, for any
\* number of buffers and contexts and any limit: buffers only move forward
\* through their life and never too many are with the controller.
THEOREM RefinesPipe == Spec => ImplementsPipe
<1>1. Init => Pipe!Init
  <2> SUFFICES ASSUME Init PROVE [k \in Skb |-> PhaseOf(k)] = [k \in Skb |-> "new"]
    BY DEF Pipe!Init
  <2>1. \A k \in Skb : PhaseOf(k) = "new"
    BY UsbTxAssumption DEF Init, PhaseOf, InCallback
  <2> QED BY <2>1
<1> QED BY <1>1, StepSimulation, InductiveHolds, PTL DEF Spec, ImplementsPipe, Pipe!Spec
=============================================================================
