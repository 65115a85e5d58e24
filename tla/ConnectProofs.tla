--------------------------- MODULE ConnectProofs ---------------------------
(***************************************************************************)
(* Proofs about Connect for any set of networks and any number of connects.*)
(* What is followed is one token: a join command that is out, its event    *)
(* between parking the result and queueing the work, the work that is      *)
(* pending and the work that runs are four places of the same thing, and   *)
(* as long as the user abandons no join there is at most one.              *)
(***************************************************************************)
EXTENDS Connect, SequenceTheorems, TLAPS

\* An item is in the queue at most once.
NoRepeats(q) == \A i, j \in 1 .. Len(q) : q[i] = q[j] => i = j

\* The connected bss and the state: only a death may separate them, and
\* cfg80211 knows of the link of a station.
LinkInv ==
    /\ IsConnected => connect_bss # NoBss
    /\ connect_bss # NoBss => state \in {"CONNECTED", "DEAD"}
    /\ up = "stopping" => state # "CONNECTED"
    /\ up \in {"cancel_connect", "cancel_disconnect", "down"} => state \in {"STOP", "DEAD"}
    /\ iftype = "STATION" => (told = "up" <=> connect_bss # NoBss)
    /\ iftype = "ADHOC" => told = "down"

\* An item is pending at most once; a bss is carried out of the lock only to be
\* freed; cfg80211 leaves the network before it stops the interface.
WorkInv ==
    /\ NoRepeats(wq)
    /\ wbss # NoBss => wpc = "out"
    /\ up # "up" => sme = "idle"

\* A connect_bss_work is on its way, in one of three places at most.
Pending == tpc = "queue" \/ Contains(wq, "connect") \/ wpc = "connect"

\* ... and never in two of them.
OnePlace ==
    /\ ~(tpc = "queue" /\ Contains(wq, "connect"))
    /\ ~(tpc = "queue" /\ wpc = "connect")
    /\ ~(Contains(wq, "connect") /\ wpc = "connect")

\* With memory for join events, a work on its way has its result parked.
ResultInv == ~lost => OnePlace /\ (Pending => connect_result \in Result)

\* Unless a join was abandoned, at most one is under way; while it is, the user
\* is waiting for it and the bss is wanted.
JoinInv ==
    ~abandoned =>
        /\ OnePlace
        /\ joining <= 1 /\ (joining > 0 => ~Pending)
        /\ joining > 0 \/ Pending => sme = "connecting" /\ want_connect_bss # NoBss
        /\ connect_bss # NoBss => sme = "connected" /\ wbss = NoBss

\* The references behind each of the three pointers.  want_connect_bss counts
\* only while a join is under way: it goes on naming a bss that is freed.
\* r92su_stop may free that bss a second time while the work is about to.
RefInv ==
    ~unbalanced =>
        /\ \A b \in Bss : refs[b] >= 0
        /\ ~abandoned =>
            /\ connect_bss # NoBss => refs[connect_bss] >= 1
            /\ joining > 0 \/ Pending =>
                /\ refs[want_connect_bss] >= 1
                /\ wbss = want_connect_bss => refs[want_connect_bss] >= 2
            /\ wbss # NoBss /\ up # "cancel_connect" => refs[wbss] >= 1

\* The invariant of the connection.
Inductive ==
    TypeOK /\ LinkInv /\ WorkInv /\ ResultInv /\ JoinInv /\ RefInv /\ ConnectedCanSend

-----------------------------------------------------------------------------
(* The work queue *)

\* Appending adds one item.
LEMMA AppendFacts ==
  ASSUME NEW S, NEW q \in Seq(S), NEW e \in S
  PROVE  /\ Append(q, e) \in Seq(S)
         /\ \A x : Contains(Append(q, e), x) <=> Contains(q, x) \/ x = e
         /\ NoRepeats(q) /\ ~Contains(q, e) => NoRepeats(Append(q, e))
<1>1. /\ Append(q, e) \in Seq(S)
      /\ Len(q) \in Nat /\ Len(Append(q, e)) = Len(q) + 1
      /\ Append(q, e)[Len(q) + 1] = e
      /\ \A i \in 1 .. Len(q) : Append(q, e)[i] = q[i]
  OBVIOUS
<1>2. \A i : i \in 1 .. Len(q) + 1 <=> i \in 1 .. Len(q) \/ i = Len(q) + 1
  BY <1>1
<1> QED BY <1>1, <1>2 DEF Contains, NoRepeats

\* Taking the head of a queue without repetitions removes exactly the head.
LEMMA TailFacts ==
  ASSUME NEW S, NEW q \in Seq(S), q # <<>>
  PROVE  /\ Head(q) \in S /\ Tail(q) \in Seq(S) /\ Contains(q, Head(q))
         /\ NoRepeats(q) => /\ NoRepeats(Tail(q))
                            /\ \A x : Contains(Tail(q), x) <=> Contains(q, x) /\ x # Head(q)
<1>1. /\ Head(q) \in S /\ Head(q) = q[1] /\ 1 \in 1 .. Len(q)
      /\ Tail(q) \in Seq(S) 
      /\ \A i \in 1 .. Len(Tail(q)) :
            i \in Int /\ i > 0 /\ i + 1 \in 1 .. Len(q) /\ Tail(q)[i] = q[i + 1]
      /\ \A i \in 1 .. Len(q) :
            i # 1 => i \in Int /\ i - 1 \in 1 .. Len(Tail(q)) /\ Tail(q)[i - 1] = q[i]
  OBVIOUS
<1>2. Contains(q, Head(q))
  BY <1>1 DEF Contains
<1>3. ASSUME NoRepeats(q) PROVE NoRepeats(Tail(q))
  BY <1>1, <1>3 DEF NoRepeats
<1>4. ASSUME NoRepeats(q), NEW x PROVE Contains(Tail(q), x) => Contains(q, x) /\ x # Head(q)
  BY <1>1, <1>4 DEF NoRepeats, Contains
<1>5. ASSUME NEW x, Contains(q, x), x # Head(q) PROVE Contains(Tail(q), x)
  BY <1>1, <1>5 DEF Contains
<1> QED BY <1>1, <1>2, <1>3, <1>4, <1>5

\* The sequence without its i-th element.
LEMMA RemoveAtFacts ==
  ASSUME NEW S, NEW q \in Seq(S), NEW i \in 1 .. Len(q)
  PROVE  /\ RemoveAt(q, i) \in Seq(S)
         /\ Len(RemoveAt(q, i)) = Len(q) - 1
         /\ \A j \in 1 .. Len(q) - 1 : RemoveAt(q, i)[j] = IF j < i THEN q[j] ELSE q[j + 1]
<1> DEFINE a == SubSeq(q, 1, i - 1)
           b == SubSeq(q, i + 1, Len(q))
<1>1. a \in Seq(S) /\ Len(a) = i - 1 /\ \A j \in 1 .. i - 1 : a[j] = q[j]
  OBVIOUS
<1>2. b \in Seq(S) /\ Len(b) = Len(q) - i /\ \A j \in 1 .. Len(q) - i : b[j] = q[i + j]
  OBVIOUS
<1> HIDE DEF a, b
<1>3. a \o b \in Seq(S)
  BY <1>1, <1>2, ConcatProperties
<1>4. Len(a \o b) = Len(q) - 1
  BY <1>1, <1>2
<1>5. \A j \in 1 .. Len(q) - 1 : (a \o b)[j] = IF j < i THEN q[j] ELSE q[j + 1]
  BY <1>1, <1>2
<1> QED BY <1>3, <1>4, <1>5 DEF RemoveAt, a, b

\* cancel_work_sync takes exactly the one item out of the queue.
LEMMA CancelledFacts ==
  ASSUME wq \in Seq(Item), NoRepeats(wq), NEW e \in Item
  PROVE  /\ Cancelled(e) \in Seq(Item) /\ NoRepeats(Cancelled(e))
         /\ \A x : Contains(Cancelled(e), x) <=> Contains(wq, x) /\ x # e
<1>1. CASE ~Contains(wq, e)
  BY <1>1 DEF Cancelled
<1>2. CASE Contains(wq, e)
  <2> DEFINE i == CHOOSE j \in 1 .. Len(wq) : wq[j] = e
             r == RemoveAt(wq, i)
  <2>1. i \in 1 .. Len(wq) /\ wq[i] = e /\ r = Cancelled(e)
    BY <1>2 DEF Contains, Cancelled
  <2> HIDE DEF i
  <2>2. Len(wq) \in Nat
    OBVIOUS
  <2>3. /\ r \in Seq(Item) /\ Len(r) = Len(wq) - 1 /\ Len(wq) \in Nat
        /\ \A j \in 1 .. Len(wq) - 1 : r[j] = IF j < i THEN wq[j] ELSE wq[j + 1]
    BY <2>1, <2>2, RemoveAtFacts, Zenon
  <2> HIDE DEF r
  <2>4. NoRepeats(r)
    BY <2>1, <2>3 DEF NoRepeats
  <2>5. ASSUME NEW x, Contains(r, x) PROVE Contains(wq, x) /\ x # e
    BY <2>1, <2>3, <2>5 DEF NoRepeats, Contains
  <2>6. ASSUME NEW x, Contains(wq, x), x # e PROVE Contains(r, x)
    <3>1. PICK k \in 1 .. Len(wq) : wq[k] = x
      BY <2>6 DEF Contains
    <3>2. k < i \/ k > i
      BY <2>1, <2>6, <3>1
    <3>3. CASE k < i
      BY <2>1, <2>3, <3>1, <3>3 DEF Contains
    <3>4. CASE k > i
      <4>1. k - 1 \in 1 .. Len(r) /\ r[k - 1] = wq[k - 1 + 1] /\ k - 1 + 1 = k
        BY <2>1, <2>3, <3>4
      <4> QED BY <3>1, <4>1 DEF Contains
    <3> QED BY <3>2, <3>3, <3>4
  <2> QED BY <2>1, <2>3, <2>4, <2>5, <2>6
<1> QED BY <1>1, <1>2

\* queue_work adds an item that is not pending.
LEMMA QueuedFacts ==
  ASSUME wq \in Seq(Item), NoRepeats(wq), NEW e \in Item
  PROVE  /\ Queued(e) \in Seq(Item) /\ NoRepeats(Queued(e))
         /\ \A x : Contains(Queued(e), x) <=> Contains(wq, x) \/ x = e
  BY AppendFacts DEF Queued

-----------------------------------------------------------------------------
(* The invariant *)

\* A device that is down, with nothing connected or wanted.
LEMMA InductiveInit == Init => Inductive
<1> SUFFICES ASSUME Init PROVE Inductive
  OBVIOUS
<1>1. /\ carrier \in BOOLEAN /\ misused \in BOOLEAN /\ unbalanced \in BOOLEAN
      /\ abandoned \in BOOLEAN /\ lost \in BOOLEAN
  BY Zenon DEF Init
<1>2. TypeOK
  BY <1>1, ConnectAssumption DEF Init, TypeOK, Iftype, State, Result, Item
<1>3. NoRepeats(wq) /\ \A x : ~Contains(wq, x)
  BY DEF Init, NoRepeats, Contains
<1> QED BY <1>2, <1>3 DEF Init, Inductive, LinkInv, WorkInv, ResultInv, JoinInv, RefInv,
           ConnectedCanSend, Pending, OnePlace, IsConnected, IsOpen, Result

\* No step leaves the types.
LEMMA TypeNext == TypeOK /\ WorkInv /\ [Next]_vars => TypeOK'
<1> SUFFICES ASSUME TypeOK, WorkInv, [Next]_vars PROVE TypeOK'
  OBVIOUS
<1> USE DEF TypeOK, works, bsses, kernel, fw, user, ghosts, vars, Iftype, State, Result, Item,
            IsOpen, IsConnected, LockFree, Kfreed, Get, bss_free, bss_free_connected, Call, Report
<1>1. ASSUME connect_nothing PROVE TypeOK'
  BY <1>1, ConnectAssumption DEF connect_nothing
<1>2. ASSUME connect_unknown PROVE TypeOK'
  BY <1>2, ConnectAssumption DEF connect_unknown
<1>3. ASSUME NEW b \in Bss, connect_refused(b) PROVE TypeOK'
  BY <1>3, ConnectAssumption DEF connect_refused
<1>4. ASSUME NEW b \in Bss, connect_failed(b) PROVE TypeOK'
  BY <1>4, ConnectAssumption DEF connect_failed
<1>5. ASSUME NEW b \in Bss, connect(b) PROVE TypeOK'
  BY <1>5, ConnectAssumption DEF connect
<1>6. ASSUME disconnect PROVE TypeOK'
  <2>1. /\ carrier' \in BOOLEAN /\ misused' \in BOOLEAN /\ unbalanced' \in BOOLEAN
        /\ abandoned' \in BOOLEAN /\ lost' \in BOOLEAN
    BY <1>6, Zenon DEF disconnect
  <2> QED BY <1>6, <2>1, ConnectAssumption DEF disconnect
<1>7. ASSUME open PROVE TypeOK'
  BY <1>7, ConnectAssumption DEF open
<1>8. ASSUME NEW t \in Iftype, change_virtual_intf(t) PROVE TypeOK'
  BY <1>8, ConnectAssumption DEF change_virtual_intf
<1>9. ASSUME stop PROVE TypeOK'
  <2>1. /\ carrier' \in BOOLEAN /\ misused' \in BOOLEAN /\ unbalanced' \in BOOLEAN
        /\ abandoned' \in BOOLEAN /\ lost' \in BOOLEAN
    BY <1>9, Zenon DEF stop
  <2> QED BY <1>9, <2>1, ConnectAssumption DEF stop
<1>10. ASSUME stop_want PROVE TypeOK'
  <2>1. /\ carrier' \in BOOLEAN /\ misused' \in BOOLEAN /\ unbalanced' \in BOOLEAN
        /\ abandoned' \in BOOLEAN /\ lost' \in BOOLEAN
    BY <1>10, Zenon DEF stop_want
  <2> QED BY <1>10, <2>1, ConnectAssumption DEF stop_want
<1>11. ASSUME stop_cancel_connect PROVE TypeOK'
  <2>1. /\ Cancelled("connect") \in Seq(Item) /\ NoRepeats(Cancelled("connect"))
        /\ \A x : Contains(Cancelled("connect"), x) <=> Contains(wq, x) /\ x # "connect"
    BY CancelledFacts DEF WorkInv
  <2> QED BY <1>11, <2>1 DEF stop_cancel_connect
<1>12. ASSUME stop_cancel_disconnect PROVE TypeOK'
  <2>1. /\ Cancelled("disconnect") \in Seq(Item) /\ NoRepeats(Cancelled("disconnect"))
        /\ \A x : Contains(Cancelled("disconnect"), x) <=> Contains(wq, x) /\ x # "disconnect"
    BY CancelledFacts DEF WorkInv
  <2> QED BY <1>12, <2>1 DEF stop_cancel_disconnect
<1>13. ASSUME NEW r \in Result, join_bss_event(r) PROVE TypeOK'
  <2>1. /\ carrier' \in BOOLEAN /\ misused' \in BOOLEAN /\ unbalanced' \in BOOLEAN
        /\ abandoned' \in BOOLEAN /\ lost' \in BOOLEAN
    BY <1>13, Zenon DEF join_bss_event
  <2> QED BY <1>13, <2>1, ConnectAssumption DEF join_bss_event
<1>14. ASSUME join_bss_queue PROVE TypeOK'
  <2>1. /\ Queued("connect") \in Seq(Item) /\ NoRepeats(Queued("connect"))
        /\ \A x : Contains(Queued("connect"), x) <=> Contains(wq, x) \/ x = "connect"
    BY QueuedFacts DEF WorkInv
  <2> QED BY <1>14, <2>1 DEF join_bss_queue
<1>15. ASSUME del_sta_event PROVE TypeOK'
  <2>1. /\ Queued("disconnect") \in Seq(Item) /\ NoRepeats(Queued("disconnect"))
        /\ \A x : Contains(Queued("disconnect"), x) <=> Contains(wq, x) \/ x = "disconnect"
    BY QueuedFacts DEF WorkInv
  <2>2. carrier' \in BOOLEAN
    BY <1>15, Zenon DEF del_sta_event
  <2> QED BY <1>15, <2>1, <2>2 DEF del_sta_event
<1>16. ASSUME work_start PROVE TypeOK'
  <2>1. /\ Head(wq) \in Item /\ Tail(wq) \in Seq(Item) /\ NoRepeats(Tail(wq))
        /\ Contains(wq, Head(wq))
        /\ \A x : Contains(Tail(wq), x) <=> Contains(wq, x) /\ x # Head(wq)
    BY <1>16, TailFacts DEF WorkInv, work_start
  <2> QED BY <1>16, <2>1 DEF work_start
<1>17. ASSUME connect_work_out PROVE TypeOK'
  BY <1>17, ConnectAssumption DEF connect_work_out
<1>18. ASSUME connect_work_joined PROVE TypeOK'
  BY <1>18, ConnectAssumption DEF connect_work_joined
<1>19. ASSUME connect_work_refused PROVE TypeOK'
  BY <1>19, ConnectAssumption DEF connect_work_refused
<1>20. ASSUME connect_work_start PROVE TypeOK'
  BY <1>20, ConnectAssumption DEF connect_work_start
<1>21. ASSUME connect_work_free PROVE TypeOK'
  <2>1. /\ carrier' \in BOOLEAN /\ misused' \in BOOLEAN /\ unbalanced' \in BOOLEAN
        /\ abandoned' \in BOOLEAN /\ lost' \in BOOLEAN
    BY <1>21, Zenon DEF connect_work_free
  <2> QED BY <1>21, <2>1, ConnectAssumption DEF connect_work_free
<1>22. ASSUME disconnect_work PROVE TypeOK'
  <2>1. /\ carrier' \in BOOLEAN /\ misused' \in BOOLEAN /\ unbalanced' \in BOOLEAN
        /\ abandoned' \in BOOLEAN /\ lost' \in BOOLEAN
    BY <1>22, Zenon DEF disconnect_work
  <2> QED BY <1>22, <2>1, ConnectAssumption DEF disconnect_work
<1>23. ASSUME mark_dead PROVE TypeOK'
  <2>1. /\ carrier' \in BOOLEAN /\ misused' \in BOOLEAN /\ unbalanced' \in BOOLEAN
        /\ abandoned' \in BOOLEAN /\ lost' \in BOOLEAN
    BY <1>23, Zenon DEF mark_dead
  <2> QED BY <1>23, <2>1, ConnectAssumption DEF mark_dead
<1>24. ASSUME Rest PROVE TypeOK'
  BY <1>24, ConnectAssumption DEF Rest
<1>25. CASE UNCHANGED vars
  BY <1>25 DEF vars
<1> QED
  BY <1>1, <1>2, <1>3, <1>4, <1>5, <1>6, <1>7, <1>8, <1>9, <1>10, <1>11, <1>12,
     <1>13, <1>14, <1>15, <1>16, <1>17, <1>18, <1>19, <1>20, <1>21, <1>22, <1>23,
     <1>24, <1>25
  DEF Next, User, Tasklet, Works

\* connect_bss, the state and what cfg80211 was told change together.
LEMMA LinkNext == TypeOK /\ LinkInv /\ [Next]_vars => LinkInv'
<1> SUFFICES ASSUME TypeOK, LinkInv, [Next]_vars PROVE LinkInv'
  OBVIOUS
<1> USE DEF TypeOK, works, bsses, kernel, fw, user, ghosts, vars, Iftype, State, Result, Item,
            IsOpen, IsConnected, LockFree, Kfreed, Get, bss_free, bss_free_connected, Call, Report,
            LinkInv
<1>1. ASSUME connect_nothing PROVE LinkInv'
  BY <1>1, ConnectAssumption DEF connect_nothing
<1>2. ASSUME connect_unknown PROVE LinkInv'
  BY <1>2, ConnectAssumption DEF connect_unknown
<1>3. ASSUME NEW b \in Bss, connect_refused(b) PROVE LinkInv'
  BY <1>3, ConnectAssumption DEF connect_refused
<1>4. ASSUME NEW b \in Bss, connect_failed(b) PROVE LinkInv'
  BY <1>4, ConnectAssumption DEF connect_failed
<1>5. ASSUME NEW b \in Bss, connect(b) PROVE LinkInv'
  BY <1>5, ConnectAssumption DEF connect
<1>6. ASSUME disconnect PROVE LinkInv'
  BY <1>6, ConnectAssumption DEF disconnect
<1>7. ASSUME open PROVE LinkInv'
  BY <1>7, ConnectAssumption DEF open
<1>8. ASSUME NEW t \in Iftype, change_virtual_intf(t) PROVE LinkInv'
  BY <1>8, ConnectAssumption DEF change_virtual_intf
<1>9. ASSUME stop PROVE LinkInv'
  BY <1>9, ConnectAssumption DEF stop
<1>10. ASSUME stop_want PROVE LinkInv'
  BY <1>10, ConnectAssumption DEF stop_want
<1>11. ASSUME stop_cancel_connect PROVE LinkInv'
  BY <1>11, ConnectAssumption DEF stop_cancel_connect
<1>12. ASSUME stop_cancel_disconnect PROVE LinkInv'
  BY <1>12, ConnectAssumption DEF stop_cancel_disconnect
<1>13. ASSUME NEW r \in Result, join_bss_event(r) PROVE LinkInv'
  BY <1>13, ConnectAssumption DEF join_bss_event
<1>14. ASSUME join_bss_queue PROVE LinkInv'
  BY <1>14, ConnectAssumption DEF join_bss_queue
<1>15. ASSUME del_sta_event PROVE LinkInv'
  BY <1>15, ConnectAssumption DEF del_sta_event
<1>16. ASSUME work_start PROVE LinkInv'
  BY <1>16, ConnectAssumption DEF work_start
<1>17. ASSUME connect_work_out PROVE LinkInv'
  BY <1>17, ConnectAssumption DEF connect_work_out
<1>18. ASSUME connect_work_joined PROVE LinkInv'
  BY <1>18, ConnectAssumption DEF connect_work_joined
<1>19. ASSUME connect_work_refused PROVE LinkInv'
  BY <1>19, ConnectAssumption DEF connect_work_refused
<1>20. ASSUME connect_work_start PROVE LinkInv'
  BY <1>20, ConnectAssumption DEF connect_work_start
<1>21. ASSUME connect_work_free PROVE LinkInv'
  BY <1>21, ConnectAssumption DEF connect_work_free
<1>22. ASSUME disconnect_work PROVE LinkInv'
  BY <1>22, ConnectAssumption DEF disconnect_work
<1>23. ASSUME mark_dead PROVE LinkInv'
  BY <1>23, ConnectAssumption DEF mark_dead
<1>24. ASSUME Rest PROVE LinkInv'
  BY <1>24, ConnectAssumption DEF Rest
<1>25. CASE UNCHANGED vars
  BY <1>25 DEF vars
<1> QED
  BY <1>1, <1>2, <1>3, <1>4, <1>5, <1>6, <1>7, <1>8, <1>9, <1>10, <1>11, <1>12,
     <1>13, <1>14, <1>15, <1>16, <1>17, <1>18, <1>19, <1>20, <1>21, <1>22, <1>23,
     <1>24, <1>25
  DEF Next, User, Tasklet, Works

\* The queue and what runs from it.
LEMMA WorkNext == TypeOK /\ WorkInv /\ [Next]_vars => WorkInv'
<1> SUFFICES ASSUME TypeOK, WorkInv, [Next]_vars PROVE WorkInv'
  OBVIOUS
<1> USE DEF TypeOK, works, bsses, kernel, fw, user, ghosts, vars, Iftype, State, Result, Item,
            IsOpen, IsConnected, LockFree, Kfreed, Get, bss_free, bss_free_connected, Call, Report,
            WorkInv
<1>1. ASSUME connect_nothing PROVE WorkInv'
  BY <1>1, ConnectAssumption DEF connect_nothing
<1>2. ASSUME connect_unknown PROVE WorkInv'
  BY <1>2, ConnectAssumption DEF connect_unknown
<1>3. ASSUME NEW b \in Bss, connect_refused(b) PROVE WorkInv'
  BY <1>3, ConnectAssumption DEF connect_refused
<1>4. ASSUME NEW b \in Bss, connect_failed(b) PROVE WorkInv'
  BY <1>4, ConnectAssumption DEF connect_failed
<1>5. ASSUME NEW b \in Bss, connect(b) PROVE WorkInv'
  BY <1>5, ConnectAssumption DEF connect
<1>6. ASSUME disconnect PROVE WorkInv'
  BY <1>6, ConnectAssumption DEF disconnect
<1>7. ASSUME open PROVE WorkInv'
  BY <1>7, ConnectAssumption DEF open
<1>8. ASSUME NEW t \in Iftype, change_virtual_intf(t) PROVE WorkInv'
  BY <1>8, ConnectAssumption DEF change_virtual_intf
<1>9. ASSUME stop PROVE WorkInv'
  BY <1>9, ConnectAssumption DEF stop
<1>10. ASSUME stop_want PROVE WorkInv'
  BY <1>10, ConnectAssumption DEF stop_want
<1>11. ASSUME stop_cancel_connect PROVE WorkInv'
  <2>1. /\ Cancelled("connect") \in Seq(Item) /\ NoRepeats(Cancelled("connect"))
        /\ \A x : Contains(Cancelled("connect"), x) <=> Contains(wq, x) /\ x # "connect"
    BY CancelledFacts DEF WorkInv
  <2> QED BY <1>11, <2>1 DEF stop_cancel_connect
<1>12. ASSUME stop_cancel_disconnect PROVE WorkInv'
  <2>1. /\ Cancelled("disconnect") \in Seq(Item) /\ NoRepeats(Cancelled("disconnect"))
        /\ \A x : Contains(Cancelled("disconnect"), x) <=> Contains(wq, x) /\ x # "disconnect"
    BY CancelledFacts DEF WorkInv
  <2> QED BY <1>12, <2>1 DEF stop_cancel_disconnect
<1>13. ASSUME NEW r \in Result, join_bss_event(r) PROVE WorkInv'
  BY <1>13, ConnectAssumption DEF join_bss_event
<1>14. ASSUME join_bss_queue PROVE WorkInv'
  <2>1. /\ Queued("connect") \in Seq(Item) /\ NoRepeats(Queued("connect"))
        /\ \A x : Contains(Queued("connect"), x) <=> Contains(wq, x) \/ x = "connect"
    BY QueuedFacts DEF WorkInv
  <2> QED BY <1>14, <2>1 DEF join_bss_queue
<1>15. ASSUME del_sta_event PROVE WorkInv'
  <2>1. /\ Queued("disconnect") \in Seq(Item) /\ NoRepeats(Queued("disconnect"))
        /\ \A x : Contains(Queued("disconnect"), x) <=> Contains(wq, x) \/ x = "disconnect"
    BY QueuedFacts DEF WorkInv
  <2> QED BY <1>15, <2>1 DEF del_sta_event
<1>16. ASSUME work_start PROVE WorkInv'
  <2>1. /\ Head(wq) \in Item /\ Tail(wq) \in Seq(Item) /\ NoRepeats(Tail(wq))
        /\ Contains(wq, Head(wq))
        /\ \A x : Contains(Tail(wq), x) <=> Contains(wq, x) /\ x # Head(wq)
    BY <1>16, TailFacts DEF WorkInv, work_start
  <2> QED BY <1>16, <2>1 DEF work_start
<1>17. ASSUME connect_work_out PROVE WorkInv'
  BY <1>17, ConnectAssumption DEF connect_work_out
<1>18. ASSUME connect_work_joined PROVE WorkInv'
  BY <1>18, ConnectAssumption DEF connect_work_joined
<1>19. ASSUME connect_work_refused PROVE WorkInv'
  BY <1>19, ConnectAssumption DEF connect_work_refused
<1>20. ASSUME connect_work_start PROVE WorkInv'
  BY <1>20, ConnectAssumption DEF connect_work_start
<1>21. ASSUME connect_work_free PROVE WorkInv'
  BY <1>21, ConnectAssumption DEF connect_work_free
<1>22. ASSUME disconnect_work PROVE WorkInv'
  BY <1>22, ConnectAssumption DEF disconnect_work
<1>23. ASSUME mark_dead PROVE WorkInv'
  BY <1>23, ConnectAssumption DEF mark_dead
<1>24. ASSUME Rest PROVE WorkInv'
  BY <1>24, ConnectAssumption DEF Rest
<1>25. CASE UNCHANGED vars
  BY <1>25 DEF vars
<1> QED
  BY <1>1, <1>2, <1>3, <1>4, <1>5, <1>6, <1>7, <1>8, <1>9, <1>10, <1>11, <1>12,
     <1>13, <1>14, <1>15, <1>16, <1>17, <1>18, <1>19, <1>20, <1>21, <1>22, <1>23,
     <1>24, <1>25
  DEF Next, User, Tasklet, Works

\* Whoever turns the carrier off has a disconnect_work queued, or the device is
\* dead; whoever connects is about to turn it on.
LEMMA SendNext == TypeOK /\ LinkInv /\ WorkInv /\ ConnectedCanSend /\ [Next]_vars => ConnectedCanSend'
<1> SUFFICES ASSUME TypeOK, LinkInv, WorkInv, ConnectedCanSend, [Next]_vars PROVE ConnectedCanSend'
  OBVIOUS
<1> USE DEF TypeOK, works, bsses, kernel, fw, user, ghosts, vars, Iftype, State, Result, Item,
            IsOpen, IsConnected, LockFree, Kfreed, Get, bss_free, bss_free_connected, Call, Report,
            LinkInv, ConnectedCanSend
<1>1. ASSUME connect_nothing PROVE ConnectedCanSend'
  BY <1>1, ConnectAssumption DEF connect_nothing
<1>2. ASSUME connect_unknown PROVE ConnectedCanSend'
  BY <1>2, ConnectAssumption DEF connect_unknown
<1>3. ASSUME NEW b \in Bss, connect_refused(b) PROVE ConnectedCanSend'
  BY <1>3, ConnectAssumption DEF connect_refused
<1>4. ASSUME NEW b \in Bss, connect_failed(b) PROVE ConnectedCanSend'
  BY <1>4, ConnectAssumption DEF connect_failed
<1>5. ASSUME NEW b \in Bss, connect(b) PROVE ConnectedCanSend'
  BY <1>5, ConnectAssumption DEF connect
<1>6. ASSUME disconnect PROVE ConnectedCanSend'
  BY <1>6, ConnectAssumption DEF disconnect
<1>7. ASSUME open PROVE ConnectedCanSend'
  BY <1>7, ConnectAssumption DEF open
<1>8. ASSUME NEW t \in Iftype, change_virtual_intf(t) PROVE ConnectedCanSend'
  BY <1>8, ConnectAssumption DEF change_virtual_intf
<1>9. ASSUME stop PROVE ConnectedCanSend'
  BY <1>9, ConnectAssumption DEF stop
<1>10. ASSUME stop_want PROVE ConnectedCanSend'
  BY <1>10, ConnectAssumption DEF stop_want
<1>11. ASSUME stop_cancel_connect PROVE ConnectedCanSend'
  <2>1. /\ Cancelled("connect") \in Seq(Item) /\ NoRepeats(Cancelled("connect"))
        /\ \A x : Contains(Cancelled("connect"), x) <=> Contains(wq, x) /\ x # "connect"
    BY CancelledFacts DEF WorkInv
  <2> QED BY <1>11, <2>1 DEF stop_cancel_connect
<1>12. ASSUME stop_cancel_disconnect PROVE ConnectedCanSend'
  <2>1. /\ Cancelled("disconnect") \in Seq(Item) /\ NoRepeats(Cancelled("disconnect"))
        /\ \A x : Contains(Cancelled("disconnect"), x) <=> Contains(wq, x) /\ x # "disconnect"
    BY CancelledFacts DEF WorkInv
  <2> QED BY <1>12, <2>1 DEF stop_cancel_disconnect
<1>13. ASSUME NEW r \in Result, join_bss_event(r) PROVE ConnectedCanSend'
  BY <1>13, ConnectAssumption DEF join_bss_event
<1>14. ASSUME join_bss_queue PROVE ConnectedCanSend'
  <2>1. /\ Queued("connect") \in Seq(Item) /\ NoRepeats(Queued("connect"))
        /\ \A x : Contains(Queued("connect"), x) <=> Contains(wq, x) \/ x = "connect"
    BY QueuedFacts DEF WorkInv
  <2> QED BY <1>14, <2>1 DEF join_bss_queue
<1>15. ASSUME del_sta_event PROVE ConnectedCanSend'
  <2>1. /\ Queued("disconnect") \in Seq(Item) /\ NoRepeats(Queued("disconnect"))
        /\ \A x : Contains(Queued("disconnect"), x) <=> Contains(wq, x) \/ x = "disconnect"
    BY QueuedFacts DEF WorkInv
  <2> QED BY <1>15, <2>1 DEF del_sta_event
<1>16. ASSUME work_start PROVE ConnectedCanSend'
  <2>1. /\ Head(wq) \in Item /\ Tail(wq) \in Seq(Item) /\ NoRepeats(Tail(wq))
        /\ Contains(wq, Head(wq))
        /\ \A x : Contains(Tail(wq), x) <=> Contains(wq, x) /\ x # Head(wq)
    BY <1>16, TailFacts DEF WorkInv, work_start
  <2> QED BY <1>16, <2>1 DEF work_start
<1>17. ASSUME connect_work_out PROVE ConnectedCanSend'
  BY <1>17, ConnectAssumption DEF connect_work_out
<1>18. ASSUME connect_work_joined PROVE ConnectedCanSend'
  BY <1>18, ConnectAssumption DEF connect_work_joined
<1>19. ASSUME connect_work_refused PROVE ConnectedCanSend'
  BY <1>19, ConnectAssumption DEF connect_work_refused
<1>20. ASSUME connect_work_start PROVE ConnectedCanSend'
  BY <1>20, ConnectAssumption DEF connect_work_start
<1>21. ASSUME connect_work_free PROVE ConnectedCanSend'
  BY <1>21, ConnectAssumption DEF connect_work_free
<1>22. ASSUME disconnect_work PROVE ConnectedCanSend'
  BY <1>22, ConnectAssumption DEF disconnect_work
<1>23. ASSUME mark_dead PROVE ConnectedCanSend'
  BY <1>23, ConnectAssumption DEF mark_dead
<1>24. ASSUME Rest PROVE ConnectedCanSend'
  BY <1>24, ConnectAssumption DEF Rest
<1>25. CASE UNCHANGED vars
  BY <1>25 DEF vars
<1> QED
  BY <1>1, <1>2, <1>3, <1>4, <1>5, <1>6, <1>7, <1>8, <1>9, <1>10, <1>11, <1>12,
     <1>13, <1>14, <1>15, <1>16, <1>17, <1>18, <1>19, <1>20, <1>21, <1>22, <1>23,
     <1>24, <1>25
  DEF Next, User, Tasklet, Works

\* A result is parked when the work is announced and used up when it has run.
LEMMA ResultNext == TypeOK /\ WorkInv /\ ResultInv /\ [Next]_vars => ResultInv'
<1> SUFFICES ASSUME TypeOK, WorkInv, ResultInv, [Next]_vars PROVE ResultInv'
  OBVIOUS
<1> USE DEF TypeOK, works, bsses, kernel, fw, user, ghosts, vars, Iftype, State, Result, Item,
            IsOpen, IsConnected, LockFree, Kfreed, Get, bss_free, bss_free_connected, Call, Report,
            ResultInv, Pending, OnePlace
<1>1. ASSUME connect_nothing PROVE ResultInv'
  BY <1>1, ConnectAssumption DEF connect_nothing
<1>2. ASSUME connect_unknown PROVE ResultInv'
  BY <1>2, ConnectAssumption DEF connect_unknown
<1>3. ASSUME NEW b \in Bss, connect_refused(b) PROVE ResultInv'
  BY <1>3, ConnectAssumption DEF connect_refused
<1>4. ASSUME NEW b \in Bss, connect_failed(b) PROVE ResultInv'
  BY <1>4, ConnectAssumption DEF connect_failed
<1>5. ASSUME NEW b \in Bss, connect(b) PROVE ResultInv'
  BY <1>5, ConnectAssumption DEF connect
<1>6. ASSUME disconnect PROVE ResultInv'
  BY <1>6, ConnectAssumption DEF disconnect
<1>7. ASSUME open PROVE ResultInv'
  BY <1>7, ConnectAssumption DEF open
<1>8. ASSUME NEW t \in Iftype, change_virtual_intf(t) PROVE ResultInv'
  BY <1>8, ConnectAssumption DEF change_virtual_intf
<1>9. ASSUME stop PROVE ResultInv'
  BY <1>9, ConnectAssumption DEF stop
<1>10. ASSUME stop_want PROVE ResultInv'
  BY <1>10, ConnectAssumption DEF stop_want
<1>11. ASSUME stop_cancel_connect PROVE ResultInv'
  <2>1. /\ Cancelled("connect") \in Seq(Item) /\ NoRepeats(Cancelled("connect"))
        /\ \A x : Contains(Cancelled("connect"), x) <=> Contains(wq, x) /\ x # "connect"
    BY CancelledFacts DEF WorkInv
  <2> QED BY <1>11, <2>1 DEF stop_cancel_connect
<1>12. ASSUME stop_cancel_disconnect PROVE ResultInv'
  <2>1. /\ Cancelled("disconnect") \in Seq(Item) /\ NoRepeats(Cancelled("disconnect"))
        /\ \A x : Contains(Cancelled("disconnect"), x) <=> Contains(wq, x) /\ x # "disconnect"
    BY CancelledFacts DEF WorkInv
  <2> QED BY <1>12, <2>1 DEF stop_cancel_disconnect
<1>13. ASSUME NEW r \in Result, join_bss_event(r) PROVE ResultInv'
  <2>1. CASE connect_result # "none"
    BY <1>13, <2>1 DEF join_bss_event
  <2>2. CASE connect_result = "none" /\ connect_result' = "none"
    <3>1. lost' = TRUE
      BY <1>13, <2>2, Zenon DEF join_bss_event
    <3> QED BY <3>1
  <2>3. CASE connect_result = "none" /\ connect_result' = r
    <3>1. lost => lost'
      BY <1>13, <2>3, Zenon DEF join_bss_event
    <3>2. wq' = wq /\ wpc' = wpc
      BY <1>13 DEF join_bss_event
    <3> QED BY <2>3, <3>1, <3>2
  <2> QED BY <1>13, <2>1, <2>2, <2>3 DEF join_bss_event
<1>14. ASSUME join_bss_queue PROVE ResultInv'
  <2>1. /\ Queued("connect") \in Seq(Item) /\ NoRepeats(Queued("connect"))
        /\ \A x : Contains(Queued("connect"), x) <=> Contains(wq, x) \/ x = "connect"
    BY QueuedFacts DEF WorkInv
  <2> QED BY <1>14, <2>1 DEF join_bss_queue
<1>15. ASSUME del_sta_event PROVE ResultInv'
  <2>1. /\ Queued("disconnect") \in Seq(Item) /\ NoRepeats(Queued("disconnect"))
        /\ \A x : Contains(Queued("disconnect"), x) <=> Contains(wq, x) \/ x = "disconnect"
    BY QueuedFacts DEF WorkInv
  <2> QED BY <1>15, <2>1 DEF del_sta_event
<1>16. ASSUME work_start PROVE ResultInv'
  <2>1. /\ Head(wq) \in Item /\ Tail(wq) \in Seq(Item) /\ NoRepeats(Tail(wq))
        /\ Contains(wq, Head(wq))
        /\ \A x : Contains(Tail(wq), x) <=> Contains(wq, x) /\ x # Head(wq)
    BY <1>16, TailFacts DEF WorkInv, work_start
  <2> QED BY <1>16, <2>1 DEF work_start
<1>17. ASSUME connect_work_out PROVE ResultInv'
  BY <1>17, ConnectAssumption DEF connect_work_out
<1>18. ASSUME connect_work_joined PROVE ResultInv'
  BY <1>18, ConnectAssumption DEF connect_work_joined
<1>19. ASSUME connect_work_refused PROVE ResultInv'
  BY <1>19, ConnectAssumption DEF connect_work_refused
<1>20. ASSUME connect_work_start PROVE ResultInv'
  BY <1>20, ConnectAssumption DEF connect_work_start
<1>21. ASSUME connect_work_free PROVE ResultInv'
  BY <1>21, ConnectAssumption DEF connect_work_free
<1>22. ASSUME disconnect_work PROVE ResultInv'
  BY <1>22, ConnectAssumption DEF disconnect_work
<1>23. ASSUME mark_dead PROVE ResultInv'
  BY <1>23, ConnectAssumption DEF mark_dead
<1>24. ASSUME Rest PROVE ResultInv'
  BY <1>24, ConnectAssumption DEF Rest
<1>25. CASE UNCHANGED vars
  BY <1>25 DEF vars
<1> QED
  BY <1>1, <1>2, <1>3, <1>4, <1>5, <1>6, <1>7, <1>8, <1>9, <1>10, <1>11, <1>12,
     <1>13, <1>14, <1>15, <1>16, <1>17, <1>18, <1>19, <1>20, <1>21, <1>22, <1>23,
     <1>24, <1>25
  DEF Next, User, Tasklet, Works

\* The token moves from the command to the event to the work.
LEMMA JoinNext == TypeOK /\ LinkInv /\ WorkInv /\ JoinInv /\ [Next]_vars => JoinInv'
<1> SUFFICES ASSUME TypeOK, LinkInv, WorkInv, JoinInv, [Next]_vars PROVE JoinInv'
  OBVIOUS
<1> USE DEF TypeOK, works, bsses, kernel, fw, user, ghosts, vars, Iftype, State, Result, Item,
            IsOpen, IsConnected, LockFree, Kfreed, Get, bss_free, bss_free_connected, Call, Report,
            LinkInv, WorkInv, JoinInv, Pending, OnePlace
<1>1. ASSUME connect_nothing PROVE JoinInv'
  BY <1>1, ConnectAssumption DEF connect_nothing
<1>2. ASSUME connect_unknown PROVE JoinInv'
  BY <1>2, ConnectAssumption DEF connect_unknown
<1>3. ASSUME NEW b \in Bss, connect_refused(b) PROVE JoinInv'
  BY <1>3, ConnectAssumption DEF connect_refused
<1>4. ASSUME NEW b \in Bss, connect_failed(b) PROVE JoinInv'
  BY <1>4, ConnectAssumption DEF connect_failed
<1>5. ASSUME NEW b \in Bss, connect(b) PROVE JoinInv'
  BY <1>5, ConnectAssumption DEF connect
<1>6. ASSUME disconnect PROVE JoinInv'
  BY <1>6, ConnectAssumption DEF disconnect
<1>7. ASSUME open PROVE JoinInv'
  BY <1>7, ConnectAssumption DEF open
<1>8. ASSUME NEW t \in Iftype, change_virtual_intf(t) PROVE JoinInv'
  BY <1>8, ConnectAssumption DEF change_virtual_intf
<1>9. ASSUME stop PROVE JoinInv'
  BY <1>9, ConnectAssumption DEF stop
<1>10. ASSUME stop_want PROVE JoinInv'
  BY <1>10, ConnectAssumption DEF stop_want
<1>11. ASSUME stop_cancel_connect PROVE JoinInv'
  <2>1. /\ Cancelled("connect") \in Seq(Item) /\ NoRepeats(Cancelled("connect"))
        /\ \A x : Contains(Cancelled("connect"), x) <=> Contains(wq, x) /\ x # "connect"
    BY CancelledFacts DEF WorkInv
  <2> QED BY <1>11, <2>1 DEF stop_cancel_connect
<1>12. ASSUME stop_cancel_disconnect PROVE JoinInv'
  <2>1. /\ Cancelled("disconnect") \in Seq(Item) /\ NoRepeats(Cancelled("disconnect"))
        /\ \A x : Contains(Cancelled("disconnect"), x) <=> Contains(wq, x) /\ x # "disconnect"
    BY CancelledFacts DEF WorkInv
  <2> QED BY <1>12, <2>1 DEF stop_cancel_disconnect
<1>13. ASSUME NEW r \in Result, join_bss_event(r) PROVE JoinInv'
  BY <1>13, ConnectAssumption DEF join_bss_event
<1>14. ASSUME join_bss_queue PROVE JoinInv'
  <2>1. /\ Queued("connect") \in Seq(Item) /\ NoRepeats(Queued("connect"))
        /\ \A x : Contains(Queued("connect"), x) <=> Contains(wq, x) \/ x = "connect"
    BY QueuedFacts DEF WorkInv
  <2> QED BY <1>14, <2>1 DEF join_bss_queue
<1>15. ASSUME del_sta_event PROVE JoinInv'
  <2>1. /\ Queued("disconnect") \in Seq(Item) /\ NoRepeats(Queued("disconnect"))
        /\ \A x : Contains(Queued("disconnect"), x) <=> Contains(wq, x) \/ x = "disconnect"
    BY QueuedFacts DEF WorkInv
  <2> QED BY <1>15, <2>1 DEF del_sta_event
<1>16. ASSUME work_start PROVE JoinInv'
  <2>1. /\ Head(wq) \in Item /\ Tail(wq) \in Seq(Item) /\ NoRepeats(Tail(wq))
        /\ Contains(wq, Head(wq))
        /\ \A x : Contains(Tail(wq), x) <=> Contains(wq, x) /\ x # Head(wq)
    BY <1>16, TailFacts DEF WorkInv, work_start
  <2> QED BY <1>16, <2>1 DEF work_start
<1>17. ASSUME connect_work_out PROVE JoinInv'
  BY <1>17, ConnectAssumption DEF connect_work_out
<1>18. ASSUME connect_work_joined PROVE JoinInv'
  BY <1>18, ConnectAssumption DEF connect_work_joined
<1>19. ASSUME connect_work_refused PROVE JoinInv'
  BY <1>19, ConnectAssumption DEF connect_work_refused
<1>20. ASSUME connect_work_start PROVE JoinInv'
  BY <1>20, ConnectAssumption DEF connect_work_start
<1>21. ASSUME connect_work_free PROVE JoinInv'
  BY <1>21, ConnectAssumption DEF connect_work_free
<1>22. ASSUME disconnect_work PROVE JoinInv'
  BY <1>22, ConnectAssumption DEF disconnect_work
<1>23. ASSUME mark_dead PROVE JoinInv'
  BY <1>23, ConnectAssumption DEF mark_dead
<1>24. ASSUME Rest PROVE JoinInv'
  BY <1>24, ConnectAssumption DEF Rest
<1>25. CASE UNCHANGED vars
  BY <1>25 DEF vars
<1> QED
  BY <1>1, <1>2, <1>3, <1>4, <1>5, <1>6, <1>7, <1>8, <1>9, <1>10, <1>11, <1>12,
     <1>13, <1>14, <1>15, <1>16, <1>17, <1>18, <1>19, <1>20, <1>21, <1>22, <1>23,
     <1>24, <1>25
  DEF Next, User, Tasklet, Works

\* References are taken by connects and given back once, but for r92su_stop.
LEMMA RefNext == TypeOK /\ LinkInv /\ WorkInv /\ JoinInv /\ RefInv /\ [Next]_vars => RefInv'
<1> SUFFICES ASSUME TypeOK, LinkInv, WorkInv, JoinInv, RefInv, [Next]_vars PROVE RefInv'
  OBVIOUS
<1> USE DEF TypeOK, works, bsses, kernel, fw, user, ghosts, vars, Iftype, State, Result, Item,
            IsOpen, IsConnected, LockFree, Kfreed, Get, bss_free, bss_free_connected, Call, Report,
            LinkInv, WorkInv, JoinInv, RefInv, Pending, OnePlace
<1>1. ASSUME connect_nothing PROVE RefInv'
  BY <1>1, ConnectAssumption DEF connect_nothing
<1>2. ASSUME connect_unknown PROVE RefInv'
  BY <1>2, ConnectAssumption DEF connect_unknown
<1>3. ASSUME NEW b \in Bss, connect_refused(b) PROVE RefInv'
  BY <1>3, ConnectAssumption DEF connect_refused
<1>4. ASSUME NEW b \in Bss, connect_failed(b) PROVE RefInv'
  BY <1>4, ConnectAssumption DEF connect_failed
<1>5. ASSUME NEW b \in Bss, connect(b) PROVE RefInv'
  BY <1>5, ConnectAssumption DEF connect
<1>6. ASSUME disconnect PROVE RefInv'
  BY <1>6, ConnectAssumption DEF disconnect
<1>7. ASSUME open PROVE RefInv'
  BY <1>7, ConnectAssumption DEF open
<1>8. ASSUME NEW t \in Iftype, change_virtual_intf(t) PROVE RefInv'
  BY <1>8, ConnectAssumption DEF change_virtual_intf
<1>9. ASSUME stop PROVE RefInv'
  BY <1>9, ConnectAssumption DEF stop
<1>10. ASSUME stop_want PROVE RefInv'
  <2>1. CASE want_connect_bss = NoBss
    BY <1>10, <2>1, ConnectAssumption DEF stop_want
  <2>2. CASE want_connect_bss # NoBss
    <3>1. /\ want_connect_bss \in Bss /\ want_connect_bss' = NoBss /\ up' = "cancel_connect"
          /\ refs' = [refs EXCEPT ![want_connect_bss] = @ - 1]
          /\ UNCHANGED <<wbss, wpc, wq, tpc, connect_bss, joining, abandoned>>
      BY <1>10, <2>2 DEF stop_want
    <3>2. ~unbalanced' => ~unbalanced /\ ~(refs[want_connect_bss] <= 0)
      BY <1>10, <2>2, Zenon DEF stop_want
    <3>3. sme = "idle"
      BY <1>10 DEF stop_want
    <3> QED BY <2>2, <3>1, <3>2, <3>3, ConnectAssumption
  <2> QED BY <2>1, <2>2
<1>11. ASSUME stop_cancel_connect PROVE RefInv'
  <2>1. /\ Cancelled("connect") \in Seq(Item) /\ NoRepeats(Cancelled("connect"))
        /\ \A x : Contains(Cancelled("connect"), x) <=> Contains(wq, x) /\ x # "connect"
    BY CancelledFacts DEF WorkInv
  <2> QED BY <1>11, <2>1 DEF stop_cancel_connect
<1>12. ASSUME stop_cancel_disconnect PROVE RefInv'
  <2>1. /\ Cancelled("disconnect") \in Seq(Item) /\ NoRepeats(Cancelled("disconnect"))
        /\ \A x : Contains(Cancelled("disconnect"), x) <=> Contains(wq, x) /\ x # "disconnect"
    BY CancelledFacts DEF WorkInv
  <2> QED BY <1>12, <2>1 DEF stop_cancel_disconnect
<1>13. ASSUME NEW r \in Result, join_bss_event(r) PROVE RefInv'
  BY <1>13, ConnectAssumption DEF join_bss_event
<1>14. ASSUME join_bss_queue PROVE RefInv'
  <2>1. /\ Queued("connect") \in Seq(Item) /\ NoRepeats(Queued("connect"))
        /\ \A x : Contains(Queued("connect"), x) <=> Contains(wq, x) \/ x = "connect"
    BY QueuedFacts DEF WorkInv
  <2> QED BY <1>14, <2>1 DEF join_bss_queue
<1>15. ASSUME del_sta_event PROVE RefInv'
  <2>1. /\ Queued("disconnect") \in Seq(Item) /\ NoRepeats(Queued("disconnect"))
        /\ \A x : Contains(Queued("disconnect"), x) <=> Contains(wq, x) \/ x = "disconnect"
    BY QueuedFacts DEF WorkInv
  <2> QED BY <1>15, <2>1 DEF del_sta_event
<1>16. ASSUME work_start PROVE RefInv'
  <2>1. /\ Head(wq) \in Item /\ Tail(wq) \in Seq(Item) /\ NoRepeats(Tail(wq))
        /\ Contains(wq, Head(wq))
        /\ \A x : Contains(Tail(wq), x) <=> Contains(wq, x) /\ x # Head(wq)
    BY <1>16, TailFacts DEF WorkInv, work_start
  <2> QED BY <1>16, <2>1 DEF work_start
<1>17. ASSUME connect_work_out PROVE RefInv'
  BY <1>17, ConnectAssumption DEF connect_work_out
<1>18. ASSUME connect_work_joined PROVE RefInv'
  BY <1>18, ConnectAssumption DEF connect_work_joined
<1>19. ASSUME connect_work_refused PROVE RefInv'
  BY <1>19, ConnectAssumption DEF connect_work_refused
<1>20. ASSUME connect_work_start PROVE RefInv'
  BY <1>20, ConnectAssumption DEF connect_work_start
<1>21. ASSUME connect_work_free PROVE RefInv'
  <2>1. CASE wbss = NoBss
    BY <1>21, <2>1, ConnectAssumption DEF connect_work_free
  <2>2. CASE wbss # NoBss
    <3>1. /\ wbss \in Bss /\ wbss' = NoBss /\ wpc' = "idle" /\ wq' = wq /\ tpc' = tpc
          /\ refs' = [refs EXCEPT ![wbss] = @ - 1]
          /\ UNCHANGED <<want_connect_bss, connect_bss, joining, abandoned, up>>
      BY <1>21, <2>2 DEF connect_work_free
    <3>2. ~unbalanced' => ~unbalanced /\ ~(refs[wbss] <= 0)
      BY <1>21, <2>2, Zenon DEF connect_work_free
    <3> QED BY <2>2, <3>1, <3>2, ConnectAssumption
  <2> QED BY <2>1, <2>2
<1>22. ASSUME disconnect_work PROVE RefInv'
  BY <1>22, ConnectAssumption DEF disconnect_work
<1>23. ASSUME mark_dead PROVE RefInv'
  BY <1>23, ConnectAssumption DEF mark_dead
<1>24. ASSUME Rest PROVE RefInv'
  BY <1>24, ConnectAssumption DEF Rest
<1>25. CASE UNCHANGED vars
  BY <1>25 DEF vars
<1> QED
  BY <1>1, <1>2, <1>3, <1>4, <1>5, <1>6, <1>7, <1>8, <1>9, <1>10, <1>11, <1>12,
     <1>13, <1>14, <1>15, <1>16, <1>17, <1>18, <1>19, <1>20, <1>21, <1>22, <1>23,
     <1>24, <1>25
  DEF Next, User, Tasklet, Works

-----------------------------------------------------------------------------

\* The invariant holds throughout.
THEOREM InductiveHolds == Spec => []Inductive
<1>1. Inductive /\ [Next]_vars => Inductive'
  BY TypeNext, LinkNext, WorkNext, SendNext, ResultNext, JoinNext, RefNext DEF Inductive
<1> QED BY InductiveInit, <1>1, PTL DEF Spec

\* CONNECTED implies a connected bss, and r92su_bss_free_connected and
\* connect_bss_work tell cfg80211 exactly of the links there are.
THEOREM LinkIsTold == Spec => []LinkAgrees
<1>1. Inductive => LinkAgrees
  BY DEF Inductive, LinkInv, LinkAgrees
<1> QED BY InductiveHolds, <1>1, PTL

\* r92su_bss_connect_work never looks into a result it has freed, as long as
\* c2h_join_bss_event had memory for its results.
THEOREM ResultIsFresh == Spec => []NoFreedResult
<1>1. Inductive => NoFreedResult
  BY DEF Inductive, TypeOK, ResultInv, Pending, Result, NoFreedResult
<1> QED BY InductiveHolds, <1>1, PTL

\* A connected device has its carrier on, or a work is there that turns it on
\* or disconnects.
THEOREM ConnectedSends == Spec => []ConnectedCanSend
<1>1. Inductive => ConnectedCanSend
  BY DEF Inductive
<1> QED BY InductiveHolds, <1>1, PTL

\* The driver holds a reference on the bss it is connected to, unless a join
\* was abandoned or a reference given back twice.
THEOREM ConnectedBssHeld == Spec => []ConnectedIsReferenced
<1>1. Inductive => ConnectedIsReferenced
  BY DEF Inductive, TypeOK, JoinInv, RefInv, ConnectedIsReferenced
<1> QED BY InductiveHolds, <1>1, PTL
=============================================================================
