---------------------------- MODULE TxPathProofs ----------------------------
(***************************************************************************)
(* Proofs about TxPath for any number of TX queues and keys and any base   *)
(* of the IV's digits: a queue that came in while the station was listed   *)
(* never holds a freed key, a rekeying never makes a frame miss the        *)
(* pairwise key, the receive path reads back the packet number the         *)
(* transmit path wrote, and the numbers of a key differ until its counter  *)
(* wraps, unless two queues count on it at once.                           *)
(***************************************************************************)
EXTENDS TxPath, FiniteSetTheorems, TLAPS

\* The order in which a connection is published and withdrawn, as it can be
\* relied on by whoever holds r92su->lock.
ConnInv ==
    /\ state = "CONNECTED" => connect_bss
    /\ lpc = "unpublish" => state = "OPEN" /\ connect_bss
    /\ lpc = "release" => state = "OPEN" /\ ~connect_bss
    /\ lpc = "publish" => connect_bss
    /\ lpc \in {"idle", "install"} /\ state = "OPEN" => ~connect_bss

\* A key r92su_tx of queue q may hold: it is live, or its kfree_rcu waits for q.
Safe(k, q) == life[k] = "live" \/ (life[k] = "dying" /\ q \in grace[k])

\* Every pointer a new frame can follow leads to a live key, and no two lead to
\* the same one.  bss_priv->sta->sta_key dangles once the station has left the
\* list, so it need only be good for the queues that came in before.  What
\* r92su_bss_free of a failed join is about to free is where it was found, or
\* somebody has freed it.
PointerInv ==
    /\ \A i \in Idx : group_key[i] # NoKey => life[group_key[i]] = "live"
    /\ \A i \in Idx : group_key[i] # NoKey => group_key[i] # sta_key
    /\ \A i, j \in Idx : group_key[i] = group_key[j] /\ i # j => group_key[i] = NoKey
    /\ listed /\ sta_key # NoKey => life[sta_key] = "live"
    /\ \A q \in Queue \ stale :
        pc[q] \in {"own", "ap"} /\ sta_key # NoKey => Safe(sta_key, q)
    /\ wkey # NoKey =>
        \/ wpc = "clear0" /\ (life[wkey] = "dying" \/ wkey = group_key[0])
        \/ wpc = "clear1" /\ (life[wkey] = "dying" \/ wkey = group_key[1])

\* tx_info->key is set in the handlers that use it, and there it is safe.
HeldInv ==
    \A q \in Queue :
        /\ pc[q] \in {"iv", "count"} => key[q] # NoKey
        /\ key[q] # NoKey => pc[q] \in {"iv", "count", "desc"}
        /\ key[q] # NoKey /\ q \notin stale => Safe(key[q], q)

\* A queue that saw a pairwise key has a key, or is about to take the pairwise
\* one.
KeyedInv ==
    \A q \in keyed :
        /\ q \notin stale /\ pc[q] \in {"ap", "iv", "count", "desc"}
        /\ pc[q] = "ap" => sta_key # NoKey
        /\ pc[q] # "ap" => key[q] # NoKey

\* The parts together: none of them is preserved without the others.
Inductive == TypeOK /\ ConnInv /\ PointerInv /\ HeldInv /\ KeyedInv

-----------------------------------------------------------------------------
(* Numbers *)

\* The weights of the bytes, and with them the widths of the counters, are
\* positive numbers.
LEMMA Weights ==
  /\ Byte2 \in Nat /\ Byte2 > 0 /\ Byte3 \in Nat /\ Byte3 > 0
  /\ \A i \in 0 .. 6 : Weight(i) \in Nat /\ Weight(i) > 0
<1>1. \A a, b \in Nat : a > 0 /\ b > 0 => a * b \in Nat /\ a * b > 0
  OBVIOUS
<1>2. Byte \in Nat /\ Byte > 0
  BY TxPathAssumption
<1>3. Byte2 \in Nat /\ Byte2 > 0
  BY <1>1, <1>2 DEF Byte2
<1>4. Byte3 \in Nat /\ Byte3 > 0
  BY <1>1, <1>2, <1>3 DEF Byte3
<1>5. /\ Byte3 * Byte \in Nat /\ Byte3 * Byte > 0
      /\ Byte3 * Byte2 \in Nat /\ Byte3 * Byte2 > 0
      /\ Byte3 * Byte3 \in Nat /\ Byte3 * Byte3 > 0
  BY <1>1, <1>2, <1>3, <1>4
<1> QED BY <1>2, <1>3, <1>4, <1>5 DEF Weight

\* A counter starts, is filtered and counts on in the natural numbers.
LEMMA CounterTypes ==
  /\ \A t \in Cipher : StartSeq(t) \in Nat
  /\ \A n \in Nat : Filter(n) \in Nat
  /\ \A t, n : n \in Nat => Next1(t, n) \in Nat
<1>1. \A n, w \in Nat : w > 0 => n % w \in Nat
  OBVIOUS
<1>2. Byte \in Nat /\ Byte > 0 /\ Byte2 \in Nat /\ Byte2 > 0
  BY TxPathAssumption, Weights
<1>3. (Byte - 1) * Byte \in Nat
  BY <1>2
<1>4. 3 * Byte2 + (Byte - 1) * Byte - 1 \in Nat
  BY <1>2, <1>3
<1>5. \A t \in Cipher : StartSeq(t) \in Nat
  BY <1>4, TxPathAssumption DEF StartSeq
<1>6. \A n \in Nat : Filter(n) \in Nat
  BY <1>1, <1>2, Weights DEF Filter
<1>7. \A t, n : n \in Nat => Next1(t, n) \in Nat
  BY <1>1, <1>2, Weights DEF Next1, Width
<1> QED BY <1>5, <1>6, <1>7

-----------------------------------------------------------------------------
(* The IV *)

\* Division with remainder.
LEMMA DivMod ==
  ASSUME NEW a \in Nat, NEW d \in Nat, d > 0
  PROVE  /\ a \div d \in Nat /\ a % d \in Nat /\ a % d < d
         /\ a = d * (a \div d) + (a % d)
<1>1. a \div d \in Nat
  OBVIOUS
<1>2. a % d \in Nat /\ a % d < d
  OBVIOUS
<1>3. a = d * (a \div d) + (a % d)
  OBVIOUS
<1> QED BY <1>1, <1>2, <1>3

\* Quotient and remainder are unique.
LEMMA Quotient ==
  ASSUME NEW d \in Nat, d > 0, NEW q \in Nat, NEW r \in Nat, r < d,
         NEW p \in Nat, NEW s \in Nat, s < d, d * q + r = d * p + s
  PROVE  q = p /\ r = s
<1>1. \A x, y \in Nat : x < y => d * x + d <= d * y
  <2> SUFFICES ASSUME NEW x \in Nat, NEW y \in Nat, x < y PROVE d * x + d <= d * y
    OBVIOUS
  <2>1. PICK z \in Nat : y = x + 1 + z
    <3> WITNESS y - x - 1 \in Nat
    <3> QED OBVIOUS
  <2>2. d * y = d * x + d + d * z /\ d * z \in Nat
    BY <2>1
  <2>3. d * x \in Nat
    OBVIOUS
  <2> QED BY <2>2, <2>3
<1>2. d * q \in Nat /\ d * p \in Nat
  OBVIOUS
<1>3. ~(q < p)
  BY <1>1, <1>2
<1>4. ~(p < q)
  BY <1>1, <1>2
<1>5. q = p
  BY <1>3, <1>4
<1> QED BY <1>5, <1>2

\* Dividing by a product is dividing twice, and the remainder is put together
\* from the two.
LEMMA Split ==
  ASSUME NEW a \in Nat, NEW d \in Nat, d > 0, NEW e \in Nat, e > 0
  PROVE  /\ a \div (d * e) = (a \div d) \div e
         /\ a % (d * e) = d * ((a \div d) % e) + (a % d)
<1> DEFINE q == a \div d
           r == a % d
           s == q \div e
           t == q % e
<1>1. q \in Nat /\ r \in Nat /\ r < d /\ a = d * q + r
  BY DivMod
<1>2. s \in Nat /\ t \in Nat /\ t < e /\ q = e * s + t
  BY <1>1, DivMod
<1>3. d * e \in Nat /\ d * e > 0
  OBVIOUS
<1>4. d * t + r \in Nat /\ d * t + r < d * e
  <2> HIDE DEF t, r
  <2>1. PICK z \in Nat : e = t + 1 + z
    BY <1>2
  <2>2. d * e = d * t + d + d * z /\ d * z \in Nat
    BY <1>2, <2>1
  <2> QED BY <1>1, <1>2, <2>2
<1>5. a = (d * e) * s + (d * t + r)
  <2> HIDE DEF q, r, s, t
  <2>1. d * q = (d * e) * s + d * t
    BY <1>1, <1>2
  <2> QED BY <1>1, <1>2, <2>1
<1>6. /\ a \div (d * e) \in Nat /\ a % (d * e) \in Nat /\ a % (d * e) < d * e
      /\ a = (d * e) * (a \div (d * e)) + (a % (d * e))
  <2> DEFINE f == d * e
  <2> HIDE DEF f
  <2>1. f \in Nat /\ f > 0
    BY <1>3 DEF f
  <2>2. /\ a \div f \in Nat /\ a % f \in Nat /\ a % f < f
        /\ a = f * (a \div f) + (a % f)
    BY <2>1, DivMod
  <2> QED BY <2>2 DEF f
<1>7. s = a \div (d * e) /\ d * t + r = a % (d * e)
  <2> DEFINE f == d * e
             p == a \div (d * e)
             u == a % (d * e)
             v == d * t + r
  <2>1. f \in Nat /\ f > 0 /\ s \in Nat /\ v \in Nat /\ v < f /\ p \in Nat
        /\ u \in Nat /\ u < f /\ f * s + v = f * p + u
    BY <1>2, <1>3, <1>4, <1>5, <1>6
  <2> HIDE DEF f, p, u, v
  <2>2. s = p /\ v = u
    BY <2>1, Quotient
  <2> QED BY <2>2 DEF p, u, v
<1> QED BY <1>7

\* Each weight is Byte times the one before.
LEMMA WeightSteps ==
  /\ Weight(0) = 1 /\ Weight(1) = Byte
  /\ \A i \in 0 .. 5 : Weight(i + 1) = Weight(i) * Byte /\ Weight(i + 1) = Byte * Weight(i)
<1>1. Byte \in Nat /\ Byte2 \in Nat /\ Byte3 \in Nat
  BY Weights, TxPathAssumption
<1>2. \A a, b, c \in Nat : a * b = b * a /\ (a * b) * c = a * (b * c)
  OBVIOUS
<1>3. /\ Weight(0) = 1 /\ Weight(1) = Byte /\ Weight(2) = Byte2 /\ Weight(3) = Byte3
      /\ Weight(4) = Byte3 * Byte /\ Weight(5) = Byte3 * Byte2 /\ Weight(6) = Byte3 * Byte3
  BY DEF Weight
<1>4. /\ Byte2 = Byte * Byte /\ Byte3 = Byte2 * Byte
      /\ Byte3 * Byte2 = (Byte3 * Byte) * Byte /\ Byte3 * Byte3 = (Byte3 * Byte2) * Byte
  BY <1>1, <1>2 DEF Byte2, Byte3
<1>5. \A i \in 0 .. 5 : Weight(i + 1) = Weight(i) * Byte
  BY <1>1, <1>3, <1>4
<1>6. \A i \in 0 .. 5 : Weight(i) * Byte = Byte * Weight(i)
  BY <1>1, <1>2, Weights
<1> QED BY <1>3, <1>5, <1>6

\* The number of the low six bytes, byte by byte.
LEMMA Bytes ==
  ASSUME NEW n \in Nat
  PROVE  n % Weight(6) =
           ((((Digit(n, 5) * Byte + Digit(n, 4)) * Byte + Digit(n, 3)) * Byte
             + Digit(n, 2)) * Byte + Digit(n, 1)) * Byte + Digit(n, 0)
<1> DEFINE x(i) == n \div Weight(i)
<1>1. Byte \in Nat /\ Byte > 0
  BY TxPathAssumption
<1>2. \A i \in 0 .. 6 : x(i) \in Nat
  BY Weights, DivMod
<1>3. x(0) = n
  BY WeightSteps
<1>4. \A i \in 0 .. 5 : x(i + 1) = x(i) \div Byte
  <2> SUFFICES ASSUME NEW i \in 0 .. 5 PROVE x(i + 1) = x(i) \div Byte
    OBVIOUS
  <2> DEFINE w == Weight(i)
  <2>1. w \in Nat /\ w > 0
    BY Weights
  <2> HIDE DEF w
  <2>2. n \div (w * Byte) = (n \div w) \div Byte
    BY <1>1, <2>1, Split
  <2> QED BY <2>2, WeightSteps DEF w
<1>5. \A i \in 0 .. 5 : Digit(n, i) = x(i) % Byte /\ Digit(n, i) \in Nat
  BY <1>1, <1>2, DivMod DEF Digit
<1>6. \A i \in 0 .. 5, j \in 0 .. 5 :
         x(i) % Weight(j + 1) = (x(i + 1) % Weight(j)) * Byte + Digit(n, i)
  <2> SUFFICES ASSUME NEW i \in 0 .. 5, NEW j \in 0 .. 5
               PROVE  x(i) % Weight(j + 1) = (x(i + 1) % Weight(j)) * Byte + Digit(n, i)
    OBVIOUS
  <2> DEFINE y == x(i)
             w == Weight(j)
  <2>1. y \in Nat /\ w \in Nat /\ w > 0
    BY <1>2, Weights
  <2> HIDE DEF x, y, w
  <2>2. y % (Byte * w) = Byte * ((y \div Byte) % w) + (y % Byte)
    BY <1>1, <2>1, Split
  <2>3. (y \div Byte) % w \in Nat
    BY <1>1, <2>1, DivMod
  <2>4. Byte * ((y \div Byte) % w) = ((y \div Byte) % w) * Byte
    BY <1>1, <2>3
  <2> QED BY <1>4, <1>5, <2>2, <2>4, WeightSteps DEF y, w
<1>7. x(5) % Weight(1) = Digit(n, 5)
  BY <1>5, WeightSteps
<1> HIDE DEF x
<1>8. /\ x(4) % Weight(2) = (x(5) % Weight(1)) * Byte + Digit(n, 4)
      /\ x(3) % Weight(3) = (x(4) % Weight(2)) * Byte + Digit(n, 3)
      /\ x(2) % Weight(4) = (x(3) % Weight(3)) * Byte + Digit(n, 2)
      /\ x(1) % Weight(5) = (x(2) % Weight(4)) * Byte + Digit(n, 1)
      /\ x(0) % Weight(6) = (x(1) % Weight(5)) * Byte + Digit(n, 0)
  <2> HIDE DEF x
  <2>1. /\ 1 + 1 = 2 /\ 2 + 1 = 3 /\ 3 + 1 = 4 /\ 4 + 1 = 5 /\ 5 + 1 = 6 /\ 0 + 1 = 1
        /\ 0 \in 0 .. 5 /\ 1 \in 0 .. 5 /\ 2 \in 0 .. 5 /\ 3 \in 0 .. 5 /\ 4 \in 0 .. 5
        /\ 5 \in 0 .. 5
    OBVIOUS
  <2> QED BY <1>6, <2>1
<1> QED BY <1>3, <1>7, <1>8

\* r92su_rx_iv_remove reads back what r92su_tx_add_iv wrote.
LEMMA RoundTrip ==
  ASSUME NEW n \in Nat
  PROVE  rx_ccmp_seq(ccmp_iv(n)) = n % Weight(6) /\ rx_tkip_seq(tkip_iv(n)) = n % Weight(6)
<1>1. /\ ccmp_iv(n)[0] = Digit(n, 0) /\ ccmp_iv(n)[1] = Digit(n, 1)
      /\ ccmp_iv(n)[4] = Digit(n, 2) /\ ccmp_iv(n)[5] = Digit(n, 3)
      /\ ccmp_iv(n)[6] = Digit(n, 4) /\ ccmp_iv(n)[7] = Digit(n, 5)
  BY DEF ccmp_iv
<1>2. /\ tkip_iv(n)[2] = Digit(n, 0) /\ tkip_iv(n)[0] = Digit(n, 1)
      /\ tkip_iv(n)[4] = Digit(n, 2) /\ tkip_iv(n)[5] = Digit(n, 3)
      /\ tkip_iv(n)[6] = Digit(n, 4) /\ tkip_iv(n)[7] = Digit(n, 5)
  BY DEF tkip_iv
<1> QED BY <1>1, <1>2, Bytes DEF rx_ccmp_seq, rx_tkip_seq, High

\* Every number on a frame, wherever in the counter its digits stand.
LEMMA IvFact == TypeOK => IvRoundTrip
<1> SUFFICES ASSUME TypeOK, NEW k \in Key, NEW i \in 0 .. 4, NEW m \in used[k]
             PROVE  LET n == m * Weight(i)
                    IN  /\ rx_ccmp_seq(ccmp_iv(n)) = n % Weight(6)
                        /\ rx_tkip_seq(tkip_iv(n)) = n % Weight(6)
  BY DEF IvRoundTrip
<1>1. m \in Nat /\ Weight(i) \in Nat
  BY Weights DEF TypeOK
<1>2. m * Weight(i) \in Nat
  BY <1>1
<1> QED BY <1>2, RoundTrip

-----------------------------------------------------------------------------
(* The invariant *)

\* Nothing is connected, no key exists and no queue is inside.
LEMMA InductiveInit == Init => Inductive
<1> SUFFICES ASSUME Init PROVE Inductive
  OBVIOUS
<1>1. connect_bss \in BOOLEAN /\ listed \in BOOLEAN
  BY Zenon DEF Init
<1>2. /\ state \in {"OPEN", "CONNECTED"}
      /\ lpc \in {"idle", "unpublish", "release", "install", "publish"}
      /\ enc_sta \in Cipher \cup {"NONE"} /\ def_key \in Idx
      /\ sta_key \in Key \cup {NoKey} /\ group_key \in [Idx -> Key \cup {NoKey}]
  BY DEF Init, Idx
<1>3. /\ type \in [Key -> Cipher \cup {"NONE"}] /\ tx_seq \in [Key -> Nat]
      /\ life \in [Key -> {"freed", "live", "dying"}] /\ grace \in [Key -> SUBSET Queue]
      /\ used \in [Key -> SUBSET Nat] /\ raced \subseteq Key /\ reused \subseteq Key
  BY DEF Init
<1>4. /\ pc \in [Queue -> {"idle", "lock", "own", "ap", "uni", "iv", "count", "desc"}]
      /\ key \in [Queue -> Key \cup {NoKey}] /\ pn \in [Queue -> Nat]
      /\ wpc \in {"idle", "clear0", "clear1", "sta"} /\ wkey \in Key \cup {NoKey}
      /\ stale \subseteq Queue /\ keyed \subseteq Queue
  BY DEF Init
<1>5. TypeOK
  BY <1>1, <1>2, <1>3, <1>4, Zenon DEF TypeOK
<1>6. ConnInv /\ PointerInv /\ HeldInv /\ KeyedInv
  BY DEF Init, ConnInv, PointerInv, HeldInv, KeyedInv, Idx
<1> QED BY <1>5, <1>6 DEF Inductive

\* What r92su_sta_del makes of the keys.
LEMMA StaDelTypes ==
  ASSUME TypeOK, sta_del
  PROVE  life' \in [Key -> {"freed", "live", "dying"}] /\ grace' \in [Key -> SUBSET Queue]
<1> USE DEF TypeOK, sta_del, key_free, Dying, Awaits, Inside
<1>1. CASE listed
  <2>1. life' = Dying({sta_key}) /\ grace' = Awaits({sta_key})
    BY <1>1, Zenon
  <2> QED BY <2>1
<1>2. CASE ~listed
  <2>1. life' = life /\ grace' = grace
    BY <1>2, Zenon
  <2> QED BY <2>1
<1> QED BY <1>1, <1>2

\* No step of a queue, of the holder of the lock, of a work that dropped it, of
\* an event or of RCU leaves the types.
LEMMA TypeNext == TypeOK /\ HeldInv /\ [Next]_vars => TypeOK'
<1> SUFFICES ASSUME TypeOK, HeldInv, [Next]_vars PROVE TypeOK'
  OBVIOUS
<1> USE DEF TypeOK, bss, keys, tx, tail, hist, Goto, Leave, Take, Inside, sta_del,
            key_alloc, key_free, Swap, Dying, Awaits, Idx, HeldInv
<1>1. ASSUME NEW q \in Queue, xmit(q) PROVE TypeOK'
  BY <1>1, TxPathAssumption, CounterTypes DEF xmit
<1>2. ASSUME NEW q \in Queue, enter(q) PROVE TypeOK'
  BY <1>2, TxPathAssumption, CounterTypes DEF enter
<1>3. ASSUME NEW q \in Queue, select_own(q) PROVE TypeOK'
  BY <1>3, TxPathAssumption, CounterTypes DEF select_own
<1>4. ASSUME NEW q \in Queue, select_ap(q) PROVE TypeOK'
  BY <1>4, TxPathAssumption, CounterTypes DEF select_ap
<1>5. ASSUME NEW q \in Queue, select_uni(q) PROVE TypeOK'
  BY <1>5, TxPathAssumption, CounterTypes DEF select_uni
<1>6. ASSUME NEW q \in Queue, add_iv(q) PROVE TypeOK'
  BY <1>6, TxPathAssumption, CounterTypes DEF add_iv
<1>7. ASSUME NEW q \in Queue, increment(q) PROVE TypeOK'
  BY <1>7, TxPathAssumption, CounterTypes DEF increment
<1>8. ASSUME NEW q \in Queue, use_freed(q) PROVE TypeOK'
  BY <1>8, TxPathAssumption, CounterTypes DEF use_freed
<1>9. ASSUME NEW q \in Queue, fill_desc(q) PROVE TypeOK'
  BY <1>9, TxPathAssumption, CounterTypes DEF fill_desc
<1>10. ASSUME NEW k \in Key, add_sta_key(k) PROVE TypeOK'
  BY <1>10, TxPathAssumption, CounterTypes DEF add_sta_key
<1>11. ASSUME NEW k \in Key, NEW i \in Idx, add_group_key(k, i) PROVE TypeOK'
  BY <1>11, TxPathAssumption, CounterTypes DEF add_group_key
<1>12. ASSUME del_sta_key PROVE TypeOK'
  BY <1>12, TxPathAssumption, CounterTypes DEF del_sta_key
<1>13. ASSUME NEW i \in Idx, del_group_key(i) PROVE TypeOK'
  BY <1>13, TxPathAssumption, CounterTypes DEF del_group_key
<1>14. ASSUME NEW i \in Idx, set_default_key(i) PROVE TypeOK'
  BY <1>14, TxPathAssumption, CounterTypes DEF set_default_key
<1>15. ASSUME disconnect PROVE TypeOK'
  BY <1>15, TxPathAssumption, CounterTypes DEF disconnect
<1>16. ASSUME unpublish PROVE TypeOK'
  BY <1>16, TxPathAssumption, CounterTypes DEF unpublish
<1>17. ASSUME release PROVE TypeOK'
  BY <1>17, TxPathAssumption, CounterTypes DEF release
<1>18. ASSUME connect PROVE TypeOK'
  <2>1. life' \in [Key -> {"freed", "live", "dying"}] /\ grace' \in [Key -> SUBSET Queue]
    BY <1>18, StaDelTypes DEF connect
  <2>2. listed' \in BOOLEAN /\ connect_bss' \in BOOLEAN
    BY <1>18, Zenon DEF connect
  <2> HIDE DEF sta_del
  <2> QED BY <1>18, <2>1, <2>2 DEF connect
<1>19. ASSUME publish PROVE TypeOK'
  BY <1>19, TxPathAssumption, CounterTypes DEF publish
<1>20. ASSUME NEW enc \in Cipher \cup {"NONE"}, install(enc) PROVE TypeOK'
  BY <1>20, TxPathAssumption, CounterTypes DEF install
<1>21. ASSUME join_failed PROVE TypeOK'
  BY <1>21, TxPathAssumption, CounterTypes DEF join_failed
<1>22. ASSUME bss_free_sta PROVE TypeOK'
  <2>1. life' \in [Key -> {"freed", "live", "dying"}] /\ grace' \in [Key -> SUBSET Queue]
    BY <1>22, StaDelTypes DEF bss_free_sta
  <2>2. listed' \in BOOLEAN /\ connect_bss' \in BOOLEAN
    BY <1>22, Zenon DEF bss_free_sta
  <2> HIDE DEF sta_del
  <2> QED BY <1>22, <2>1, <2>2 DEF bss_free_sta
<1>23. ASSUME NEW i \in Idx, bss_free_key(i) PROVE TypeOK'
  BY <1>23, TxPathAssumption, CounterTypes DEF bss_free_key
<1>24. ASSUME sta_event PROVE TypeOK'
  <2>1. life' \in [Key -> {"freed", "live", "dying"}] /\ grace' \in [Key -> SUBSET Queue]
    BY <1>24, StaDelTypes DEF sta_event
  <2>2. listed' \in BOOLEAN /\ connect_bss' \in BOOLEAN
    BY <1>24, Zenon DEF sta_event
  <2> HIDE DEF sta_del
  <2> QED BY <1>24, <2>1, <2>2 DEF sta_event
<1>25. ASSUME NEW k \in Key, rcu_free(k) PROVE TypeOK'
  BY <1>25, TxPathAssumption, CounterTypes DEF rcu_free
<1>26. CASE UNCHANGED vars
  BY <1>26 DEF vars
<1> QED
  BY <1>1, <1>2, <1>3, <1>4, <1>5, <1>6, <1>7, <1>8, <1>9, <1>10, <1>11, <1>12,
     <1>13, <1>14, <1>15, <1>16, <1>17, <1>18, <1>19, <1>20, <1>21, <1>22,
     <1>23, <1>24, <1>25, <1>26
  DEF Next, Transmit, Configure, Unlocked

\* Connecting and disconnecting keep to their order.
LEMMA ConnNext == TypeOK /\ ConnInv /\ [Next]_vars => ConnInv'
<1> SUFFICES ASSUME TypeOK, ConnInv, [Next]_vars PROVE ConnInv'
  OBVIOUS
<1> USE DEF TypeOK, bss, keys, tx, tail, hist, Goto, Leave, Take, Inside, sta_del,
            key_alloc, key_free, Swap, Dying, Awaits, Idx, ConnInv
<1>1. ASSUME NEW q \in Queue, xmit(q) PROVE ConnInv'
  BY <1>1 DEF xmit
<1>2. ASSUME NEW q \in Queue, enter(q) PROVE ConnInv'
  BY <1>2 DEF enter
<1>3. ASSUME NEW q \in Queue, select_own(q) PROVE ConnInv'
  BY <1>3 DEF select_own
<1>4. ASSUME NEW q \in Queue, select_ap(q) PROVE ConnInv'
  BY <1>4 DEF select_ap
<1>5. ASSUME NEW q \in Queue, select_uni(q) PROVE ConnInv'
  BY <1>5 DEF select_uni
<1>6. ASSUME NEW q \in Queue, add_iv(q) PROVE ConnInv'
  BY <1>6 DEF add_iv
<1>7. ASSUME NEW q \in Queue, increment(q) PROVE ConnInv'
  BY <1>7 DEF increment
<1>8. ASSUME NEW q \in Queue, use_freed(q) PROVE ConnInv'
  BY <1>8 DEF use_freed
<1>9. ASSUME NEW q \in Queue, fill_desc(q) PROVE ConnInv'
  BY <1>9 DEF fill_desc
<1>10. ASSUME NEW k \in Key, add_sta_key(k) PROVE ConnInv'
  BY <1>10 DEF add_sta_key
<1>11. ASSUME NEW k \in Key, NEW i \in Idx, add_group_key(k, i) PROVE ConnInv'
  BY <1>11 DEF add_group_key
<1>12. ASSUME del_sta_key PROVE ConnInv'
  BY <1>12 DEF del_sta_key
<1>13. ASSUME NEW i \in Idx, del_group_key(i) PROVE ConnInv'
  BY <1>13 DEF del_group_key
<1>14. ASSUME NEW i \in Idx, set_default_key(i) PROVE ConnInv'
  BY <1>14 DEF set_default_key
<1>15. ASSUME disconnect PROVE ConnInv'
  BY <1>15 DEF disconnect
<1>16. ASSUME unpublish PROVE ConnInv'
  BY <1>16 DEF unpublish
<1>17. ASSUME release PROVE ConnInv'
  BY <1>17 DEF release
<1>18. ASSUME connect PROVE ConnInv'
  BY <1>18 DEF connect
<1>19. ASSUME publish PROVE ConnInv'
  BY <1>19 DEF publish
<1>20. ASSUME NEW enc \in Cipher \cup {"NONE"}, install(enc) PROVE ConnInv'
  BY <1>20 DEF install
<1>21. ASSUME join_failed PROVE ConnInv'
  BY <1>21 DEF join_failed
<1>22. ASSUME bss_free_sta PROVE ConnInv'
  BY <1>22 DEF bss_free_sta
<1>23. ASSUME NEW i \in Idx, bss_free_key(i) PROVE ConnInv'
  BY <1>23 DEF bss_free_key
<1>24. ASSUME sta_event PROVE ConnInv'
  BY <1>24 DEF sta_event
<1>25. ASSUME NEW k \in Key, rcu_free(k) PROVE ConnInv'
  BY <1>25 DEF rcu_free
<1>26. CASE UNCHANGED vars
  BY <1>26 DEF vars
<1> QED
  BY <1>1, <1>2, <1>3, <1>4, <1>5, <1>6, <1>7, <1>8, <1>9, <1>10, <1>11, <1>12,
     <1>13, <1>14, <1>15, <1>16, <1>17, <1>18, <1>19, <1>20, <1>21, <1>22,
     <1>23, <1>24, <1>25, <1>26
  DEF Next, Transmit, Configure, Unlocked

\* Keys are unlinked before they are freed, and freed only for those who were
\* not inside.
LEMMA PointerNext == TypeOK /\ PointerInv /\ [Next]_vars => PointerInv'
<1> SUFFICES ASSUME TypeOK, PointerInv, [Next]_vars PROVE PointerInv'
  OBVIOUS
<1> USE DEF TypeOK, bss, keys, tx, tail, hist, Goto, Leave, Take, Inside, sta_del,
            key_alloc, key_free, Swap, Dying, Awaits, Idx,
            PointerInv, Safe
<1>1. ASSUME NEW q \in Queue, xmit(q) PROVE PointerInv'
  BY <1>1, TxPathAssumption DEF xmit
<1>2. ASSUME NEW q \in Queue, enter(q) PROVE PointerInv'
  BY <1>2, TxPathAssumption DEF enter
<1>3. ASSUME NEW q \in Queue, select_own(q) PROVE PointerInv'
  BY <1>3, TxPathAssumption DEF select_own
<1>4. ASSUME NEW q \in Queue, select_ap(q) PROVE PointerInv'
  BY <1>4, TxPathAssumption DEF select_ap
<1>5. ASSUME NEW q \in Queue, select_uni(q) PROVE PointerInv'
  BY <1>5, TxPathAssumption DEF select_uni
<1>6. ASSUME NEW q \in Queue, add_iv(q) PROVE PointerInv'
  BY <1>6, TxPathAssumption DEF add_iv
<1>7. ASSUME NEW q \in Queue, increment(q) PROVE PointerInv'
  BY <1>7, TxPathAssumption DEF increment
<1>8. ASSUME NEW q \in Queue, use_freed(q) PROVE PointerInv'
  BY <1>8, TxPathAssumption DEF use_freed
<1>9. ASSUME NEW q \in Queue, fill_desc(q) PROVE PointerInv'
  BY <1>9, TxPathAssumption DEF fill_desc
<1>10. ASSUME NEW k \in Key, add_sta_key(k) PROVE PointerInv'
  BY <1>10, TxPathAssumption DEF add_sta_key
<1>11. ASSUME NEW k \in Key, NEW i \in Idx, add_group_key(k, i) PROVE PointerInv'
  BY <1>11, TxPathAssumption DEF add_group_key
<1>12. ASSUME del_sta_key PROVE PointerInv'
  BY <1>12, TxPathAssumption DEF del_sta_key
<1>13. ASSUME NEW i \in Idx, del_group_key(i) PROVE PointerInv'
  BY <1>13, TxPathAssumption DEF del_group_key
<1>14. ASSUME NEW i \in Idx, set_default_key(i) PROVE PointerInv'
  BY <1>14, TxPathAssumption DEF set_default_key
<1>15. ASSUME disconnect PROVE PointerInv'
  BY <1>15, TxPathAssumption DEF disconnect
<1>16. ASSUME unpublish PROVE PointerInv'
  BY <1>16, TxPathAssumption DEF unpublish
<1>17. ASSUME release PROVE PointerInv'
  BY <1>17, TxPathAssumption DEF release
<1>18. ASSUME connect PROVE PointerInv'
  BY <1>18, TxPathAssumption DEF connect
<1>19. ASSUME publish PROVE PointerInv'
  BY <1>19, TxPathAssumption DEF publish
<1>20. ASSUME NEW enc \in Cipher \cup {"NONE"}, install(enc) PROVE PointerInv'
  BY <1>20, TxPathAssumption DEF install
<1>21. ASSUME join_failed PROVE PointerInv'
  BY <1>21, TxPathAssumption DEF join_failed
<1>22. ASSUME bss_free_sta PROVE PointerInv'
  BY <1>22, TxPathAssumption DEF bss_free_sta
<1>23. ASSUME NEW i \in Idx, bss_free_key(i) PROVE PointerInv'
  BY <1>23, TxPathAssumption DEF bss_free_key
<1>24. ASSUME sta_event PROVE PointerInv'
  BY <1>24, TxPathAssumption DEF sta_event
<1>25. ASSUME NEW k \in Key, rcu_free(k) PROVE PointerInv'
  BY <1>25, TxPathAssumption DEF rcu_free
<1>26. CASE UNCHANGED vars
  BY <1>26 DEF vars
<1> QED
  BY <1>1, <1>2, <1>3, <1>4, <1>5, <1>6, <1>7, <1>8, <1>9, <1>10, <1>11, <1>12,
     <1>13, <1>14, <1>15, <1>16, <1>17, <1>18, <1>19, <1>20, <1>21, <1>22,
     <1>23, <1>24, <1>25, <1>26
  DEF Next, Transmit, Configure, Unlocked

\* The key a queue has taken stays until the queue leaves.
LEMMA HeldNext == TypeOK /\ PointerInv /\ HeldInv /\ [Next]_vars => HeldInv'
<1> SUFFICES ASSUME TypeOK, PointerInv, HeldInv, [Next]_vars PROVE HeldInv'
  OBVIOUS
<1> USE DEF TypeOK, bss, keys, tx, tail, hist, Goto, Leave, Take, Inside, sta_del,
            key_alloc, key_free, Swap, Dying, Awaits, Idx,
            PointerInv, HeldInv, Safe
<1>1. ASSUME NEW q \in Queue, xmit(q) PROVE HeldInv'
  BY <1>1, TxPathAssumption DEF xmit
<1>2. ASSUME NEW q \in Queue, enter(q) PROVE HeldInv'
  BY <1>2, TxPathAssumption DEF enter
<1>3. ASSUME NEW q \in Queue, select_own(q) PROVE HeldInv'
  BY <1>3, TxPathAssumption DEF select_own
<1>4. ASSUME NEW q \in Queue, select_ap(q) PROVE HeldInv'
  BY <1>4, TxPathAssumption DEF select_ap
<1>5. ASSUME NEW q \in Queue, select_uni(q) PROVE HeldInv'
  BY <1>5, TxPathAssumption DEF select_uni
<1>6. ASSUME NEW q \in Queue, add_iv(q) PROVE HeldInv'
  BY <1>6, TxPathAssumption DEF add_iv
<1>7. ASSUME NEW q \in Queue, increment(q) PROVE HeldInv'
  BY <1>7, TxPathAssumption DEF increment
<1>8. ASSUME NEW q \in Queue, use_freed(q) PROVE HeldInv'
  BY <1>8, TxPathAssumption DEF use_freed
<1>9. ASSUME NEW q \in Queue, fill_desc(q) PROVE HeldInv'
  BY <1>9, TxPathAssumption DEF fill_desc
<1>10. ASSUME NEW k \in Key, add_sta_key(k) PROVE HeldInv'
  BY <1>10, TxPathAssumption DEF add_sta_key
<1>11. ASSUME NEW k \in Key, NEW i \in Idx, add_group_key(k, i) PROVE HeldInv'
  BY <1>11, TxPathAssumption DEF add_group_key
<1>12. ASSUME del_sta_key PROVE HeldInv'
  BY <1>12, TxPathAssumption DEF del_sta_key
<1>13. ASSUME NEW i \in Idx, del_group_key(i) PROVE HeldInv'
  BY <1>13, TxPathAssumption DEF del_group_key
<1>14. ASSUME NEW i \in Idx, set_default_key(i) PROVE HeldInv'
  BY <1>14, TxPathAssumption DEF set_default_key
<1>15. ASSUME disconnect PROVE HeldInv'
  BY <1>15, TxPathAssumption DEF disconnect
<1>16. ASSUME unpublish PROVE HeldInv'
  BY <1>16, TxPathAssumption DEF unpublish
<1>17. ASSUME release PROVE HeldInv'
  BY <1>17, TxPathAssumption DEF release
<1>18. ASSUME connect PROVE HeldInv'
  BY <1>18, TxPathAssumption DEF connect
<1>19. ASSUME publish PROVE HeldInv'
  BY <1>19, TxPathAssumption DEF publish
<1>20. ASSUME NEW enc \in Cipher \cup {"NONE"}, install(enc) PROVE HeldInv'
  BY <1>20, TxPathAssumption DEF install
<1>21. ASSUME join_failed PROVE HeldInv'
  BY <1>21, TxPathAssumption DEF join_failed
<1>22. ASSUME bss_free_sta PROVE HeldInv'
  BY <1>22, TxPathAssumption DEF bss_free_sta
<1>23. ASSUME NEW i \in Idx, bss_free_key(i) PROVE HeldInv'
  BY <1>23, TxPathAssumption DEF bss_free_key
<1>24. ASSUME sta_event PROVE HeldInv'
  BY <1>24, TxPathAssumption DEF sta_event
<1>25. ASSUME NEW k \in Key, rcu_free(k) PROVE HeldInv'
  BY <1>25, TxPathAssumption DEF rcu_free
<1>26. CASE UNCHANGED vars
  BY <1>26 DEF vars
<1> QED
  BY <1>1, <1>2, <1>3, <1>4, <1>5, <1>6, <1>7, <1>8, <1>9, <1>10, <1>11, <1>12,
     <1>13, <1>14, <1>15, <1>16, <1>17, <1>18, <1>19, <1>20, <1>21, <1>22,
     <1>23, <1>24, <1>25, <1>26
  DEF Next, Transmit, Configure, Unlocked

\* The pairwise key does not slip away between two reads of a queue that has
\* seen it, unless it is deleted or its station replaced.
LEMMA KeyedNext == TypeOK /\ PointerInv /\ KeyedInv /\ [Next]_vars => KeyedInv'
<1> SUFFICES ASSUME TypeOK, PointerInv, KeyedInv, [Next]_vars PROVE KeyedInv'
  OBVIOUS
<1> USE DEF TypeOK, bss, keys, tx, tail, hist, Goto, Leave, Take, Inside, sta_del,
            key_alloc, key_free, Swap, Dying, Awaits, Idx,
            PointerInv, KeyedInv, Safe
<1>1. ASSUME NEW q \in Queue, xmit(q) PROVE KeyedInv'
  BY <1>1, TxPathAssumption DEF xmit
<1>2. ASSUME NEW q \in Queue, enter(q) PROVE KeyedInv'
  BY <1>2, TxPathAssumption DEF enter
<1>3. ASSUME NEW q \in Queue, select_own(q) PROVE KeyedInv'
  BY <1>3, TxPathAssumption DEF select_own
<1>4. ASSUME NEW q \in Queue, select_ap(q) PROVE KeyedInv'
  BY <1>4, TxPathAssumption DEF select_ap
<1>5. ASSUME NEW q \in Queue, select_uni(q) PROVE KeyedInv'
  BY <1>5, TxPathAssumption DEF select_uni
<1>6. ASSUME NEW q \in Queue, add_iv(q) PROVE KeyedInv'
  BY <1>6, TxPathAssumption DEF add_iv
<1>7. ASSUME NEW q \in Queue, increment(q) PROVE KeyedInv'
  BY <1>7, TxPathAssumption DEF increment
<1>8. ASSUME NEW q \in Queue, use_freed(q) PROVE KeyedInv'
  BY <1>8, TxPathAssumption DEF use_freed
<1>9. ASSUME NEW q \in Queue, fill_desc(q) PROVE KeyedInv'
  BY <1>9, TxPathAssumption DEF fill_desc
<1>10. ASSUME NEW k \in Key, add_sta_key(k) PROVE KeyedInv'
  BY <1>10, TxPathAssumption DEF add_sta_key
<1>11. ASSUME NEW k \in Key, NEW i \in Idx, add_group_key(k, i) PROVE KeyedInv'
  BY <1>11, TxPathAssumption DEF add_group_key
<1>12. ASSUME del_sta_key PROVE KeyedInv'
  BY <1>12, TxPathAssumption DEF del_sta_key
<1>13. ASSUME NEW i \in Idx, del_group_key(i) PROVE KeyedInv'
  BY <1>13, TxPathAssumption DEF del_group_key
<1>14. ASSUME NEW i \in Idx, set_default_key(i) PROVE KeyedInv'
  BY <1>14, TxPathAssumption DEF set_default_key
<1>15. ASSUME disconnect PROVE KeyedInv'
  BY <1>15, TxPathAssumption DEF disconnect
<1>16. ASSUME unpublish PROVE KeyedInv'
  BY <1>16, TxPathAssumption DEF unpublish
<1>17. ASSUME release PROVE KeyedInv'
  BY <1>17, TxPathAssumption DEF release
<1>18. ASSUME connect PROVE KeyedInv'
  BY <1>18, TxPathAssumption DEF connect
<1>19. ASSUME publish PROVE KeyedInv'
  BY <1>19, TxPathAssumption DEF publish
<1>20. ASSUME NEW enc \in Cipher \cup {"NONE"}, install(enc) PROVE KeyedInv'
  BY <1>20, TxPathAssumption DEF install
<1>21. ASSUME join_failed PROVE KeyedInv'
  BY <1>21, TxPathAssumption DEF join_failed
<1>22. ASSUME bss_free_sta PROVE KeyedInv'
  BY <1>22, TxPathAssumption DEF bss_free_sta
<1>23. ASSUME NEW i \in Idx, bss_free_key(i) PROVE KeyedInv'
  BY <1>23, TxPathAssumption DEF bss_free_key
<1>24. ASSUME sta_event PROVE KeyedInv'
  BY <1>24, TxPathAssumption DEF sta_event
<1>25. ASSUME NEW k \in Key, rcu_free(k) PROVE KeyedInv'
  BY <1>25, TxPathAssumption DEF rcu_free
<1>26. CASE UNCHANGED vars
  BY <1>26 DEF vars
<1> QED
  BY <1>1, <1>2, <1>3, <1>4, <1>5, <1>6, <1>7, <1>8, <1>9, <1>10, <1>11, <1>12,
     <1>13, <1>14, <1>15, <1>16, <1>17, <1>18, <1>19, <1>20, <1>21, <1>22,
     <1>23, <1>24, <1>25, <1>26
  DEF Next, Transmit, Configure, Unlocked

-----------------------------------------------------------------------------

\* The invariant holds throughout.
THEOREM InductiveHolds == Spec => []Inductive
<1>1. Inductive /\ [Next]_vars => Inductive'
  BY TypeNext, ConnNext, PointerNext, HeldNext, KeyedNext DEF Inductive
<1> QED BY InductiveInit, <1>1, PTL DEF Spec

\* r92su_tx uses no freed key, on however many queues it runs while keys are
\* replaced and removed and the connection is replaced and torn down, if the
\* station of the bss was in the list when r92su_tx entered its RCU section.
THEOREM NoFreedKeyInUse == Spec => []KeyAlive
<1>1. Inductive => KeyAlive
  BY DEF Inductive, TypeOK, HeldInv, Safe, KeyAlive
<1> QED BY InductiveHolds, <1>1, PTL

\* r92su_tx_select_key finds a key for every frame of an encrypted connection
\* that came while the pairwise key was there, rekeying or not.
THEOREM RekeyingLosesNoFrame == Spec => []KeyedFindsKey
<1>1. Inductive => KeyedFindsKey
  BY DEF Inductive, KeyedInv, KeyedFindsKey
<1> QED BY InductiveHolds, <1>1, PTL

\* The number r92su_rx_iv_remove reads from the IV r92su_tx_add_iv has written
\* is the packet number of the frame, in the TKIP and in the CCMP order of the
\* bytes, for any base of the digits: 256 is the one of the code.
THEOREM IvReadsBack == Spec => []IvRoundTrip
<1>1. Inductive => IvRoundTrip
  BY IvFact DEF Inductive
<1> QED BY InductiveHolds, <1>1, PTL


-----------------------------------------------------------------------------
(* Packet numbers *)

\* The frames sent under a key do not take its counter round: the bound of the
\* model, and what the queues may have under way beyond it, times the step of a
\* WEP counter, is within the 24 bits of it.
NoWrap ==
    /\ IsFiniteSet(Queue)
    /\ (Byte + 1) * (MaxPn + Cardinality(Queue)) <= Weight(3)

\* The queues that have yet to take a number.
Waiting == {q \in Queue : pc[q] \in {"lock", "own", "ap", "uni", "iv"}}

\* The queues between reading the counter of k and incrementing it.
Counting(k) == {q \in Queue : pc[q] = "count" /\ key[q] = k /\ life[k] # "freed"}

\* Whether the number at the counter of k is on a frame already.
Taken(k) == IF Counting(k) = {} THEN 0 ELSE 1

\* x is n some rounds of the counter later.
Lap(t, n, x) == \E z \in Nat : x = n + Width(t) * z

\* The counter of k has come from s to c without a break: the numbers used are
\* from s on and before c, or c itself while a queue is about to increment it;
\* each use has moved it by a step of the WEP counter at most.
Counter(k, s, c) ==
    /\ s <= c /\ Lap(type[k], tx_seq[k], c)
    /\ c + Taken(k) <= s + (Byte + 1) * Cardinality(used[k])
    /\ \A n \in used[k] : \E x \in Nat : s <= x /\ x < c + Taken(k) /\ Lap(type[k], n, x)

\* Nothing was sent under a freed key.
FreshInv == \A k \in Key : life[k] = "freed" => used[k] = {}

\* No WEP frame carries a weak number.
WeakInv == \A k \in Key : type[k] = "WEP" => \A n \in used[k] : ~Weak(n)

\* The frames under a key, with those that may come to it, are limited.
BoundInv ==
    \A k \in Key : /\ IsFiniteSet(used[k])
                   /\ Cardinality(used[k]) + Cardinality(Waiting) <= MaxPn + Cardinality(Queue)

\* A key on which no two queues counted at once has counted on from frame to frame.
Counted(k) ==
    k \notin raced =>
        /\ k \notin reused
        /\ \A p, q \in Counting(k) : p = q
        /\ \A q \in Counting(k) : pn[q] = tx_seq[k]
        /\ \E s, c \in Nat : Counter(k, s, c)

\* All keys have.
CountInv == \A k \in Key : Counted(k)

\* The parts together.
Numbers == FreshInv /\ WeakInv /\ BoundInv /\ CountInv

\* Steps that count on no key and make no frame of one.
Quiet ==
    /\ UNCHANGED <<type, tx_seq, used, raced, reused>>
    /\ \A k \in Key : life'[k] = "freed" => life[k] = "freed"
    /\ \A k \in Key : /\ Counting(k)' = Counting(k)
                      /\ \A q \in Counting(k) : pn'[q] = pn[q]
    /\ Waiting' \subseteq Waiting \/ \A k \in Key : Cardinality(used[k]) < MaxPn

\* Steps that make a key of an object nobody uses.
Alloc(k) ==
    /\ life[k] = "freed" /\ \A q \in Queue : key[q] # k
    /\ \A l \in Key : life'[l] = "freed" => life[l] = "freed"
    /\ \A l \in Key : l # k => /\ type'[l] = type[l] /\ tx_seq'[l] = tx_seq[l]
                               /\ life'[l] = "freed" <=> life[l] = "freed"
    /\ UNCHANGED <<used, raced, reused, pc, key, pn>>

\* The counters are at least as wide as that of WEP.
LEMMA Widths ==
  ASSUME NEW t
  PROVE  Width(t) \in Nat /\ Width(t) > 0 /\ Weight(3) <= Width(t) /\ Weight(3) \in Nat
<1>1. /\ Weight(3) = Byte3 /\ Weight(6) = Byte3 * Byte3 /\ Byte3 \in Nat /\ Byte3 > 0
      /\ Weight(6) \in Nat /\ Weight(6) > 0
  BY Weights DEF Weight
<1>2. \A a \in Nat : a > 0 => a <= a * a
  <2> SUFFICES ASSUME NEW a \in Nat, a > 0 PROVE a <= a * a
    OBVIOUS
  <2>1. PICK b \in Nat : a = b + 1
    <3> WITNESS a - 1 \in Nat
    <3> QED OBVIOUS
  <2>2. a * a = a * b + a /\ a * b \in Nat
    BY <2>1
  <2> QED BY <2>2
<1>3. Byte3 <= Byte3 * Byte3
  BY <1>1, <1>2
<1> QED BY <1>1, <1>3 DEF Width

\* A number is itself no round later; going on and wrapping keep the rounds.
LEMMA Laps ==
  ASSUME NEW t, NEW n \in Nat, NEW x \in Nat
  PROVE  /\ Lap(t, n, n)
         /\ Lap(t, n, x) => Lap(t, n % Width(t), x)
         /\ Lap(t, n, x) => \A k \in Nat : Lap(t, n + k, x + k)
<1> DEFINE w == Width(t)
<1>1. w \in Nat /\ w > 0
  BY Widths
<1>2. Lap(t, n, n)
  <2>1. n = n + Width(t) * 0
    BY <1>1
  <2> QED BY <2>1 DEF Lap
<1>3. ASSUME Lap(t, n, x) PROVE Lap(t, n % Width(t), x)
  <2>1. PICK z \in Nat : x = n + w * z
    BY <1>3 DEF Lap
  <2> HIDE DEF w
  <2> DEFINE q == n \div w
             r == n % w
  <2>2. q \in Nat /\ r \in Nat /\ n = w * q + r
    BY <1>1, DivMod
  <2> HIDE DEF q, r
  <2>3. w * (q + z) = w * q + w * z /\ w * q \in Nat /\ w * z \in Nat
    BY <1>1, <2>2
  <2>4. x = r + w * (q + z) /\ q + z \in Nat
    BY <2>1, <2>2, <2>3
  <2> QED BY <2>4 DEF Lap, r, w
<1>4. ASSUME Lap(t, n, x), NEW k \in Nat PROVE Lap(t, n + k, x + k)
  <2>1. PICK z \in Nat : x = n + w * z
    BY <1>4 DEF Lap
  <2> HIDE DEF w
  <2>2. w * z \in Nat
    BY <1>1
  <2>3. x + k = n + k + w * z
    BY <2>1, <2>2
  <2> QED BY <2>3 DEF Lap, w
<1> QED BY <1>2, <1>3, <1>4

\* The same number comes again only after a round of the counter.
LEMMA LapsApart ==
  ASSUME NEW t, NEW n \in Nat, NEW x \in Nat, NEW y \in Nat, Lap(t, n, x), Lap(t, n, y), x < y
  PROVE  x + Width(t) <= y
<1> DEFINE w == Width(t)
<1>1. w \in Nat /\ w > 0
  BY Widths
<1>2. PICK z \in Nat : x = n + w * z
  BY DEF Lap
<1>3. PICK u \in Nat : y = n + w * u
  BY DEF Lap
<1> HIDE DEF w
<1>4. w * z \in Nat /\ w * u \in Nat /\ w * z < w * u
  BY <1>1, <1>2, <1>3
<1>5. z < u
  <2> SUFFICES ASSUME u <= z PROVE FALSE
    OBVIOUS
  <2>1. PICK v \in Nat : z = u + v
    <3> WITNESS z - u \in Nat
    <3> QED OBVIOUS
  <2>2. w * z = w * u + w * v /\ w * v \in Nat
    BY <1>1, <2>1
  <2> QED BY <1>4, <2>2
<1>6. PICK v \in Nat : u = z + 1 + v
  <2>1. u - z - 1 \in Nat /\ u = z + 1 + (u - z - 1)
    BY <1>5
  <2> QED BY <2>1
<1>7. w * u = w * z + w + w * v /\ w * v \in Nat
  BY <1>1, <1>6
<1>8. x + w <= y
  BY <1>1, <1>2, <1>3, <1>4, <1>7
<1> QED BY <1>8 DEF w

\* One step over a weak number is enough: the next IV is not weak.
LEMMA FilterStrong ==
  ASSUME NEW n \in Nat
  PROVE  ~Weak(Filter(n))
<1> SUFFICES ASSUME Weak(n) PROVE ~Weak((n + Byte) % Weight(3))
  BY DEF Filter
<1> DEFINE a == n + Byte
           m == a % Weight(3)
           d == n \div Byte
           q == d \div Byte
           b == a \div Byte
           e == b % Byte2
<1>1. Byte \in Nat /\ Byte > 1 /\ Byte2 \in Nat /\ Byte2 > 0 /\ a \in Nat
      /\ Weight(1) = Byte /\ Byte2 = Byte * Byte /\ Weight(3) = Byte * Byte2
  <2>1. Byte \in Nat /\ Byte > 1 /\ Byte2 \in Nat /\ Byte2 > 0
    BY TxPathAssumption, Weights
  <2>2. Weight(3) = Byte2 * Byte /\ Weight(1) = Byte /\ Byte2 = Byte * Byte
    BY DEF Weight, Byte3, Byte2
  <2> QED BY <2>1, <2>2
<1>2. d % Byte = Byte - 1
  BY <1>1 DEF Weak, Digit
<1>3. d \in Nat /\ n % Byte \in Nat /\ n % Byte < Byte /\ n = Byte * d + (n % Byte)
  BY <1>1, DivMod
<1> HIDE DEF d
<1>4. q \in Nat /\ d = Byte * q + (Byte - 1)
  BY <1>1, <1>2, <1>3, DivMod
<1> HIDE DEF q
<1>5. b = d + 1
  <2> DEFINE r == n % Byte
  <2>1. r \in Nat /\ r < Byte /\ n = Byte * d + r
    BY <1>3
  <2> HIDE DEF r
  <2>2. Byte * (d + 1) = Byte * d + Byte /\ Byte * d \in Nat
    BY <1>1, <1>3
  <2>3. a = Byte * (d + 1) + r
    BY <1>1, <2>1, <2>2
  <2> HIDE DEF a
  <2> DEFINE s == a % Byte
  <2>4. b \in Nat /\ s \in Nat /\ s < Byte /\ a = Byte * b + s
    BY <1>1, DivMod
  <2> HIDE DEF b, s
  <2> DEFINE p == d + 1
  <2>5. p \in Nat /\ Byte * p + r = Byte * b + s
    BY <1>3, <2>3, <2>4
  <2> HIDE DEF p
  <2>6. p = b
    BY <1>1, <2>1, <2>4, <2>5, Quotient
  <2> QED BY <2>6 DEF p
<1>6. m \div Byte = e /\ e \in Nat
  <2> HIDE DEF a
  <2>1. m = Byte * e + (a % Byte)
    BY <1>1, Split
  <2>2. b \in Nat
    BY <1>1, DivMod
  <2>3. e \in Nat
    <3> HIDE DEF b
    <3> QED BY <1>1, <2>2, DivMod
  <2> DEFINE r == a % Byte
             s == m % Byte
             p == m \div Byte
  <2>4. r \in Nat /\ r < Byte
    BY <1>1, DivMod
  <2>5. m \in Nat
    <3>1. Byte * e \in Nat
      <4> HIDE DEF e
      <4> QED BY <1>1, <2>3
    <3> HIDE DEF m, e, r
    <3> QED BY <2>1, <2>4, <3>1 DEF r
  <2> HIDE DEF m
  <2>6. p \in Nat /\ s \in Nat /\ s < Byte /\ m = Byte * p + s
    BY <1>1, <2>5, DivMod
  <2> HIDE DEF e, r, s, p
  <2>7. Byte * e + r = Byte * p + s
    BY <2>1, <2>6 DEF r
  <2>8. e = p
    BY <1>1, <2>3, <2>4, <2>6, <2>7, Quotient
  <2> QED BY <2>3, <2>8 DEF p
<1>7. e % Byte = 0
  <2> DEFINE k == q + 1
  <2>1. b \in Nat /\ k \in Nat
    BY <1>3, <1>4, <1>5
  <2>2. Byte * k = Byte * q + Byte /\ Byte * q \in Nat
    BY <1>1, <1>4
  <2>3. b = Byte * k + 0
    BY <1>1, <1>4, <1>5, <2>2
  <2> HIDE DEF b, k
  <2>4. e = Byte * ((b \div Byte) % Byte) + (b % Byte)
    <3>1. Byte \in Nat /\ Byte > 0
      BY <1>1
    <3>2. b % (Byte * Byte) = Byte * ((b \div Byte) % Byte) + (b % Byte)
      BY <2>1, <3>1, Split
    <3> QED BY <3>2 DEF Byte2
  <2> DEFINE u == (b \div Byte) % Byte
             v == b % Byte
             w == b \div Byte
  <2>5. w \in Nat /\ v \in Nat /\ v < Byte /\ b = Byte * w + v
    BY <1>1, <2>1, DivMod
  <2>6. u \in Nat
    <3>1. w \in Nat /\ Byte \in Nat /\ Byte > 0
      BY <1>1, <2>5
    <3> HIDE DEF w
    <3>2. w % Byte \in Nat
      BY <3>1, DivMod
    <3> QED BY <3>2 DEF w
  <2>7. v = 0
    <3> HIDE DEF v, w
    <3>1. Byte * k + 0 = Byte * w + v
      BY <2>3, <2>5
    <3> QED BY <1>1, <2>1, <2>5, <3>1, Quotient
  <2>8. e = Byte * u + 0
    <3> HIDE DEF u
    <3> QED BY <2>4, <2>7 DEF u
  <2> HIDE DEF u, e
  <2> DEFINE f == e % Byte
             g == e \div Byte
  <2>9. g \in Nat /\ f \in Nat /\ f < Byte /\ e = Byte * g + f
    BY <1>1, <1>6, DivMod
  <2> HIDE DEF f, g
  <2>10. Byte * u + 0 = Byte * g + f
    BY <2>8, <2>9
  <2>11. f = 0
    BY <1>1, <2>6, <2>9, <2>10, Quotient
  <2> QED BY <2>11 DEF f
<1>8. Digit(m, 1) = 0
  <2> HIDE DEF m, e
  <2> QED BY <1>1, <1>6, <1>7 DEF Digit
<1> HIDE DEF m
<1>9. ~Weak(m)
  BY <1>1, <1>8 DEF Weak
<1> QED BY <1>9 DEF m, a

\* As far as the numbers are concerned there are five kinds of steps.
LEMMA Kinds ==
  ASSUME TypeOK, PointerInv, [Next]_vars
  PROVE  \/ Quiet
         \/ \E q \in Queue : add_iv(q)
         \/ \E q \in Queue : increment(q)
         \/ \E k \in Key : Alloc(k)
         \/ \E k \in Key : rcu_free(k)
<1> USE DEF TypeOK, bss, keys, tx, tail, hist, Goto, Leave, Take, Inside, sta_del,
            key_alloc, key_free, Swap, Dying, Awaits, Idx
<1>1. ASSUME NEW q \in Queue, xmit(q) PROVE Quiet
  BY <1>1 DEF xmit, Quiet, Waiting, Counting
<1>2. ASSUME NEW q \in Queue, enter(q) PROVE Quiet
  BY <1>2 DEF enter, Quiet, Waiting, Counting
<1>3. ASSUME NEW q \in Queue, select_own(q) PROVE Quiet
  BY <1>3 DEF select_own, Quiet, Waiting, Counting
<1>4. ASSUME NEW q \in Queue, select_ap(q) PROVE Quiet
  BY <1>4 DEF select_ap, Quiet, Waiting, Counting
<1>5. ASSUME NEW q \in Queue, select_uni(q) PROVE Quiet
  BY <1>5 DEF select_uni, Quiet, Waiting, Counting
<1>6. ASSUME NEW q \in Queue, use_freed(q) PROVE Quiet
  BY <1>6 DEF use_freed, Quiet, Waiting, Counting
<1>7. ASSUME NEW q \in Queue, fill_desc(q) PROVE Quiet
  BY <1>7 DEF fill_desc, Quiet, Waiting, Counting
<1>8. ASSUME NEW k \in Key, add_sta_key(k) PROVE Alloc(k)
  BY <1>8, TxPathAssumption DEF add_sta_key, Alloc, PointerInv
<1>9. ASSUME NEW k \in Key, NEW i \in Idx, add_group_key(k, i) PROVE Alloc(k)
  BY <1>9, TxPathAssumption DEF add_group_key, Alloc, PointerInv
<1>10. ASSUME del_sta_key PROVE Quiet
  BY <1>10, TxPathAssumption DEF del_sta_key, Quiet, Waiting, Counting, PointerInv
<1>11. ASSUME NEW i \in Idx, del_group_key(i) PROVE Quiet
  BY <1>11, TxPathAssumption DEF del_group_key, Quiet, Waiting, Counting, PointerInv
<1>12. ASSUME NEW i \in Idx, set_default_key(i) PROVE Quiet
  BY <1>12 DEF set_default_key, Quiet, Waiting, Counting
<1>13. ASSUME disconnect PROVE Quiet
  BY <1>13 DEF disconnect, Quiet, Waiting, Counting
<1>14. ASSUME unpublish PROVE Quiet
  BY <1>14 DEF unpublish, Quiet, Waiting, Counting
<1>15. ASSUME release PROVE Quiet
  BY <1>15, TxPathAssumption DEF release, Quiet, Waiting, Counting, PointerInv
<1>16. ASSUME connect PROVE Quiet
  BY <1>16, TxPathAssumption DEF connect, Quiet, Waiting, Counting, PointerInv
<1>17. ASSUME publish PROVE Quiet
  BY <1>17 DEF publish, Quiet, Waiting, Counting
<1>18. ASSUME NEW enc \in Cipher \cup {"NONE"}, install(enc) PROVE Quiet
  BY <1>18 DEF install, Quiet, Waiting, Counting
<1>19. ASSUME join_failed PROVE Quiet
  BY <1>19 DEF join_failed, Quiet, Waiting, Counting
<1>20. ASSUME bss_free_sta PROVE Quiet
  BY <1>20, TxPathAssumption DEF bss_free_sta, Quiet, Waiting, Counting, PointerInv
<1>21. ASSUME NEW i \in Idx, bss_free_key(i) PROVE Quiet
  BY <1>21, TxPathAssumption DEF bss_free_key, Quiet, Waiting, Counting, PointerInv
<1>22. ASSUME sta_event PROVE Quiet
  BY <1>22, TxPathAssumption DEF sta_event, Quiet, Waiting, Counting, PointerInv
<1>23. CASE UNCHANGED vars
  BY <1>23 DEF vars, Quiet, Waiting, Counting
<1> QED
  BY <1>1, <1>2, <1>3, <1>4, <1>5, <1>6, <1>7, <1>8, <1>9, <1>10, <1>11, <1>12,
     <1>13, <1>14, <1>15, <1>16, <1>17, <1>18, <1>19, <1>20, <1>21, <1>22, <1>23
  DEF Next, Transmit, Configure, Unlocked

\* A key is as it was if its counter, its numbers and the queues counting on it are.
LEMMA CountedFrame ==
  ASSUME NEW k \in Key, Counted(k), type'[k] = type[k], tx_seq'[k] = tx_seq[k],
         used'[k] = used[k], k \in raced => k \in raced', k \in reused' => k \in reused,
         Counting(k)' = Counting(k), \A q \in Counting(k) : pn'[q] = pn[q]
  PROVE  Counted(k)'
<1> SUFFICES ASSUME k \notin raced'
             PROVE  /\ k \notin reused'
                    /\ \A p, q \in Counting(k)' : p = q
                    /\ \A q \in Counting(k)' : pn'[q] = tx_seq'[k]
                    /\ \E s, c \in Nat : Counter(k, s, c)'
  BY DEF Counted
<1>1. /\ k \notin reused /\ (\A p, q \in Counting(k) : p = q)
      /\ (\A q \in Counting(k) : pn[q] = tx_seq[k]) /\ \E s, c \in Nat : Counter(k, s, c)
  BY DEF Counted
<1>2. PICK s \in Nat, c \in Nat : Counter(k, s, c)
  BY <1>1
<1>3. Taken(k)' = Taken(k)
  BY DEF Taken
<1>4. Counter(k, s, c)'
  BY <1>2, <1>3 DEF Counter
<1> QED BY <1>1, <1>4

\* The queues and the numbers of a key are finitely many.
LEMMA Finite ==
  ASSUME NoWrap
  PROVE  /\ IsFiniteSet(Queue) /\ Cardinality(Queue) \in Nat
         /\ IsFiniteSet(Waiting) /\ Cardinality(Waiting) \in Nat
         /\ Cardinality(Waiting) <= Cardinality(Queue)
         /\ IsFiniteSet(Waiting') /\ Cardinality(Waiting') \in Nat
         /\ Cardinality(Waiting') <= Cardinality(Queue)
<1>1. Waiting \in SUBSET Queue /\ Waiting' \in SUBSET Queue
  BY DEF Waiting
<1>2. IsFiniteSet(Queue)
  BY DEF NoWrap
<1> QED BY <1>1, <1>2, FS_Subset, FS_CardinalityType

\* A quiet step.
LEMMA QuietStep ==
  ASSUME NoWrap, TypeOK, Numbers, Quiet
  PROVE  Numbers'
<1>1. /\ FreshInv /\ WeakInv /\ BoundInv /\ CountInv
      /\ UNCHANGED <<type, tx_seq, used, raced, reused>>
      /\ \A k \in Key : life'[k] = "freed" => life[k] = "freed"
  BY DEF Numbers, Quiet
<1>2. FreshInv'
  BY <1>1 DEF FreshInv
<1>3. WeakInv'
  BY <1>1 DEF WeakInv
<1>4. BoundInv'
  <2> SUFFICES ASSUME NEW k \in Key
               PROVE  /\ IsFiniteSet(used[k])
                      /\ Cardinality(used[k]) + Cardinality(Waiting') <= MaxPn + Cardinality(Queue)
    BY <1>1 DEF BoundInv
  <2>1. /\ IsFiniteSet(used[k]) /\ Cardinality(used[k]) \in Nat /\ MaxPn \in Nat
        /\ Cardinality(used[k]) + Cardinality(Waiting) <= MaxPn + Cardinality(Queue)
    BY <1>1, FS_CardinalityType, TxPathAssumption DEF BoundInv
  <2>2. CASE Waiting' \subseteq Waiting
    <3>1. Cardinality(Waiting') <= Cardinality(Waiting)
      <4> DEFINE A == Waiting'
                 B == Waiting
      <4>1. A \in SUBSET B /\ IsFiniteSet(B)
        BY <2>2, Finite
      <4> HIDE DEF A, B
      <4>2. Cardinality(A) <= Cardinality(B)
        BY <4>1, FS_Subset
      <4> QED BY <4>2 DEF A, B
    <3> QED BY <2>1, <3>1, Finite
  <2>3. CASE Cardinality(used[k]) < MaxPn
    BY <2>1, <2>3, Finite
  <2> QED BY <2>1, <2>2, <2>3 DEF Quiet
<1>5. CountInv'
  <2> SUFFICES ASSUME NEW k \in Key PROVE Counted(k)'
    BY DEF CountInv
  <2>1. Counting(k)' = Counting(k) /\ \A q \in Counting(k) : pn'[q] = pn[q]
    BY DEF Quiet
  <2>2. Counted(k)
    BY <1>1 DEF CountInv
  <2> QED BY <1>1, <2>1, <2>2, CountedFrame
<1> QED BY <1>2, <1>3, <1>4, <1>5 DEF Numbers

\* A key no frame was sent under has counted from where it is.
LEMMA FreshCounted ==
  ASSUME NEW k \in Key, tx_seq'[k] \in Nat, used'[k] = {}, Counting(k)' = {}, k \notin reused'
  PROVE  Counted(k)'
<1>0. PICK c \in Nat : c = tx_seq'[k]
  OBVIOUS
<1>1. Taken(k)' = 0 /\ Cardinality(used'[k]) = 0 /\ Byte \in Nat
  BY FS_EmptySet, TxPathAssumption DEF Taken
<1>2. Lap(type'[k], c, c)
  BY Laps
<1>3. c <= c /\ c + 0 <= c + (Byte + 1) * 0
  BY <1>1
<1>4. Counter(k, c, c)'
  BY <1>0, <1>1, <1>2, <1>3 DEF Counter
<1> QED BY <1>4 DEF Counted

\* A new key.
LEMMA AllocStep ==
  ASSUME NoWrap, TypeOK, TypeOK', Numbers, NEW k \in Key, Alloc(k)
  PROVE  Numbers'
<1>1. /\ FreshInv /\ WeakInv /\ BoundInv /\ CountInv
      /\ UNCHANGED <<used, raced, reused, pc, key, pn>>
      /\ life[k] = "freed" /\ (\A q \in Queue : key[q] # k)
      /\ \A l \in Key : life'[l] = "freed" => life[l] = "freed"
      /\ \A l \in Key : l # k => /\ type'[l] = type[l] /\ tx_seq'[l] = tx_seq[l]
                                 /\ life'[l] = "freed" <=> life[l] = "freed"
  BY DEF Numbers, Alloc
<1>2. FreshInv'
  BY <1>1 DEF FreshInv
<1>3. used[k] = {}
  BY <1>1 DEF FreshInv
<1>4. WeakInv'
  BY <1>1, <1>3 DEF WeakInv
<1>5. BoundInv'
  BY <1>1 DEF BoundInv, Waiting
<1>6. CountInv'
  <2> SUFFICES ASSUME NEW l \in Key PROVE Counted(l)'
    BY DEF CountInv
  <2>1. Counting(l)' = Counting(l)
    BY <1>1 DEF Counting
  <2>2. Counted(l)
    BY <1>1 DEF CountInv
  <2>3. CASE l # k
    BY <1>1, <2>1, <2>2, <2>3, CountedFrame
  <2>4. CASE l = k /\ k \in raced
    BY <1>1, <2>4 DEF Counted
  <2>5. CASE l = k /\ k \notin raced
    <3>1. Counting(l)' = {} /\ used'[l] = {} /\ l \notin reused' /\ tx_seq'[l] \in Nat
      BY <1>1, <1>3, <2>1, <2>2, <2>5 DEF Counting, Counted, TypeOK
    <3> QED BY <3>1, FreshCounted
  <2> QED BY <2>3, <2>4, <2>5
<1> QED BY <1>2, <1>4, <1>5, <1>6 DEF Numbers

\* The memory of a key is given back.
LEMMA FreeStep ==
  ASSUME NoWrap, TypeOK, TypeOK', Numbers, NEW k \in Key, rcu_free(k)
  PROVE  Numbers'
<1>1. /\ FreshInv /\ WeakInv /\ BoundInv /\ CountInv
      /\ life[k] = "dying" /\ grace[k] = {} /\ life' = [life EXCEPT ![k] = "freed"]
      /\ type' = [type EXCEPT ![k] = "NONE"] /\ tx_seq' = [tx_seq EXCEPT ![k] = 0]
      /\ used' = [used EXCEPT ![k] = {}] /\ raced' = raced \ {k} /\ reused' = reused \ {k}
      /\ UNCHANGED <<pc, key, pn>>
  BY DEF Numbers, rcu_free, tx
<1>2. /\ used'[k] = {} /\ \A l \in Key : l # k => /\ used'[l] = used[l] /\ type'[l] = type[l]
                                                 /\ tx_seq'[l] = tx_seq[l] /\ life'[l] = life[l]
  BY <1>1 DEF TypeOK
<1>3. FreshInv'
  BY <1>1, <1>2 DEF FreshInv
<1>4. WeakInv'
  BY <1>1, <1>2 DEF WeakInv
<1>5. BoundInv'
  <2> SUFFICES ASSUME NEW l \in Key
               PROVE  /\ IsFiniteSet(used'[l])
                      /\ Cardinality(used'[l]) + Cardinality(Waiting') <= MaxPn + Cardinality(Queue)
    BY DEF BoundInv
  <2>1. Waiting' = Waiting
    BY <1>1 DEF Waiting
  <2>2. CASE l = k
    <3>1. IsFiniteSet(used'[l]) /\ Cardinality(used'[l]) = 0
      BY <1>2, <2>2, FS_EmptySet
    <3> QED BY <3>1, Finite, TxPathAssumption
  <2>3. CASE l # k
    BY <1>1, <1>2, <2>1, <2>3 DEF BoundInv
  <2> QED BY <2>2, <2>3
<1>6. CountInv'
  <2> SUFFICES ASSUME NEW l \in Key PROVE Counted(l)'
    BY DEF CountInv
  <2>1. l # k => Counting(l)' = Counting(l)
    BY <1>1, <1>2 DEF Counting
  <2>2. Counted(l)
    BY <1>1 DEF CountInv
  <2>3. CASE l # k
    BY <1>1, <1>2, <2>1, <2>2, <2>3, CountedFrame
  <2>4. CASE l = k
    <3>1. Counting(l)' = {}
      BY <1>1, <2>4 DEF Counting, TypeOK
    <3>2. used'[l] = {} /\ l \notin reused' /\ tx_seq'[l] \in Nat
      BY <1>1, <1>2, <2>4 DEF TypeOK
    <3> QED BY <3>1, <3>2, FreshCounted
  <2> QED BY <2>3, <2>4
<1> QED BY <1>3, <1>4, <1>5, <1>6 DEF Numbers

\* The number r92su_tx_add_iv takes is the counter of the key, or one step of
\* the filter further.
LEMMA Number ==
  ASSUME NEW t, NEW m \in Nat, NEW c \in Nat, Lap(t, m, c)
  PROVE  LET n == IF t = "WEP" THEN Filter(m) ELSE m
         IN  n \in Nat /\ \E d \in Nat : c <= d /\ d <= c + Byte /\ Lap(t, n, d)
<1> DEFINE n == IF t = "WEP" THEN Filter(m) ELSE m
<1>1. Byte \in Nat /\ n \in Nat
  BY TxPathAssumption, CounterTypes
<1>2. CASE n = m
  BY <1>1, <1>2
<1>3. CASE n # m
  <2>1. t = "WEP" /\ n = (m + Byte) % Width(t)
    BY <1>3 DEF Filter, Width
  <2>2. m + Byte \in Nat /\ c + Byte \in Nat /\ Lap(t, m + Byte, c + Byte)
    <3>1. \A k \in Nat : Lap(t, m + k, c + k)
      BY Laps
    <3> QED BY <1>1, <3>1
  <2> DEFINE a == m + Byte
             d == c + Byte
  <2> HIDE DEF a, d, n
  <2>3. Lap(t, a % Width(t), d)
    BY <2>2, Laps DEF a, d
  <2>4. d \in Nat /\ c <= d /\ d <= c + Byte /\ Lap(t, n, d)
    BY <1>1, <2>1, <2>2, <2>3 DEF a, d
  <2> QED BY <1>1, <2>4 DEF n
<1> QED BY <1>2, <1>3

\* A frame gets its number.
LEMMA NumberStep ==
  ASSUME NoWrap, TypeOK, HeldInv, Numbers, NEW q \in Queue, add_iv(q)
  PROVE  Numbers'
<1> DEFINE k == key[q]
           m == tx_seq[k]
           t == type[k]
           n == IF t = "WEP" THEN Filter(m) ELSE m
<1>1. /\ FreshInv /\ WeakInv /\ BoundInv /\ CountInv
      /\ pc[q] = "iv" /\ tx_seq' = [tx_seq EXCEPT ![k] = n] /\ pn' = [pn EXCEPT ![q] = n]
      /\ used' = [used EXCEPT ![k] = @ \cup {n}]
      /\ reused' = (IF n \in used[k] THEN reused \cup {k} ELSE reused)
      /\ raced' = (IF \E p \in Queue : pc[p] = "count" /\ key[p] = k THEN raced \cup {k} ELSE raced)
      /\ pc' = [pc EXCEPT ![q] = "count"] /\ UNCHANGED <<type, life, key>>
  BY DEF Numbers, add_iv, Goto
<1>2. k \in Key /\ life[k] # "freed"
  BY <1>1 DEF HeldInv, TypeOK, add_iv
<1>3. m \in Nat /\ Byte \in Nat /\ MaxPn \in Nat /\ n \in Nat
  BY <1>2, TxPathAssumption, CounterTypes DEF TypeOK
<1>4. t = "WEP" => ~Weak(n)
  BY <1>3, FilterStrong
<1> HIDE DEF n
<1>5. /\ used'[k] = used[k] \cup {n} /\ tx_seq'[k] = n /\ pn'[q] = n /\ pc'[q] = "count"
      /\ \A l \in Key : l # k => used'[l] = used[l] /\ tx_seq'[l] = tx_seq[l]
      /\ \A p \in Queue : p # q => pc'[p] = pc[p] /\ pn'[p] = pn[p]
  BY <1>1, <1>2 DEF TypeOK
<1>6. FreshInv'
  BY <1>1, <1>2, <1>5 DEF FreshInv
<1>7. WeakInv'
  BY <1>1, <1>2, <1>4, <1>5 DEF WeakInv
<1>8. /\ q \in Waiting /\ IsFiniteSet(Waiting') /\ Cardinality(Waiting') = Cardinality(Waiting) - 1
  <2>1. q \in Waiting /\ Waiting' = Waiting \ {q}
    BY <1>1, <1>5 DEF Waiting
  <2> DEFINE A == Waiting
             B == Waiting'
  <2>2. q \in A /\ IsFiniteSet(A) /\ B = A \ {q}
    BY <2>1, Finite
  <2> HIDE DEF A, B
  <2>3. IsFiniteSet(B) /\ Cardinality(B) = Cardinality(A) - 1
    BY <2>2, FS_RemoveElement
  <2> QED BY <2>1, <2>3 DEF A, B
<1>9. \A l \in Key : /\ IsFiniteSet(used[l]) /\ Cardinality(used[l]) \in Nat
                     /\ Cardinality(used[l]) + Cardinality(Waiting) <= MaxPn + Cardinality(Queue)
  BY <1>1, FS_CardinalityType DEF BoundInv
<1>10. /\ IsFiniteSet(used'[k]) /\ Cardinality(used'[k]) <= Cardinality(used[k]) + 1
       /\ n \notin used[k] => Cardinality(used'[k]) = Cardinality(used[k]) + 1
       /\ Cardinality(used'[k]) \in Nat
  <2> DEFINE S == used[k]
             T == S \cup {n}
  <2>1. IsFiniteSet(S) /\ Cardinality(S) \in Nat
    BY <1>2, <1>9
  <2> HIDE DEF S
  <2>2. /\ IsFiniteSet(T) /\ Cardinality(T) <= Cardinality(S) + 1
        /\ n \notin S => Cardinality(T) = Cardinality(S) + 1
    <3>1. IsFiniteSet(T) /\ Cardinality(T) = IF n \in S THEN Cardinality(S) ELSE Cardinality(S) + 1
      BY <2>1, FS_AddElement
    <3> QED BY <2>1, <3>1
  <2>3. Cardinality(T) \in Nat
    BY <2>2, FS_CardinalityType
  <2> QED BY <1>5, <2>2, <2>3 DEF S
<1>11. BoundInv'
  <2> SUFFICES ASSUME NEW l \in Key
               PROVE  /\ IsFiniteSet(used'[l])
                      /\ Cardinality(used'[l]) + Cardinality(Waiting') <= MaxPn + Cardinality(Queue)
    BY DEF BoundInv
  <2>1. IsFiniteSet(used'[l]) /\ Cardinality(used'[l]) \in Nat
        /\ Cardinality(used'[l]) <= Cardinality(used[l]) + 1
    <3>1. CASE l = k
      BY <1>10, <3>1
    <3>2. CASE l # k
      BY <1>5, <1>9, <3>2
    <3> QED BY <3>1, <3>2
  <2>2. /\ Cardinality(used[l]) \in Nat
        /\ Cardinality(used[l]) + Cardinality(Waiting) <= MaxPn + Cardinality(Queue)
    BY <1>9
  <2> QED BY <1>3, <1>8, <2>1, <2>2, Finite
<1>12. ASSUME NEW l \in Key, l # k PROVE Counted(l)'
  <2>1. Counting(l)' = Counting(l)
    BY <1>1, <1>5, <1>12 DEF Counting
  <2>2. \A p \in Counting(l) : pn'[p] = pn[p]
    BY <1>1, <1>5 DEF Counting
  <2>3. Counted(l) /\ type'[l] = type[l] /\ tx_seq'[l] = tx_seq[l] /\ used'[l] = used[l]
    BY <1>1, <1>5, <1>12 DEF CountInv
  <2>4. (l \in raced => l \in raced') /\ (l \in reused' => l \in reused)
    BY <1>1, <1>12
  <2> HIDE DEF k
  <2> QED BY <2>1, <2>2, <2>3, <2>4, CountedFrame
<1>13. ASSUME NEW l \in Key, l = k PROVE Counted(l)'
  <2>1. CASE k \in raced'
    BY <1>13, <2>1 DEF Counted
  <2>2. CASE k \notin raced'
    <3>1. Counting(k) = {} /\ k \notin raced
      BY <1>1, <2>2 DEF Counting
    <3>2. Counting(l)' = {q}
      BY <1>1, <1>2, <1>5, <1>13, <3>1 DEF Counting
    <3>3. k \notin reused /\ \E s, c \in Nat : Counter(k, s, c)
      BY <1>1, <1>2, <3>1 DEF CountInv, Counted
    <3>4. PICK s \in Nat, c \in Nat : Counter(k, s, c)
      BY <3>3
    <3> DEFINE u == Cardinality(used[k])
               v == Cardinality(used'[k])
    <3>5. /\ s <= c /\ Lap(t, m, c) /\ c <= s + (Byte + 1) * u
          /\ \A i \in used[k] : \E x \in Nat : s <= x /\ x < c /\ Lap(t, i, x)
      <4>1. Taken(k) = 0
        BY <3>1 DEF Taken
      <4> QED BY <3>4, <4>1 DEF Counter
    <3>6. PICK d \in Nat : c <= d /\ d <= c + Byte /\ Lap(t, n, d)
      BY <1>3, <3>5, Number DEF n
    <3>7. u \in Nat /\ d + 1 <= s + (Byte + 1) * (u + 1)
      <4>1. u \in Nat
        BY <1>2, <1>9
      <4> HIDE DEF u
      <4>2. (Byte + 1) * (u + 1) = (Byte + 1) * u + (Byte + 1) /\ (Byte + 1) * u \in Nat
        BY <1>3, <4>1
      <4> QED BY <1>3, <3>5, <3>6, <4>1, <4>2
    <3>8. d < s + Width(t)
      <4> DEFINE a == MaxPn + Cardinality(Queue)
                 b == Byte + 1
                 w == u + 1
      <4>1. w <= a /\ a \in Nat /\ b \in Nat /\ w \in Nat
        <5>1. u + Cardinality(Waiting) <= a
          BY <1>2, <1>9
        <5>2. Cardinality(Waiting) >= 1
          <6>1. Cardinality(Waiting) # 0
            BY <1>8, Finite, FS_EmptySet
          <6> QED BY <6>1, Finite
        <5>3. a \in Nat /\ b \in Nat /\ Cardinality(Waiting) \in Nat
          BY <1>3, Finite
        <5> HIDE DEF a, u
        <5> QED BY <3>7, <5>1, <5>2, <5>3
      <4>2. b * a <= Weight(3)
        BY DEF NoWrap
      <4>3. d + 1 <= s + b * w
        BY <3>7
      <4> HIDE DEF a, b, w, u, t
      <4>4. PICK z \in Nat : a = w + z
        <5>1. a - w \in Nat /\ a = w + (a - w)
          BY <4>1
        <5> QED BY <5>1
      <4>5. b * a = b * w + b * z /\ b * w \in Nat /\ b * z \in Nat
        BY <4>1, <4>4
      <4>6. Weight(3) <= Width(t) /\ Width(t) \in Nat /\ Weight(3) \in Nat
        BY Widths
      <4> QED BY <4>2, <4>3, <4>5, <4>6
    <3>9. n \notin used[k]
      <4> SUFFICES ASSUME n \in used[k] PROVE FALSE
        OBVIOUS
      <4>1. PICK x \in Nat : s <= x /\ x < c /\ Lap(t, n, x)
        BY <3>5
      <4>2. x < d
        BY <3>6, <4>1
      <4> HIDE DEF t
      <4>3. x + Width(t) <= d
        BY <1>3, <3>6, <4>1, <4>2, LapsApart
      <4> QED BY <3>8, <4>1, <4>3, Widths
    <3>10. k \notin reused' /\ v = u + 1
      BY <1>1, <1>10, <3>3, <3>9
    <3>11. \A i \in used'[k] : \E x \in Nat : s <= x /\ x < d + 1 /\ Lap(t, i, x)
      <4> SUFFICES ASSUME NEW i \in used'[k]
                   PROVE  \E x \in Nat : s <= x /\ x < d + 1 /\ Lap(t, i, x)
        OBVIOUS
      <4>1. CASE i = n
        <5>1. s <= d /\ d < d + 1
          BY <3>5, <3>6
        <5> QED BY <3>6, <4>1, <5>1
      <4>2. CASE i \in used[k]
        <5>1. PICK x \in Nat : s <= x /\ x < c /\ Lap(t, i, x)
          BY <3>5, <4>2
        <5>2. x < d + 1
          BY <3>6, <5>1
        <5> QED BY <5>1, <5>2
      <4> QED BY <1>5, <4>1, <4>2
    <3>12. l = k
      BY <1>13
    <3>13. /\ s <= d /\ Lap(type'[l], tx_seq'[l], d)
           /\ d + 1 <= s + (Byte + 1) * Cardinality(used'[l])
           /\ \A i \in used'[l] : \E x \in Nat : s <= x /\ x < d + 1 /\ Lap(type'[l], i, x)
      BY <1>1, <1>5, <3>5, <3>6, <3>7, <3>10, <3>11, <3>12
    <3>14. Taken(l)' = 1
      BY <3>2 DEF Taken
    <3>15. Counter(l, s, d)'
      BY <3>13, <3>14 DEF Counter
    <3>16. pn'[q] = tx_seq'[l] /\ l \notin reused'
      BY <1>5, <3>10, <3>12
    <3> QED BY <3>2, <3>15, <3>16 DEF Counted
  <2> QED BY <2>1, <2>2
<1>14. CountInv'
  <2> SUFFICES ASSUME NEW l \in Key PROVE Counted(l)'
    BY DEF CountInv
  <2>1. CASE l # k
    BY <1>12, <2>1
  <2>2. CASE l = k
    BY <1>13, <2>2
  <2> QED BY <2>1, <2>2
<1> QED BY <1>6, <1>7, <1>11, <1>14 DEF Numbers

\* The counter goes on: what a queue reads for the increment, with nobody else
\* counting on the key, is the number it has put into its frame.
LEMMA IncrementStep ==
  ASSUME NoWrap, TypeOK, HeldInv, Numbers, NEW q \in Queue, increment(q)
  PROVE  Numbers'
<1>0. PICK k \in Key : k = key[q] /\ life[k] # "freed"
  BY DEF increment, HeldInv, TypeOK
<1>1. /\ FreshInv /\ WeakInv /\ BoundInv /\ CountInv
      /\ pc[q] = "count" /\ pc' = [pc EXCEPT ![q] = "desc"]
      /\ \E n \in {pn[q], tx_seq[k]} : tx_seq' = [tx_seq EXCEPT ![k] = Next1(type[k], n)]
      /\ UNCHANGED <<type, life, key, pn, used, raced, reused>>
  BY <1>0 DEF Numbers, increment, Goto, hist
<1>2. /\ \A l \in Key : l # k => tx_seq'[l] = tx_seq[l]
      /\ pc'[q] = "desc" /\ \A p \in Queue : p # q => pc'[p] = pc[p]
  BY <1>0, <1>1 DEF TypeOK
<1>3. FreshInv' /\ WeakInv'
  BY <1>1 DEF FreshInv, WeakInv
<1>4. BoundInv'
  <2>1. Waiting' = Waiting
    BY <1>1, <1>2 DEF Waiting
  <2> QED BY <1>1, <2>1 DEF BoundInv
<1>5. ASSUME NEW l \in Key, l # k PROVE Counted(l)'
  <2>1. Counting(l)' = Counting(l)
    BY <1>0, <1>1, <1>2, <1>5 DEF Counting
  <2>2. Counted(l) /\ tx_seq'[l] = tx_seq[l]
    BY <1>1, <1>2, <1>5 DEF CountInv
  <2> QED BY <1>1, <2>1, <2>2, CountedFrame
<1>6. Counted(k)'
  <2> SUFFICES ASSUME k \notin raced
               PROVE  /\ k \notin reused
                      /\ \A p, r \in Counting(k)' : p = r
                      /\ \A p \in Counting(k)' : pn'[p] = tx_seq'[k]
                      /\ \E s, c \in Nat : Counter(k, s, c)'
    BY <1>1 DEF Counted
  <2>1. /\ k \notin reused /\ (\A p, r \in Counting(k) : p = r)
        /\ (\A p \in Counting(k) : pn[p] = tx_seq[k]) /\ \E s, c \in Nat : Counter(k, s, c)
    BY <1>1 DEF CountInv, Counted
  <2>2. q \in Counting(k)
    BY <1>0, <1>1 DEF Counting
  <2>3. Counting(k) = {q} /\ pn[q] = tx_seq[k]
    BY <2>1, <2>2
  <2>4. Counting(k)' = {}
    BY <1>1, <1>2, <2>3 DEF Counting
  <2> DEFINE t == type[k]
             m == tx_seq[k]
  <2>5. tx_seq'[k] = (m + 1) % Width(t) /\ m \in Nat
    BY <1>1, <2>3 DEF TypeOK, Next1
  <2>6. PICK s \in Nat, c \in Nat : Counter(k, s, c)
    BY <2>1
  <2>7. Taken(k) = 1 /\ Taken(k)' = 0
    BY <2>3, <2>4 DEF Taken
  <2>8. /\ s <= c /\ Lap(t, m, c) /\ c + 1 <= s + (Byte + 1) * Cardinality(used[k])
        /\ \A n \in used[k] : \E x \in Nat : s <= x /\ x < c + 1 /\ Lap(t, n, x)
    BY <2>6, <2>7 DEF Counter
  <2>9. Lap(t, (m + 1) % Width(t), c + 1)
    <3> DEFINE a == m + 1
               d == c + 1
    <3>1. a \in Nat /\ d \in Nat
      BY <2>5
    <3>2. Lap(t, a, d)
      <4> HIDE DEF m, t
      <4>1. \A i \in Nat : Lap(t, m + i, c + i)
        BY <2>5, <2>8, Laps
      <4> QED BY <4>1
    <3> HIDE DEF a, d, t
    <3>3. Lap(t, a % Width(t), d)
      BY <3>1, <3>2, Laps
    <3> QED BY <3>3 DEF a, d
  <2> PICK d \in Nat : d = c + 1
    OBVIOUS
  <2>10. /\ s <= d /\ Lap(type'[k], tx_seq'[k], d)
         /\ d + 0 <= s + (Byte + 1) * Cardinality(used'[k])
         /\ \A n \in used'[k] : \E x \in Nat : s <= x /\ x < d + 0 /\ Lap(type'[k], n, x)
    BY <1>1, <2>5, <2>8, <2>9
  <2>11. Counter(k, s, d)'
    BY <2>7, <2>10 DEF Counter
  <2> QED BY <2>1, <2>4, <2>11
<1>7. CountInv'
  BY <1>5, <1>6 DEF CountInv
<1> QED BY <1>3, <1>4, <1>7 DEF Numbers

\* No frame has been sent.
LEMMA NumbersInit ==
  ASSUME NoWrap, Init
  PROVE  Numbers
<1>1. FreshInv /\ WeakInv
  BY DEF Init, FreshInv, WeakInv
<1>2. BoundInv
  <2> SUFFICES ASSUME NEW k \in Key
               PROVE  /\ IsFiniteSet(used[k])
                      /\ Cardinality(used[k]) + Cardinality(Waiting) <= MaxPn + Cardinality(Queue)
    BY DEF BoundInv
  <2>1. IsFiniteSet(used[k]) /\ Cardinality(used[k]) = 0
    BY FS_EmptySet DEF Init
  <2> QED BY <2>1, Finite, TxPathAssumption
<1>3. CountInv
  <2> SUFFICES ASSUME NEW k \in Key PROVE Counted(k)
    BY DEF CountInv
  <2>1. Counting(k) = {} /\ used[k] = {} /\ k \notin reused /\ tx_seq[k] = 0
    BY DEF Init, Counting
  <2>2. Taken(k) = 0 /\ Cardinality(used[k]) = 0 /\ Byte \in Nat
    BY <2>1, FS_EmptySet, TxPathAssumption DEF Taken
  <2>3. Lap(type[k], 0, 0)
    BY Laps
  <2>4. 0 <= 0 /\ 0 + 0 <= 0 + (Byte + 1) * 0
    BY <2>2
  <2>5. Counter(k, 0, 0)
    BY <2>1, <2>2, <2>3, <2>4 DEF Counter
  <2> QED BY <2>1, <2>5 DEF Counted
<1> QED BY <1>1, <1>2, <1>3 DEF Numbers

\* Every step keeps the numbers in order.
LEMMA NumbersNext ==
  ASSUME NoWrap, Inductive, Inductive', Numbers, [Next]_vars
  PROVE  Numbers'
<1>1. TypeOK /\ TypeOK' /\ HeldInv /\ PointerInv
  BY DEF Inductive
<1>2. CASE Quiet
  BY <1>1, <1>2, QuietStep
<1>3. ASSUME NEW q \in Queue, add_iv(q) PROVE Numbers'
  BY <1>1, <1>3, NumberStep
<1>4. ASSUME NEW q \in Queue, increment(q) PROVE Numbers'
  BY <1>1, <1>4, IncrementStep
<1>5. ASSUME NEW k \in Key, Alloc(k) PROVE Numbers'
  BY <1>1, <1>5, AllocStep
<1>6. ASSUME NEW k \in Key, rcu_free(k) PROVE Numbers'
  BY <1>1, <1>6, FreeStep
<1> QED BY <1>1, <1>2, <1>3, <1>4, <1>5, <1>6, Kinds

\* No two frames of a key carry the same packet number unless two queues were
\* in r92su_tx_add_iv with the key at once, and no WEP frame a weak one, as long
\* as no key is used for more frames than its counter has numbers for.
THEOREM PnUniqueAlways ==
  ASSUME NoWrap
  PROVE  Spec => []PnUnique
<1>1. Init => Numbers
  BY NumbersInit
<1>2. Inductive /\ Inductive' /\ Numbers /\ [Next]_vars => Numbers'
  BY NumbersNext
<1>3. Inductive /\ Numbers => PnUnique
  BY DEF Inductive, TypeOK, Numbers, CountInv, Counted, WeakInv, PnUnique
<1> QED BY InductiveHolds, <1>1, <1>2, <1>3, PTL DEF Spec
=============================================================================
