------------------------------- MODULE TxPath -------------------------------
(***************************************************************************)
(* r92su_tx (r92su/tx.c) and the keys it uses (r92su/main.c, r92su/sta.c). *)
(* The netdev has several TX queues, each with a lock of its own: r92su_tx *)
(* runs on all of them at once and takes no lock.  It tests the state,     *)
(* enters an RCU section, reads connect_bss and walks through the handlers *)
(* for the frame; meanwhile whoever holds r92su->lock replaces and removes *)
(* keys, disconnects and connects again - also when it is connected: the   *)
(* work tests only that the device is open.  Two others hold no lock and   *)
(* change what the queues read: r92su_bss_free at the end of a work whose  *)
(* join has failed, and the station events of the firmware.                *)
(*                                                                         *)
(* There is one bss entry, to which the driver reconnects: group_key lives *)
(* in it, sta_key in the station it points at.  The bss keeps this pointer *)
(* when the station is gone from the list, so that a queue can read a      *)
(* station that call_rcu does not keep for it: `stale' records these.      *)
(***************************************************************************)
EXTENDS Naturals, FiniteSets

CONSTANTS
    Queue,    \* TX queues of the netdev
    Key,      \* key objects; a freed one can be allocated again
    NoKey,    \* NULL
    Cipher,   \* the cipher suites keys are made for
    Byte,     \* values of a byte of the IV
    KeyLen,   \* key_len of the WEP keys
    MaxPn     \* bound: no new frame once a key has counted so far

ASSUME TxPathAssumption ==
    /\ NoKey \notin Key /\ Cipher \subseteq {"WEP", "TKIP", "CCMP"}
    /\ Byte \in Nat \ {0, 1} /\ KeyLen \in Nat /\ MaxPn \in Nat

VARIABLES
    state,         \* r92su->state: CONNECTED or OPEN
    lpc,           \* statement of the holder of r92su->lock
    connect_bss,   \* connect_bss # NULL
    enc_sta,       \* bss_priv->sta->enc_sta, with the cipher of the network
    sta_key,       \* bss_priv->sta->sta_key
    listed,        \* bss_priv->sta is in the station list
    group_key,     \* bss_priv->group_key, two of the four
    def_key,       \* bss_priv->def_uni_key_idx and def_multi_key_idx, set together
    type, tx_seq,  \* [Key -> the cipher and the packet number counter]
    life, grace,   \* [Key -> stage of its life, RCU sections kfree_rcu waits for]
    pc, key, pn,   \* [Queue -> handler, tx_info->key and the number in the IV]
    wpc, wkey,     \* r92su_bss_free after a failed join: statement and key
    stale,         \* queues that entered when bss_priv->sta was unlisted (history)
    keyed,         \* queues that have had a pairwise key to find (history)
    used,          \* [Key -> packet numbers put on frames] (history)
    raced, reused  \* keys two queues counted on at once; numbers used twice (history)

bss  == <<connect_bss, enc_sta, sta_key, listed, group_key, def_key>>
keys == <<type, tx_seq, life, grace>>
tx   == <<pc, key, pn>>
tail == <<wpc, wkey>>
hist == <<used, raced, reused>>
vars == <<state, lpc, bss, keys, tx, tail, stale, keyed, hist>>

Idx    == 0 .. 1
Inside == {q \in Queue : pc[q] \notin {"idle", "lock"}}   \* RCU read side

-----------------------------------------------------------------------------
(* The IV.                                                                 *)

\* The weight of byte i of a number: Byte to the power of i.
Byte2     == Byte * Byte
Byte3     == Byte2 * Byte
Weight(i) == CASE i = 0 -> 1     [] i = 1 -> Byte          [] i = 2 -> Byte2
               [] i = 3 -> Byte3 [] i = 4 -> Byte3 * Byte  [] i = 5 -> Byte3 * Byte2
               [] i = 6 -> Byte3 * Byte3

Digit(n, i) == (n \div Weight(i)) % Byte

\* r92su_tx_add_iv.  Byte 3 holds the key index and the Ext IV bit, byte 1 of
\* TKIP is a check of byte 0: neither carries a part of the number.
ccmp_iv(n) == [i \in {0, 1, 4, 5, 6, 7} |-> Digit(n, IF i < 2 THEN i ELSE i - 2)]

\* Mutant: the low bytes of TKIP in the order of CCMP.
MutTkipIv(n) ==
    [i \in {0, 2, 4, 5, 6, 7} |->
        Digit(n, CASE i = 0 -> 0 [] i = 2 -> 1 [] OTHER -> i - 2)]

tkip_iv(n) ==
    [i \in {0, 2, 4, 5, 6, 7} |->
        Digit(n, CASE i = 0 -> 1 [] i = 2 -> 0 [] OTHER -> i - 2)]

\* A weak WEP IV is stepped over before it is used.
Weak(n)   == Digit(n, 1) = Byte - 1 /\ Digit(n, 2) >= 3 /\ Digit(n, 2) < 3 + KeyLen
Filter(n) == IF Weak(n) THEN (n + Byte) % Weight(3) ELSE n

\* r92su_rx_iv_remove: the number a receiver of this driver reads.
High(iv)        == ((iv[7] * Byte + iv[6]) * Byte + iv[5]) * Byte + iv[4]
rx_ccmp_seq(iv) == (High(iv) * Byte + iv[1]) * Byte + iv[0]
rx_tkip_seq(iv) == (High(iv) * Byte + iv[0]) * Byte + iv[2]

\* The counters are bit-fields of 48 and 24 bits.
Width(t)   == IF t = "WEP" THEN Weight(3) ELSE Weight(6)
Next1(t, n) == (n + 1) % Width(t)

\* r92su_key_alloc: WEP starts at random, here just before a weak IV.
StartSeq(t) ==
    CASE t = "WEP"  -> 3 * Byte2 + (Byte - 1) * Byte - 1
      [] t = "TKIP" -> 1
      [] t = "CCMP" -> 0

-----------------------------------------------------------------------------

TypeOK ==
    /\ state \in {"OPEN", "CONNECTED"}
    /\ lpc \in {"idle", "unpublish", "release", "install", "publish"}
    /\ connect_bss \in BOOLEAN /\ enc_sta \in Cipher \cup {"NONE"}
    /\ sta_key \in Key \cup {NoKey} /\ group_key \in [Idx -> Key \cup {NoKey}]
    /\ def_key \in Idx /\ listed \in BOOLEAN
    /\ type \in [Key -> Cipher \cup {"NONE"}] /\ tx_seq \in [Key -> Nat]
    /\ life \in [Key -> {"freed", "live", "dying"}]
    /\ grace \in [Key -> SUBSET Queue]
    /\ pc \in [Queue -> {"idle", "lock", "own", "ap", "uni", "iv", "count", "desc"}]
    /\ key \in [Queue -> Key \cup {NoKey}] /\ pn \in [Queue -> Nat]
    /\ wpc \in {"idle", "clear0", "clear1", "sta"} /\ wkey \in Key \cup {NoKey}
    /\ stale \subseteq Queue /\ keyed \subseteq Queue
    /\ used \in [Key -> SUBSET Nat] /\ raced \subseteq Key /\ reused \subseteq Key

Init ==
    /\ state = "OPEN" /\ lpc = "idle" /\ connect_bss = FALSE /\ enc_sta = "NONE"
    /\ sta_key = NoKey /\ group_key = [i \in Idx |-> NoKey]
    /\ def_key = 0 /\ listed = FALSE
    /\ type = [k \in Key |-> "NONE"] /\ tx_seq = [k \in Key |-> 0]
    /\ life = [k \in Key |-> "freed"] /\ grace = [k \in Key |-> {}]
    /\ pc = [q \in Queue |-> "idle"]
    /\ key = [q \in Queue |-> NoKey] /\ pn = [q \in Queue |-> 0]
    /\ wpc = "idle" /\ wkey = NoKey
    /\ stale = {} /\ keyed = {} /\ used = [k \in Key |-> {}] /\ raced = {} /\ reused = {}

-----------------------------------------------------------------------------
(* Keys.                                                                   *)

\* Mutant: kfree instead of kfree_rcu.
MutKeyFreeNow(ks) == [k \in Key |-> IF k \in ks THEN "freed" ELSE life[k]]

\* r92su_key_free: kfree_rcu waits for those who are inside now.  A second call
\* for the same key does not make it wait longer.
Dying(ks)  == [k \in Key |-> IF k \in ks THEN "dying" ELSE life[k]]
Awaits(ks) == [k \in Key |-> IF k \in ks /\ life[k] = "live" THEN Inside ELSE grace[k]]
key_free(ks) == life' = Dying(ks) /\ grace' = Awaits(ks)

\* r92su_key_alloc of an object nobody points at.
key_alloc(k) ==
    /\ life[k] = "freed" /\ k \notin {sta_key} \cup {group_key[i] : i \in Idx}
    /\ \A q \in Queue : key[q] # k
    /\ type' = [type EXCEPT ![k] = enc_sta]
    /\ tx_seq' = [tx_seq EXCEPT ![k] = StartSeq(enc_sta)]
    /\ UNCHANGED hist

\* The new key is live from here on; the one it replaces, if any, is freed.
Swap(old, k) ==
    /\ life' = [Dying({old}) EXCEPT ![k] = "live"]
    /\ grace' = Awaits({old})

\* Mutant: an old key is taken out and the new one is not put in its place.
MutAddKeyClears(k) ==
    /\ lpc = "idle" /\ state = "CONNECTED" /\ listed /\ enc_sta # "NONE"
    /\ key_alloc(k) /\ Swap(sta_key, k)
    /\ sta_key' = IF sta_key = NoKey THEN k ELSE NoKey
    /\ UNCHANGED <<state, lpc, connect_bss, enc_sta, listed, group_key, def_key,
                   tx, tail, stale, keyed>>

\* r92su_add_key, pairwise: r92su_sta_get has to find the station.  When it
\* does not, or the command to the firmware fails, the new key is freed again
\* and nothing has changed.
add_sta_key(k) ==
    /\ lpc = "idle" /\ state = "CONNECTED" /\ listed /\ enc_sta # "NONE"
    /\ key_alloc(k) /\ Swap(sta_key, k)
    /\ sta_key' = k
    /\ UNCHANGED <<state, lpc, connect_bss, enc_sta, listed, group_key, def_key,
                   tx, tail, stale, keyed>>

\* r92su_add_key of a group key.
add_group_key(k, i) ==
    /\ lpc = "idle" /\ state = "CONNECTED" /\ enc_sta # "NONE"
    /\ key_alloc(k) /\ Swap(group_key[i], k)
    /\ group_key' = [group_key EXCEPT ![i] = k]
    /\ UNCHANGED <<state, lpc, connect_bss, enc_sta, sta_key, listed, def_key, tx,
                   tail, stale, keyed>>

del_sta_key ==
    /\ lpc = "idle" /\ state = "CONNECTED" /\ listed /\ sta_key # NoKey
    /\ key_free({sta_key}) /\ sta_key' = NoKey
    /\ keyed' = {}
    /\ UNCHANGED <<state, lpc, connect_bss, enc_sta, listed, group_key, def_key,
                   type, tx_seq, tx, tail, stale, hist>>

del_group_key(i) ==
    /\ lpc = "idle" /\ state = "CONNECTED" /\ group_key[i] # NoKey
    /\ key_free({group_key[i]})
    /\ group_key' = [group_key EXCEPT ![i] = NoKey]
    /\ UNCHANGED <<state, lpc, connect_bss, enc_sta, sta_key, listed, def_key,
                   type, tx_seq, tx, tail, stale, keyed, hist>>

set_default_key(i) ==
    /\ lpc = "idle" /\ state = "CONNECTED" /\ def_key # i
    /\ def_key' = i
    /\ UNCHANGED <<state, lpc, connect_bss, enc_sta, sta_key, listed, group_key,
                   keys, tx, tail, stale, keyed, hist>>

\* The grace period of a key ends (external): the object is gone, and with it
\* what the history has kept of it.  If it was freed with its station, then
\* r92su_free_sta_rcu has taken it out of there.  r92su_bss_free is in an RCU
\* section as well, and its key stays.
rcu_free(k) ==
    /\ life[k] = "dying" /\ grace[k] = {} /\ k # wkey
    /\ life' = [life EXCEPT ![k] = "freed"]
    /\ type' = [type EXCEPT ![k] = "NONE"] /\ tx_seq' = [tx_seq EXCEPT ![k] = 0]
    /\ used' = [used EXCEPT ![k] = {}]
    /\ raced' = raced \ {k} /\ reused' = reused \ {k}
    /\ sta_key' = IF sta_key = k THEN NoKey ELSE sta_key
    /\ UNCHANGED <<state, lpc, connect_bss, enc_sta, listed, group_key, def_key,
                   grace, tx, tail, stale, keyed>>

-----------------------------------------------------------------------------
(* Connections, as far as the transmit path sees them.                     *)

\* r92su_sta_del(BSS_MACID): the station leaves the list and goes to call_rcu.
\* r92su_free_sta_rcu frees its key after that grace period (by kfree_rcu, and
\* so later than here).  bss_priv->sta keeps the pointer.
sta_del ==
    /\ IF listed THEN key_free({sta_key}) ELSE UNCHANGED <<life, grace>>
    /\ listed' = FALSE

\* r92su_bss_free_connected: the state goes first, then connect_bss, ...
disconnect ==
    /\ lpc = "idle" /\ state = "CONNECTED"
    /\ state' = "OPEN" /\ lpc' = "unpublish"
    /\ UNCHANGED <<bss, keys, tx, tail, stale, keyed, hist>>

unpublish ==
    /\ lpc = "unpublish"
    /\ connect_bss' = FALSE /\ lpc' = "release"
    /\ UNCHANGED <<state, enc_sta, sta_key, listed, group_key, def_key, keys, tx,
                   tail, stale, keyed, hist>>

\* ... then r92su_bss_free takes the group keys out and frees them, and the
\* station with its key.
release ==
    /\ lpc = "release"
    /\ key_free({k \in Key : (listed /\ k = sta_key) \/ \E i \in Idx : group_key[i] = k})
    /\ group_key' = [i \in Idx |-> NoKey] /\ listed' = FALSE
    /\ lpc' = "idle"
    /\ UNCHANGED <<state, connect_bss, enc_sta, sta_key, def_key, type, tx_seq, tx,
                   tail, stale, keyed, hist>>

\* r92su_bss_connect_work, whether or not the device is connected:
\* r92su_sta_alloc removes the station that is listed ...
connect ==
    /\ lpc = "idle" /\ wpc = "idle"
    /\ sta_del /\ lpc' = "install"
    /\ UNCHANGED <<state, connect_bss, enc_sta, sta_key, group_key, def_key, type,
                   tx_seq, tx, tail, stale, keyed, hist>>

\* ... and lists the new one, which bss_priv->sta names a while later; then
\* connect_bss.
install(enc) ==
    /\ lpc = "install"
    /\ enc_sta' = enc /\ sta_key' = NoKey /\ listed' = TRUE /\ connect_bss' = TRUE
    /\ keyed' = {} /\ lpc' = "publish"
    /\ UNCHANGED <<state, group_key, def_key, keys, tx, tail, stale, hist>>

publish ==
    /\ lpc = "publish"
    /\ state' = "CONNECTED" /\ lpc' = "idle"
    /\ UNCHANGED <<bss, keys, tx, tail, stale, keyed, hist>>

\* A join that failed: the work drops the lock and calls r92su_bss_free for
\* the bss that was wanted, which may be the one that is connected.
join_failed ==
    /\ lpc = "idle" /\ wpc = "idle"
    /\ wkey' = group_key[0] /\ wpc' = "clear0"
    /\ UNCHANGED <<state, lpc, bss, keys, tx, stale, keyed, hist>>

\* The pointer is cleared and the key that was there freed, then the next
\* pointer is read.  Whoever holds the lock may have put another key there
\* since, or have freed the same one.
bss_free_key(i) ==
    /\ wpc = IF i = 0 THEN "clear0" ELSE "clear1"
    /\ group_key' = [group_key EXCEPT ![i] = NoKey]
    /\ key_free({wkey})
    /\ wkey' = IF i = 0 THEN group_key[1] ELSE NoKey
    /\ wpc' = IF i = 0 THEN "clear1" ELSE "sta"
    /\ UNCHANGED <<state, lpc, connect_bss, enc_sta, sta_key, listed, def_key,
                   type, tx_seq, tx, stale, keyed, hist>>

bss_free_sta ==
    /\ wpc = "sta"
    /\ sta_del /\ wpc' = "idle"
    /\ UNCHANGED <<state, lpc, connect_bss, enc_sta, sta_key, group_key, def_key,
                   type, tx_seq, tx, wkey, stale, keyed, hist>>

\* A station event of the firmware names the station of the bss:
\* c2h_add_sta_event with its id, or c2h_del_sta_event in an IBSS.
sta_event ==
    /\ listed /\ sta_del
    /\ UNCHANGED <<state, lpc, connect_bss, enc_sta, sta_key, group_key, def_key,
                   type, tx_seq, tx, tail, stale, keyed, hist>>

-----------------------------------------------------------------------------
(* r92su_tx.                                                               *)

Goto(q, label) == pc' = [pc EXCEPT ![q] = label]

\* The call ends, with the frame handed to r92su_usb_tx or dropped, and so
\* does its RCU section.
Leave(q) ==
    /\ Goto(q, "idle")
    /\ key' = [key EXCEPT ![q] = NoKey] /\ pn' = [pn EXCEPT ![q] = 0]
    /\ grace' = [k \in Key |-> grace[k] \ {q}]
    /\ stale' = stale \ {q} /\ keyed' = keyed \ {q}

\* r92su_start_xmit and the test of the state, before the RCU section; a frame
\* that comes while not connected is dropped at once.
xmit(q) ==
    /\ pc[q] = "idle" /\ state = "CONNECTED"
    /\ \A k \in Key : Cardinality(used[k]) < MaxPn
    /\ Goto(q, "lock")
    /\ UNCHANGED <<state, lpc, bss, keys, key, pn, tail, stale, keyed, hist>>

\* rcu_read_lock, connect_bss, and the handlers before r92su_tx_select_key:
\* the frame is dropped if the device is not connected any more or one of them
\* fails.  What r92su_tx_add_80211 asks for, a block ack session, is left out.
enter(q) ==
    /\ pc[q] = "lock"
    /\ \/ /\ connect_bss
          /\ Goto(q, "own")
          /\ stale' = IF listed THEN stale ELSE stale \cup {q}
          /\ UNCHANGED <<key, pn, grace, keyed>>
       \/ Leave(q)
    /\ UNCHANGED <<state, lpc, bss, type, tx_seq, life, tail, hist>>

\* r92su_tx_select_key reads up to three pointers, one after the other: the
\* default group key for a multicast (a unicast goes to no station of its own), ...
Take(q, k, otherwise) ==
    /\ key' = [key EXCEPT ![q] = k]
    /\ Goto(q, IF k # NoKey THEN "iv" ELSE otherwise)

select_own(q) ==
    /\ pc[q] = "own"
    /\ \/ /\ enc_sta = "NONE" /\ Take(q, NoKey, "desc") /\ UNCHANGED keyed
       \/ /\ enc_sta # "NONE"
          /\ \E k \in {group_key[def_key], NoKey} : Take(q, k, "ap")
          /\ keyed' = IF sta_key # NoKey /\ q \notin stale THEN keyed \cup {q} ELSE keyed
    /\ UNCHANGED <<state, lpc, bss, keys, pn, tail, stale, hist>>

\* ... the pairwise key of the access point, which a station that is on its way
\* to kfree may have lost already, ...
select_ap(q) ==
    /\ pc[q] = "ap"
    /\ Take(q, sta_key, "uni") \/ (q \in stale /\ Take(q, NoKey, "uni"))
    /\ UNCHANGED <<state, lpc, bss, keys, pn, tail, stale, keyed, hist>>

\* ... the default unicast key.  Without any, a frame of the control port
\* protocol is sent in the clear and any other is dropped.
select_uni(q) ==
    /\ pc[q] = "uni"
    /\ \/ /\ Take(q, group_key[def_key], "desc")
          /\ UNCHANGED <<pn, grace, stale, keyed>>
       \/ /\ group_key[def_key] = NoKey
          /\ Leave(q)
    /\ UNCHANGED <<state, lpc, bss, type, tx_seq, life, tail, hist>>

\* r92su_tx_fragment keeps a frame of this size whole and r92su_tx_add_icv_mic
\* uses the key; r92su_tx_add_iv reads its counter into the IV ...
add_iv(q) ==
    LET k == key[q]
        n == IF type[k] = "WEP" THEN Filter(tx_seq[k]) ELSE tx_seq[k]
    IN  /\ pc[q] = "iv" /\ life[k] # "freed"
        /\ tx_seq' = [tx_seq EXCEPT ![k] = n]
        /\ pn' = [pn EXCEPT ![q] = n]
        /\ used' = [used EXCEPT ![k] = @ \cup {n}]
        /\ reused' = IF n \in used[k] THEN reused \cup {k} ELSE reused
        /\ raced' = IF \E p \in Queue : pc[p] = "count" /\ key[p] = k
                    THEN raced \cup {k} ELSE raced
        /\ Goto(q, "count")
        /\ UNCHANGED <<state, lpc, bss, type, life, grace, key, tail, stale, keyed>>

\* Mutant: the WEP counter is not incremented.
MutWepNotCounted(q) ==
    LET k == key[q]
    IN  /\ pc[q] = "count" /\ life[k] # "freed"
        /\ tx_seq' = IF type[k] = "WEP" THEN tx_seq
                     ELSE [tx_seq EXCEPT ![k] = Next1(type[k], @)]
        /\ Goto(q, "desc")
        /\ UNCHANGED <<state, lpc, bss, type, life, grace, key, pn, tail, stale,
                       keyed, hist>>

\* ... and increments it: what was loaded for the IV, or what is there now.
increment(q) ==
    LET k == key[q]
    IN  /\ pc[q] = "count" /\ life[k] # "freed"
        /\ \E n \in {pn[q], tx_seq[k]} :
               tx_seq' = [tx_seq EXCEPT ![k] = Next1(type[k], n)]
        /\ Goto(q, "desc")
        /\ UNCHANGED <<state, lpc, bss, type, life, grace, key, pn, tail, stale,
                       keyed, hist>>

\* A stale queue whose key is freed: what it does to the memory is not done to
\* a key.
use_freed(q) ==
    /\ pc[q] \in {"iv", "count"} /\ life[key[q]] = "freed"
    /\ Goto(q, "desc")
    /\ UNCHANGED <<state, lpc, bss, keys, key, pn, tail, stale, keyed, hist>>

\* r92su_tx_fill_desc, r92su_tx_invalidate_rcu_data, r92su_usb_tx
fill_desc(q) ==
    /\ pc[q] = "desc"
    /\ Leave(q)
    /\ UNCHANGED <<state, lpc, bss, type, tx_seq, life, tail, hist>>

-----------------------------------------------------------------------------

Transmit(q) ==
    \/ xmit(q) \/ enter(q)
    \/ select_own(q) \/ select_ap(q) \/ select_uni(q)
    \/ add_iv(q) \/ increment(q) \/ use_freed(q) \/ fill_desc(q)

Configure ==
    \/ \E k \in Key : add_sta_key(k) \/ \E i \in Idx : add_group_key(k, i)
    \/ del_sta_key
    \/ \E i \in Idx : del_group_key(i) \/ set_default_key(i)
    \/ disconnect \/ unpublish \/ release
    \/ connect \/ publish
    \/ \E enc \in Cipher \cup {"NONE"} : install(enc)

Unlocked ==
    \/ join_failed \/ bss_free_sta
    \/ \E i \in Idx : bss_free_key(i)
    \/ sta_event

Next ==
    \/ \E q \in Queue : Transmit(q)
    \/ Configure
    \/ Unlocked
    \/ \E k \in Key : rcu_free(k)

Spec == Init /\ [][Next]_vars

-----------------------------------------------------------------------------
(* Properties                                                              *)

\* No queue uses a freed key, although keys are replaced and removed, and the
\* connection with all its keys is replaced or torn down, in the middle of its
\* frame - unless it came in when the station its bss names had left the list
\* and gone to call_rcu already.
KeyAlive ==
    TypeOK /\ \A q \in Queue \ stale : key[q] # NoKey => life[key[q]] # "freed"

\* While the pairwise key is there - even if it is being replaced - no frame of
\* an encrypted connection fails to find a key: none is dropped for the lack
\* of one or leaves in the clear because of a rekeying.
KeyedFindsKey ==
    \A q \in keyed : pc[q] # "uni" /\ (pc[q] \in {"iv", "count", "desc"} => key[q] # NoKey)

\* The frames of a key carry different packet numbers and no WEP frame a weak
\* one, unless two queues were in r92su_tx_add_iv with that key at once.
PnUnique ==
    /\ reused \subseteq raced
    /\ \A k \in Key : type[k] = "WEP" => \A n \in used[k] : ~Weak(n)

\* What the receive path of this driver reads from an IV is the number the
\* transmit path has put in, in both formats and wherever in the counter the
\* digits of the number stand.
IvRoundTrip ==
    \A k \in Key, i \in 0 .. 4 : \A m \in used[k] :
        LET n == m * Weight(i)
        IN  rx_ccmp_seq(ccmp_iv(n)) = n % Weight(6) /\ rx_tkip_seq(tkip_iv(n)) = n % Weight(6)
=============================================================================
