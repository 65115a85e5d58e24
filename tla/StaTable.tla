------------------------------ MODULE StaTable ------------------------------
(***************************************************************************)
(* The station table of r92su (r92su/sta.c) and those who use it.  The     *)
(* list sta_list is written under sta_lock and read under RCU only: frames *)
(* (rx.c, tx.c) and events (event.c) look a station up, or take the one    *)
(* the connected bss points at (bss_priv->sta), and use it until they      *)
(* leave their RCU section; a removed station is freed by call_rcu.        *)
(*                                                                         *)
(* Three contexts change the table: whoever holds r92su->lock (user        *)
(* requests, connect_bss_work, disconnect_work), the tail of               *)
(* connect_bss_work that frees the bss of a failed join after it dropped   *)
(* the lock, and the firmware events in the USB callback.  What a context  *)
(* still has to do is its program, a sequence of operations; r92su_sta_del *)
(* takes three steps: lookup, unlink, call_rcu.                            *)
(*                                                                         *)
(* A station event names any aid, also one that the holder of the lock     *)
(* works on, and a join may complete, or fail, while a connection stands:  *)
(* the removal of a station is then somebody else's business as well.      *)
(* What such meetings do is kept in the history variables raced, lost and  *)
(* late, and the properties say what holds all the same.                   *)
(*                                                                         *)
(* A freed station may be allocated again once nothing points at it, so    *)
(* that a dangling pointer always names a free object.                     *)
(***************************************************************************)
EXTENDS Integers, Sequences, SequencesExt, FiniteSetsExt

CONSTANTS
    Sta,      \* station objects
    Bss,      \* cfg80211's bss entries
    NoSta, NoBss,   \* NULL
    Reader,   \* RCU readers: the rx tasklet, the reorder timers, event handlers
    MaxOff,   \* bound: how often a station that is not linked is unlinked
    MaxSta,   \* MAX_STA: r92su_stop sweeps the mac ids below it
    BssId,    \* BSS_MACID
    Peer      \* the aids the firmware reports in its station events: any

ASSUME StaTableAssumption ==
    /\ NoSta \notin Sta /\ NoBss \notin Bss
    /\ MaxOff \in Nat /\ MaxSta \in Nat /\ BssId \in 0 .. MaxSta - 1
    /\ Peer \subseteq Nat /\ Reader \cap {"lock", "tail", "event"} = {}

VARIABLES
    state,        \* r92su->state
    want,         \* want_connect_bss
    connect_bss,
    bss_sta,      \* [Bss -> bss_priv->sta]
    sta_list, sta_num,
    mac_id,       \* [Sta -> sta->mac_id]
    life,         \* [Sta -> the stage of its life]
    grace,        \* [Sta -> the RCU sections its call_rcu still waits for]
    prog,         \* [Ctx -> operations to do, the current one first]
    new,          \* [Ctx -> the station kzalloc gave]
    found,        \* [Ctx -> the station r92su_sta_del looked up]
    rcu,          \* [Reader -> where the reader is]
    seen,         \* [Reader -> the connect_bss the reader has read]
    held,         \* [Reader -> the station the reader uses]
    sync,         \* the RCU sections synchronize_rcu still waits for
    down,         \* r92su_stop has returned
    raced,        \* two contexts have met on one mac id (history)
    lost,         \* [Sta -> who took it from its connection] (history)
    late          \* stations a station event was too late with for r92su_stop (history)

bss    == <<want, connect_bss, bss_sta>>
table  == <<sta_list, sta_num, mac_id, life>>
ctl    == <<prog, new, found>>
reader == <<rcu, seen, held>>
hist   == <<raced, lost, late>>
vars   == <<state, bss, table, grace, ctl, reader, sync, down, hist>>

Ctx    == {"lock", "tail", "event"}
State  == {"DEAD", "STOP", "OPEN", "CONNECTED"}
IsOpen == state \in {"OPEN", "CONNECTED"}
Ids    == 0 .. MaxSta - 1 \cup Peer

\* A station is free, allocated but not yet listed, listed, unlinked, or
\* waiting for its grace period.
Life  == {"free", "new", "listed", "unlinked", "dying"}
RcuPC == {"out", "in", "connected", "bss", "use", "bss_use", "timer_use"}

Del(i)       == [op |-> "del", id |-> i]
Set(s)       == [op |-> "set", to |-> s]
Do(name)     == [op |-> name]
Busy(c)      == prog[c] # <<>>
Doing(c, name) == Busy(c) /\ Head(prog[c]).op = name
Arg(c)       == Head(prog[c]).id
Start(c, p)  == prog' = [prog EXCEPT ![c] = p]
Done(c)      == prog' = [prog EXCEPT ![c] = Tail(@)]
Then(c, p)   == prog' = [prog EXCEPT ![c] = p \o Tail(@)]
When(b, p)   == IF b THEN p ELSE <<>>

\* Everyone who is inside an RCU section: readers, and contexts between the
\* lookup and the end of r92su_sta_del.
Inside == {r \in Reader : rcu[r] # "out"} \cup {c \in Ctx : found[c] # NoSta}

Init ==
    /\ state = "STOP" /\ down = TRUE
    /\ want = NoBss /\ connect_bss = NoBss /\ bss_sta = [b \in Bss |-> NoSta]
    /\ sta_list = <<>> /\ sta_num = 0
    /\ mac_id = [s \in Sta |-> 0]
    /\ life = [s \in Sta |-> "free"]
    /\ grace = [s \in Sta |-> {}]
    /\ prog = [c \in Ctx |-> <<>>]
    /\ new = [c \in Ctx |-> NoSta] /\ found = [c \in Ctx |-> NoSta]
    /\ rcu = [r \in Reader |-> "out"]
    /\ seen = [r \in Reader |-> NoBss] /\ held = [r \in Reader |-> NoSta]
    /\ sync = {}
    /\ raced = FALSE /\ lost = [s \in Sta |-> "nobody"] /\ late = {}

----------------------------------------------------------------------------
(* r92su_sta_del *)

Matches(i) == {n \in DOMAIN sta_list : mac_id[sta_list[n]] = i}

\* r92su_sta_get_by_macid, inside the RCU section but outside sta_lock.  Nothing
\* keeps a second context from finding the station that another one is removing.
del_lookup(c) ==
    /\ Doing(c, "del")
    /\ \/ /\ Matches(Arg(c)) = {}
          /\ Done(c)
          /\ UNCHANGED <<found, raced>>
       \/ /\ Matches(Arg(c)) # {}
          /\ found' = [found EXCEPT ![c] = sta_list[Min(Matches(Arg(c)))]]
          /\ raced' = (raced \/ \E d \in Ctx : found[d] = found'[c])
          /\ Then(c, <<Do("unlink"), Do("call_rcu")>>)
    /\ UNCHANGED <<state, bss, table, grace, new, reader, sync, down, lost, late>>

\* list_del_rcu.  For a station that is not linked any more this is what
\* CONFIG_DEBUG_LIST makes of it; without that, the kernel oopses.
Unlinked(s) ==
    IF Contains(sta_list, s)
    THEN RemoveAt(sta_list, CHOOSE n \in 1 .. Len(sta_list) : sta_list[n] = s)
    ELSE sta_list

\* Context c takes the station of a connection away for other reasons than a
\* disconnect or a stop: it is replaced in r92su_sta_alloc, or the join failed,
\* or the firmware says so.
Displaces(c, s) ==
    /\ c # "lock" \/ new[c] # NoSta
    /\ new["lock"] = s \/ \E b \in Bss : bss_sta[b] = s

\* list_del_rcu and sta_num-- under sta_lock.  Whether the station is still
\* linked is not looked at again.
del_unlink(c) ==
    LET s == found[c] IN
    /\ Doing(c, "unlink")
    /\ life[s] = "listed" \/ sta_num + MaxOff > Len(sta_list)
    /\ sta_list' = Unlinked(s)
    /\ sta_num' = sta_num - 1
    /\ life' = [life EXCEPT ![s] = IF @ = "listed" THEN "unlinked" ELSE @]
    /\ lost' = IF life[s] = "listed" /\ Displaces(c, s) THEN [lost EXCEPT ![s] = c] ELSE lost
    /\ Done(c)
    /\ UNCHANGED <<state, bss, mac_id, grace, new, found, reader, sync, down, raced, late>>

\* r92su_stop does not come to mac id i any more, or to synchronize_rcu.
Swept(i) ==
    down \/ (Do("return") \in ToSet(prog["lock"]) /\ Del(i) \notin ToSet(prog["lock"]))
Synced   == down \/ Doing("lock", "return")

\* call_rcu(r92su_free_sta_rcu) and rcu_read_unlock.
del_call_rcu(c) ==
    /\ Doing(c, "call_rcu")
    /\ life' = [life EXCEPT ![found[c]] = "dying"]
    /\ found' = [found EXCEPT ![c] = NoSta]
    /\ grace' = [s \in Sta |-> IF s = found[c] THEN Inside \ {c} ELSE grace[s] \ {c}]
    /\ sync' = sync \ {c}
    /\ late' = IF c = "event" /\ Synced THEN late \cup {found[c]} ELSE late
    /\ Done(c)
    /\ UNCHANGED <<state, bss, sta_list, sta_num, mac_id, new, reader, down, raced, lost>>

\* Somebody has a pointer to the station.
Named(s) == \/ \E b \in Bss : bss_sta[b] = s
            \/ \E c \in Ctx : new[c] = s
            \/ \E r \in Reader : held[r] = s

\* After the grace period: the fragments, sessions and key of the station go,
\* and the station with them.
free_sta_rcu(s) ==
    /\ life[s] = "dying" /\ grace[s] = {}
    /\ life' = [life EXCEPT ![s] = "free"] /\ mac_id' = [mac_id EXCEPT ![s] = 0]
    /\ lost' = IF Named(s) THEN lost ELSE [lost EXCEPT ![s] = "nobody"]
    /\ late' = late \ {s}
    /\ UNCHANGED <<state, bss, sta_list, sta_num, grace, ctl, reader, sync, down, raced>>

----------------------------------------------------------------------------
(* r92su_sta_alloc *)

\* kzalloc; some other context is about to list a station under the same mac id.
Fresh(c, s, i) ==
    /\ life[s] = "free" /\ ~Named(s)
    /\ life' = [life EXCEPT ![s] = "new"]
    /\ mac_id' = [mac_id EXCEPT ![s] = i]
    /\ new' = [new EXCEPT ![c] = s]
    /\ raced' = (raced \/ \E d \in Ctx \ {c} :
                    new[d] # NoSta /\ life[new[d]] = "new" /\ mac_id[new[d]] = i)
    /\ lost' = [lost EXCEPT ![s] = "nobody"]

\* Mutant: the old station is not removed.
MutAllocKeepsOld(c, s, i, rest) == Fresh(c, s, i) /\ Start(c, <<Do("add")>> \o rest)

\* kzalloc, then "Remove the old station", then the list_add_rcu of sta_add.
Alloc(c, s, i, rest) == Fresh(c, s, i) /\ Start(c, <<Del(i), Do("add")>> \o rest)

\* list_add_rcu and sta_num++ under sta_lock; whoever has nothing more to do
\* forgets the station.
sta_add(c) ==
    LET s == new[c] IN
    /\ Doing(c, "add")
    /\ sta_list' = <<s>> \o sta_list
    /\ sta_num' = sta_num + 1
    /\ life' = [life EXCEPT ![s] = "listed"]
    /\ new' = [new EXCEPT ![c] = IF Len(prog[c]) = 1 THEN NoSta ELSE @]
    /\ late' = IF c = "event" /\ Swept(mac_id[s]) THEN late \cup {s} ELSE late
    /\ Done(c)
    /\ UNCHANGED <<state, bss, mac_id, grace, found, reader, sync, down, raced, lost>>

----------------------------------------------------------------------------
(* Connecting and disconnecting, under r92su->lock *)

Idle(c) == prog[c] = <<>>

\* r92su_connect, r92su_join_ibss: all they ask is that the device is open, so a
\* connection may stand, and an error takes the last request back.
connect(b) ==
    /\ Idle("lock") /\ IsOpen
    /\ want' = b
    /\ UNCHANGED <<state, connect_bss, bss_sta, table, grace, ctl, reader, sync, down, hist>>

\* r92su_bss_connect_work: the join succeeded and there is memory.  The station
\* of a connection that stands is replaced while connect_bss names it.
connect_work(s) ==
    /\ Idle("lock") /\ Idle("tail") /\ IsOpen /\ want # NoBss
    /\ Alloc("lock", s, BssId, <<Do("publish"), Set("CONNECTED")>>)
    /\ UNCHANGED <<state, bss, sta_list, sta_num, grace, found, reader, sync, down, late>>

\* ... it did not: the lock is dropped and the bss is freed all the same, with
\* the station of whatever connection stands by then.
connect_work_failed ==
    /\ Idle("lock") /\ Idle("tail") /\ IsOpen /\ want # NoBss
    /\ Start("tail", <<Del(BssId)>>)
    /\ UNCHANGED <<state, bss, table, grace, new, found, reader, sync, down, hist>>

\* bss_priv->sta, connect_bss and want_connect_bss.
publish ==
    /\ Doing("lock", "publish")
    /\ bss_sta' = [bss_sta EXCEPT ![want] = new["lock"]]
    /\ connect_bss' = want /\ want' = NoBss
    /\ new' = [new EXCEPT !["lock"] = NoSta]
    /\ Done("lock")
    /\ UNCHANGED <<state, table, grace, found, reader, sync, down, hist>>

\* r92su_set_state, some time after the check that led to it.
set_state ==
    /\ Doing("lock", "set")
    /\ state' = Head(prog["lock"]).to
    /\ down' = (down /\ state' # "OPEN")
    /\ late' = IF down /\ ~down' THEN {} ELSE late
    /\ Done("lock")
    /\ UNCHANGED <<bss, table, grace, new, found, reader, sync, raced, lost>>

\* r92su_disconnect, r92su_disconnect_work: r92su_bss_free_connected.
disconnect ==
    /\ Idle("lock")
    /\ Start("lock", <<Do("free_connected")>>)
    /\ UNCHANGED <<state, bss, table, grace, new, found, reader, sync, down, hist>>

\* Mutant: the station is removed before the connection is taken down.
MutDelFirst ==
    /\ Doing("lock", "free_connected")
    /\ Then("lock", When(connect_bss # NoBss, <<Del(BssId)>>)
                    \o When(state = "CONNECTED", <<Set("OPEN")>>) \o <<Do("unpublish")>>)
    /\ UNCHANGED <<state, bss, table, grace, new, found, reader, sync, down, hist>>

\* The state first, then connect_bss, then - in r92su_bss_free - the station.
free_connected ==
    /\ Doing("lock", "free_connected")
    /\ Then("lock", When(state = "CONNECTED", <<Set("OPEN")>>) \o <<Do("unpublish")>>)
    /\ UNCHANGED <<state, bss, table, grace, new, found, reader, sync, down, hist>>

unpublish ==
    /\ Doing("lock", "unpublish")
    /\ connect_bss' = NoBss
    /\ Then("lock", When(connect_bss # NoBss, <<Del(BssId)>>))
    /\ UNCHANGED <<state, want, bss_sta, table, grace, new, found, reader, sync, down, hist>>

----------------------------------------------------------------------------
(* r92su_open, r92su_stop *)

open ==
    /\ Idle("lock") /\ state = "STOP" /\ down
    /\ Start("lock", <<Set("OPEN")>>)
    /\ UNCHANGED <<state, bss, table, grace, new, found, reader, sync, down, hist>>

Sweep == [i \in 1 .. MaxSta |-> Del(i - 1)]

\* Mutant: r92su_stop does not synchronize.
MutStopNoSync ==
    /\ Idle("lock") /\ ~down
    /\ Start("lock", When(state = "CONNECTED", <<Do("free_connected")>>)
                     \o <<Do("stop_state"), Do("stop_want")>>
                     \o Sweep \o <<Do("return")>>)
    /\ UNCHANGED <<state, bss, table, grace, new, found, reader, sync, down, hist>>

stop ==
    /\ Idle("lock") /\ ~down
    /\ Start("lock", When(state = "CONNECTED", <<Do("free_connected")>>)
                     \o <<Do("stop_state"), Do("stop_want")>>
                     \o Sweep \o <<Do("sync"), Do("return")>>)
    /\ UNCHANGED <<state, bss, table, grace, new, found, reader, sync, down, hist>>

stop_state ==
    /\ Doing("lock", "stop_state")
    /\ Then("lock", When(IsOpen, <<Set("STOP")>>))
    /\ UNCHANGED <<state, bss, table, grace, new, found, reader, sync, down, hist>>

stop_want ==
    /\ Doing("lock", "stop_want")
    /\ want' = NoBss
    /\ Then("lock", When(want # NoBss, <<Del(BssId)>>))
    /\ UNCHANGED <<state, connect_bss, bss_sta, table, grace, new, found, reader, sync, down, hist>>

\* cancel_work_sync waits for the tail of connect_bss_work, and synchronize_rcu
\* for the RCU sections that are open now ...
synchronize_rcu ==
    /\ Doing("lock", "sync") /\ Idle("tail")
    /\ sync' = Inside
    /\ Done("lock")
    /\ UNCHANGED <<state, bss, table, grace, new, found, reader, down, hist>>

\* ... not for the callbacks of call_rcu.
stop_return ==
    /\ Doing("lock", "return") /\ sync = {}
    /\ down' = TRUE
    /\ Done("lock")
    /\ UNCHANGED <<state, bss, table, grace, new, found, reader, sync, hist>>

\* r92su_mark_dead, from whatever context notices.
mark_dead ==
    /\ state # "DEAD"
    /\ state' = "DEAD"
    /\ UNCHANGED <<bss, table, grace, ctl, reader, sync, down, hist>>

----------------------------------------------------------------------------
(* Station events of the firmware *)

\* In whatever state the device is, and whoever has that mac id.
c2h_add_sta_event(s, p) ==
    /\ Idle("event")
    /\ Alloc("event", s, p, <<>>)
    /\ UNCHANGED <<state, bss, sta_list, sta_num, grace, found, reader, sync, down, late>>

\* In an IBSS, where the event names a listed station by its address; in managed
\* mode it queues disconnect_work instead.
c2h_del_sta_event(i) ==
    /\ Idle("event") /\ Matches(i) # {}
    /\ Start("event", <<Del(i)>>)
    /\ UNCHANGED <<state, bss, table, grace, new, found, reader, sync, down, hist>>

----------------------------------------------------------------------------
(* Readers: rcu_read_lock ... rcu_read_unlock *)

Goto(r, l) == rcu' = [rcu EXCEPT ![r] = l]
Hold(r, s) == held' = [held EXCEPT ![r] = s]
See(r, b)  == seen' = [seen EXCEPT ![r] = b]

read_lock(r) ==
    /\ rcu[r] = "out"
    /\ Goto(r, "in")
    /\ UNCHANGED <<state, bss, table, grace, ctl, seen, held, sync, down, hist>>

\* Mutant: the state is not checked.
MutReadUnchecked(r) ==
    /\ rcu[r] = "in"
    /\ Goto(r, "connected")
    /\ UNCHANGED <<state, bss, table, grace, ctl, seen, held, sync, down, hist>>

\* r92su_is_connected, checked inside the section ...
read_state(r) ==
    /\ rcu[r] = "in" /\ state = "CONNECTED"
    /\ Goto(r, "connected")
    /\ UNCHANGED <<state, bss, table, grace, ctl, seen, held, sync, down, hist>>

\* ... then rcu_dereference(connect_bss) ...
read_bss(r) ==
    /\ rcu[r] = "connected" /\ connect_bss # NoBss
    /\ See(r, connect_bss)
    /\ Goto(r, "bss")
    /\ UNCHANGED <<state, bss, table, grace, ctl, held, sync, down, hist>>

\* ... and r92su_rx_find_sta: a station of the list, ...
read_find(r) ==
    /\ rcu[r] = "bss"
    /\ \E n \in DOMAIN sta_list : Hold(r, sta_list[n])
    /\ See(r, NoBss)
    /\ Goto(r, "use")
    /\ UNCHANGED <<state, bss, table, grace, ctl, sync, down, hist>>

\* ... or else bss_priv->sta.
read_bss_sta(r) ==
    /\ rcu[r] = "bss"
    /\ Hold(r, bss_sta[seen[r]])
    /\ See(r, NoBss)
    /\ Goto(r, "bss_use")
    /\ UNCHANGED <<state, bss, table, grace, ctl, sync, down, hist>>

\* c2h_addba_report_event and others look in the list only.
read_list(r) ==
    /\ rcu[r] = "in"
    /\ \E n \in DOMAIN sta_list : Hold(r, sta_list[n])
    /\ Goto(r, "use")
    /\ UNCHANGED <<state, bss, table, grace, ctl, seen, sync, down, hist>>

\* r92su_reorder_tid_timer: a session names its station until the station's RCU
\* callback cuts it off, also when the station has left the list, and the frames
\* the timer hands to r92su_rx_handler keep it in rx_info->sta.  tid->sta, the
\* state and connect_bss are read in one step.
reorder_tid_timer(r) ==
    /\ rcu[r] = "in" /\ state = "CONNECTED" /\ connect_bss # NoBss
    /\ \E s \in Sta : life[s] \in {"listed", "unlinked", "dying"} /\ Hold(r, s)
    /\ Goto(r, "timer_use")
    /\ UNCHANGED <<state, bss, table, grace, ctl, seen, sync, down, hist>>

read_unlock(r) ==
    /\ rcu[r] # "out"
    /\ Goto(r, "out") /\ See(r, NoBss) /\ Hold(r, NoSta)
    /\ grace' = [s \in Sta |-> grace[s] \ {r}]
    /\ sync' = sync \ {r}
    /\ UNCHANGED <<state, bss, table, ctl, down, hist>>

----------------------------------------------------------------------------

sta_del(c) == del_lookup(c) \/ del_unlink(c) \/ del_call_rcu(c)
Work(c) == sta_del(c) \/ sta_add(c)
LockWork ==
    \/ publish \/ set_state \/ free_connected \/ unpublish
    \/ stop_state \/ stop_want \/ synchronize_rcu \/ stop_return

Read(r) ==
    \/ read_lock(r) \/ read_state(r) \/ read_bss(r) \/ read_find(r) \/ read_bss_sta(r)
    \/ read_list(r) \/ reorder_tid_timer(r) \/ read_unlock(r)

Next ==
    \/ \E c \in Ctx : Work(c)
    \/ LockWork
    \/ (\E b \in Bss \cup {NoBss} : connect(b))
    \/ (\E s \in Sta : connect_work(s)) \/ connect_work_failed
    \/ disconnect \/ open \/ stop \/ mark_dead
    \/ (\E p \in Peer, s \in Sta : c2h_add_sta_event(s, p))
    \/ (\E i \in Ids : c2h_del_sta_event(i))
    \/ \E s \in Sta : free_sta_rcu(s)
    \/ \E r \in Reader : Read(r)

Spec == Init /\ [][Next]_vars

----------------------------------------------------------------------------
(* Properties *)

Ops == {Del(i) : i \in Ids} \cup {Set(s) : s \in State}
       \cup {Do(o) : o \in {"unlink", "call_rcu", "add", "publish", "free_connected",
                            "unpublish", "stop_state", "stop_want", "sync", "return"}}

\* The station table holds stations under mac ids the driver or the firmware
\* gave out, and every context runs only operations of sta.c and main.c.
TypeOK ==
    /\ state \in State /\ down \in BOOLEAN
    /\ want \in Bss \cup {NoBss} /\ connect_bss \in Bss \cup {NoBss}
    /\ bss_sta \in [Bss -> Sta \cup {NoSta}]
    /\ sta_list \in Seq(Sta) /\ sta_num \in Int
    /\ mac_id \in [Sta -> Ids] /\ life \in [Sta -> Life]
    /\ grace \in [Sta -> SUBSET (Reader \cup Ctx)] /\ sync \subseteq Reader \cup Ctx
    /\ prog \in [Ctx -> Seq(Ops)]
    /\ new \in [Ctx -> Sta \cup {NoSta}] /\ found \in [Ctx -> Sta \cup {NoSta}]
    /\ rcu \in [Reader -> RcuPC] /\ seen \in [Reader -> Bss \cup {NoBss}]
    /\ held \in [Reader -> Sta \cup {NoSta}]
    /\ raced \in BOOLEAN /\ lost \in [Sta -> Ctx \cup {"nobody"}] /\ late \subseteq Sta

\* Until two contexts look up the same station for removal, or allocate one
\* under the same mac id, at the same time, the table is what its writers
\* believe: nobody unlinks a station that is not linked any more, the list holds
\* each listed station once, at most one per mac id, and sta_num is its length.
TableExact ==
    /\ TypeOK
    /\ ~raced =>
        /\ \A c \in Ctx : Doing(c, "unlink") => life[found[c]] = "listed"
        /\ sta_num = Len(sta_list)
        /\ {sta_list[n] : n \in DOMAIN sta_list} = {s \in Sta : life[s] = "listed"}
        /\ \A m, n \in DOMAIN sta_list : mac_id[sta_list[m]] = mac_id[sta_list[n]] => m = n

\* Nobody who has a station from the list, and no writer, uses it after it has
\* been freed.  Who has it from bss_priv->sta does only if the station of the
\* connection was not removed by its disconnect or a stop, but replaced by
\* another join, given up with a failed one, or taken by a station event -
\* although bss_priv->sta is never reset and a dead device keeps its connect_bss.
NoFreedInUse ==
    /\ \A r \in Reader : rcu[r] = "use" => held[r] # NoSta /\ life[held[r]] # "free"
    /\ \A r \in Reader : rcu[r] = "bss_use" =>
          held[r] # NoSta /\ (life[held[r]] = "free" => lost[held[r]] # "nobody")
    /\ \A c \in Ctx : found[c] # NoSta => life[found[c]] # "free"

\* As long as the connection stands, the station its bss points at is the listed
\* one with BSS_MACID, unless a failed join or a station event took it, or
\* connect_bss_work is just replacing it.
ConnectedStaListed ==
    state = "CONNECTED" =>
        /\ connect_bss # NoBss
        /\ LET s == bss_sta[connect_bss]
           IN  \/ life[s] = "listed" /\ mac_id[s] = BssId
               \/ lost[s] \in {"tail", "event"}
               \/ lost[s] = "lock" /\ new["lock"] # NoSta

\* When r92su_stop has returned, no station that it sweeps is listed or in
\* anybody's hands, and at most its RCU callback is outstanding - but for those
\* that a station event added when r92su_stop had passed their mac id, or let
\* go when r92su_stop had begun to wait.
StopQuiet ==
    down /\ ~raced => \A s \in Sta :
        life[s] # "free" /\ mac_id[s] < MaxSta =>
            \/ life[s] = "dying" /\ grace[s] = {}
            \/ s \in late \/ s = new["event"]

\* main.c: "The station data itself is protected by RCU."  Then the frames a
\* release timer takes out of the reorder buffer would name a live station.
TimerUsesLiveStation ==
    \A r \in Reader : rcu[r] = "timer_use" => life[held[r]] # "free"
=============================================================================
