# Verification of the r92su driver

The repository holds four standalone Wi-Fi driver trees. Three of them
(`rt5572`, `rtl8188eu`, `rtl8192cu`) are vendor drivers imported as a whole;
`rtl8192su` carries a copy of the kernel's rtlwifi, the kernel's staging driver,
the vendor driver, and one driver that is the repository's own:
`src/rtl8192su/r92su/`, a cfg80211 driver for Realtek's RTL8188SU/8191SU/8192SU
USB adapters. This project models r92su. The other trees are listed in
`PROJECT.json` as not modelled.

File names below are relative to `src/rtl8192su/r92su/`.

## 1. Inventory

r92su talks to a firmware that does the 802.11 state machines. The driver hands
it commands (h2c) and frames through bulk-out URBs, and gets events (c2h) and
frames through bulk-in URBs.

| component | state | operations | correct when |
|---|---|---|---|
| USB transmit path (`usb.c`) | anchors `tx_wait`, `tx_submitted`; counter `tx_pending_urbs` | `r92su_usb_tx`, `r92su_tx_schedule`, `r92su_tx_usb_cb`, disconnect | each skb is sent or dropped and freed once; the limit holds; nothing waits forever; nothing runs after the free |
| A-MPDU reorder buffer (`rx.c`, `sta.c`) | per station and TID: `head_seq`, `ssn`, `reorder_buf`, `reorder_time`, timer | receive, timer, new session | frames leave in order and once; none is stuck behind a gap |
| Site surveys (`main.c`, `event.c`) | `scan_request`, `scanned`, `scan_done`, `survey_done_work`, `service_work` | scan, connect's scan, survey-done event, the works, stop | each request is answered once; nobody waits forever; stop leaves nothing running |
| Station table (`sta.c`) | `sta_list`, `sta_num`, stations under RCU, `bss_priv->sta` | alloc, delete, lookups, sweep of stop | the table is exact; no user of a station sees it freed |
| Connection (`main.c`, `event.c`) | `want_connect_bss`, `connect_bss`, `connect_result`, `assoc_ie` | connect, join event, connect work, disconnect | one owner per reference; a connect ends |
| Device state (`r92su.h`) | `DEAD .. CONNECTED` | probe, open, stop, death, unload | no path trusts a state that has changed |
| Commands and events (`cmd.c`, `event.c`) | `h2c_seq`, `c2h_seq` | one per command or event | sequence numbers are the firmware's |
| RX URBs and parsing (`usb.c`, `rx.c`) | `rx_submitted`, `rx_queue` | callback, resubmission, split | every packet of a buffer is seen; no URB outlives the device |
| Receive crypto, defragmentation (`rx.c`, `michael.c`) | per station fragments, key counters | one handler each | only fragments of one frame are joined; no packet number is accepted twice |
| Transmit preparation (`tx.c`) | key counters, `addba_issued`, `agg_queue` | handler chain | no packet number is used twice |
| Keys (`sta.c`, `main.c`) | `sta_key`, `group_key` under RCU | add, delete, default | replaced keys are freed after their users |
| Firmware, EEPROM, registers (`fw.c`, `eeprom.c`, `hw.c`) | `fw`, `eeprom` | load, parse, upload | sequential |
| debugfs, trace, debug | none that matters | output | - |

Who runs what: user requests come with the RTNL held and take the mutex
`r92su->lock`; the works (`survey_done_work`, `service_work`,
`connect_bss_work`, `disconnect_work`, `add_bss_work`) run on one workqueue and
take the same mutex; URB callbacks run in interrupt context and take no lock -
firmware events are handled right there; received frames go to the rx tasklet;
reorder timers run in softirq context; stations and the connected bss are read
under RCU. The device may die (`r92su_mark_dead`) in any of these contexts and
without a lock, and the USB core may disconnect it at any time.

The hard behaviours follow from that: the lock-free scheduler of the transmit
path, two softirq contexts at one reorder buffer, one work item handled by
tasklet, work and stop, stations whose users outlive their removal, and state
checks that are stale when they are acted on. `PROJECT.json` lists them as
hazards, each at its line.

## 2. Modules

    TxPipe ............ what the transmit path promises
      ^ implemented by
    UsbTx ............. the transmit path of usb.c
      UsbTxProofs ..... its invariant, and that UsbTx implements TxPipe, proved
    ReorderWindow ..... one reorder buffer as data; what a release call does
      Reorder ......... tasklet, timer, sessions and reconnects around it
      ReorderLoop ..... the loops of the release functions, step by step
      ReorderProofs ... the invariants of both, proved
    Scan .............. surveys, their requests and their works
    StaTable .......... the station table, its writers and its RCU readers
    RxPath ............ a frame's way from the RX buffer to the network stack
    TxPath ............ a frame's way through r92su_tx, and the keys it uses
    Connect ........... joining and leaving a bss
    Lifecycle ......... probe, open, stop, disconnect and the RX URBs
      ScanProofs, StaTableProofs, RxPathProofs, TxPathProofs, ConnectProofs,
      LifecycleProofs . the invariant of each, proved
    MC* ............... instances for TLC

Definitions keep the names of the functions they model. Operators called `Mut...`
are deliberately wrong variants of the definition that follows them; no
specification uses them. Each property is confronted with one of them, to see
that the property can fail. The type invariant of a module is the first conjunct
of one of its invariants.

Modules meet in the code they share rather than through INSTANCE: the state of
the device, `connect_bss` and `r92su_stop` appear in each module with the steps that
matter there, and a module takes from the others only what their properties show
(RxPath what Reorder may release, TxPath what StaTable says of the bss station,
Connect what Scan says of the survey before a connect).

### UsbTx

An URB and its skb are one thing, named by the skb. Contexts that call
`r92su_usb_tx` (`Sender`) and contexts that run completion callbacks
(`Completer`) execute `r92su_tx_schedule` one shared access at a time: `inc`,
`get`, `anchor`, `submit`, `fail`, `dec`. The disconnect runs `unregister`,
the wait for running senders, the wait for the anchor, poisoning, draining,
freeing. `usb_submit_urb` may fail at any time; a failure or a bad completion
status marks the device dead.

Taken from the kernel's API, not from this source: `usb_poison_anchored_urbs`
returns only when the callbacks of the poisoned URBs have returned, and an URB
anchored later on the poisoned anchor is refused; unregistering the net device
and the wiphy waits for callers of the driver.

### ReorderWindow, Reorder, ReorderLoop

Frames carry an unwrapped number, the driver sees it modulo `Modulus`. The
transmitter of the model loses, repeats and reorders frames within `Back` and
`Ahead` of its newest one. Time is relative: `left[i]` is what remains until the
frame in slot `i` may be skipped to. `r92su_rx_data` in the tasklet and
`r92su_reorder_tid_timer` both release frames in one step (under `tid->lock`) and deliver
them in a later one (under `rx_path`), because the code drops the first lock
before it takes the second. The next connection begins when the last session's
readers are gone, and what a replaced session's timer still releases is ordered
before its replacement.

The release functions contain loops over a ring. Reorder uses their result
(`Advance`, `Released`, `StaReleaseTimer`: the frames of the places passed, by rank,
and the buffer without them); ReorderLoop executes them iteration
by iteration from every window, every pattern of expired slots and every head,
and shows that they end with that result. One of the loops is bounded by
`(index - 1) % tid->size`, which is -1 in C when the head is in slot 0; it ends
all the same. ReorderLoop calls the code's `tid` `session` and the timer it sets
`armed`, so that ReorderProofs can extend both modules.

`ReorderAssumption` bounds the transmitter: it retries within `Back` of its newest
frame and jumps at most `Ahead`, and both, with the window, fit into a half of the
sequence space - otherwise nobody could tell old from new. `2 * Ahead <= Half` came
out of the proof. `rx_seq_tid` is 0 in a new station (`sta.c`), so the first frame
counts as a repetition if its sequence number is 0: the duplicate check drops it and
the window does not hear of it. If the transmitter may then jump again by almost
half the space, the frame after it is behind the window (modulus 16, 2 slots,
`Ahead` 6 and `Start` 10 show it: `ReleasedInOrder` fails). For the driver the
condition is a jump of at most 1024.

### Scan

One caller at a time holds the RTNL (`upc`); the tasklet (`tpc`), the work
(`wpc`) and connection changes (`cpc`) run beside it. A work item is not queued,
waiting for its delay, or queued to run now. `r92su->lock` is free when nobody is in a
critical section of several steps. `OPEN` stands for open and connected.

### StaTable

A context's program is the sequence of operations it has still to do;
`r92su_sta_del` takes three steps (lookup, unlink under `sta_lock`, `call_rcu`).
Three contexts have one: the holder of `r92su->lock`, the end of
`connect_bss_work`, which frees the bss of a failed join after it dropped the
lock (`tail`), and the station events in the USB callback. Whoever is in an RCU
section when `call_rcu` or `synchronize_rcu` is called is waited for. A freed
station is allocated again only when nothing points at it, so that a dangling
pointer is recognised. Readers are the rx path, event handlers and release
timers; debugfs, `get_station` and `service_work` read under `r92su->lock` and
meet no other writer than the events and the tail.

The writers are as unguarded as the code. A connect, a join that completes and
one that fails ask only that the device is open, so each may come while a
connection stands: a join that the user abandoned can complete during the survey
of the next connect. `connect_work` then replaces the station that `connect_bss`
and `bss_priv->sta` still name until `publish`, and the tail of a failed join
removes it for good. A station event tests no state and takes its mac id from the
firmware's aid, which may be any, `BSS_MACID` and every id `r92su_stop` sweeps
included (`Peer`): it meets the holder of the lock anywhere. The properties are about
what the code achieves in spite of this, and history variables name the rest:

* `raced`: two contexts have looked up the same station for removal, or were both
  about to list one under the same mac id. From then on the table can be wrong:
  `r92su_sta_del` looks a station up before it takes `sta_lock` and does not look
  again, so both unlink it and decrement `sta_num`. The second `list_del_rcu` is
  what `CONFIG_DEBUG_LIST` makes of it (a warning, and the list is left alone);
  without it the kernel oopses and there is nothing more to model. `MaxOff` bounds
  how often this happens. A second `call_rcu` waits for whoever is inside by then.
* `lost`: who took a station from the connection that names it, other than its
  disconnect or a stop. Only readers of such a `bss_priv->sta` can see it freed.
* `late`: stations that an event listed when `r92su_stop` had passed their mac id,
  or passed to `call_rcu` when its `synchronize_rcu` had begun.

### RxPath

Three contexts: the USB callback splits a buffer packet by packet (`Parse`, `rx_*`),
the tasklet takes frames from `rx_queue`, and the release timer takes them from the
reorder buffer; the last two run `r92su_rx_handler` under `rx_path`. Its steps are
the lock, the lookup of the key (a key may be replaced right after it), all the
handlers from the packet number to the conversion, and the delivery of what came
out, frame by frame, before the lock is given back. Keys are numbered; `rx_pn` is
the receive counter of each, `key` what `sta_key` and `group_key[]` point at.

A frame is its sequence and fragment numbers, its packet number, whether it is
enciphered and, with TKIP, the key its MIC was computed with; lengths are left out.
The contents of a buffer are chosen when the driver looks at them. The reorder
buffer appears only by what it may do to a frame; here it may also let an old frame
through, which Reorder shows it does not. A frame that the hardware could not
decipher, or with a bad checksum, is one that `rx_data_drop` drops. The firmware
carries out key commands at some time, so the peer's frames may come with any key up
to the next one. One association is followed: the station is new when it begins and
is not used again after it.

What the code does and the model keeps, although it looks unintended: a data frame met
while not connected is met again for every packet left; a clipped packet leaves
queued frames without a tasklet (`left`); the packet number of a queued
fragment is cleared, so CCMP fragments never match; TKIP fragments fail the
MIC, which is compared per fragment; `r92su_rx_port_check` reads a protocol that
is not set yet.

### TxPath

`r92su_tx` runs on every transmit queue (`Queue`) at once and takes no lock. A
queue steps from handler to handler: the state test outside the RCU section
(`xmit`), the section with the bss lookup (`enter`), the three reads of
`r92su_tx_select_key`, the IV (`add_iv`), the increment of the counter
(`increment`) and the rest (`fill_desc`). Beside it whoever holds `r92su->lock`
adds, replaces and deletes keys and takes the connection down and up, in the
order of the assignments the queues can see (`lpc`). A join can complete while
the device is connected: `connect` passes the listed station with its key to
`call_rcu`, `install` makes `bss_priv->sta` name the new one. Two others change
what the queues read without any lock: a join that failed ends in
`r92su_bss_free`, which takes the group keys and the station of the bss away
pointer by pointer (`join_failed`, `bss_free_key`, `bss_free_sta`), and a
station event can name the station of the bss (`sta_event`).

`listed` says whether `bss_priv->sta` is in the station list. The pointer stays when
the station has gone to `call_rcu`, so a queue that enters its RCU section after
that can follow it to a station, and a key, nobody keeps for it: `stale` has the
queues that came in then, `use_freed` is what they do to memory that is no key any
more, and `KeyAlive` is about all others. That such queues exist - after a join
replaced or gave up the station of a connection that stands, or an event took it -
is a defect of the driver, of the kind the finding of `sta_table_timer` quotes
`main.c:1606` on.

A freed key is live until its grace period is over: `grace` holds the queues that
were in an RCU section when it was freed. The key of a station waits for the grace
period of the station and then for its own; the model lets it go after the first, which is
the earlier of the two. A key freed twice (the failed join races `r92su_add_key`)
does not wait longer for it. A key object that nobody points at can
be allocated again. Numbers have six digits of base `Byte` (three for WEP) in
place of six bytes; the increment writes back what was loaded for the IV or
what is there now plus one, which are the two things a compiler can make of it.
Abstractions: one bss entry is joined again and again, since `group_key` lives in
it; the default keys for unicast and multicast are set
together; all keys of a connection have its cipher; a frame of a control port
protocol is one that `select_uni` may send without a key; a unicast frame has no
listed station of its own but the access point. The
rate hint and the request for a block-ack session are left out, no key depends on
them. No frame starts once a key has been used `MaxPn` times; frames under way
go on. A dead device refuses new frames at the state test, so death adds nothing
here. Injected frames use no key and are left out.

### Connect

A section under `r92su->lock` is one step; what `connect_bss_work` does after it
gave the lock back, the two halves of the join event, which takes no lock, and
the two cancellations in `r92su_stop` are steps of their own. The work items that
are pending are a queue, as on the single-threaded workqueue, and an item can be
pending again while it runs. `connect_result` is none, a result, or a pointer to
a result that was freed; `assoc_ie` is null, live or freed, for each bss;
`refs` counts the references the driver took and gave back. `sme` is what
cfg80211 believes - it asks for a connection only when idle, and calls
`r92su_stop` after it has left the network - and `told` the last report about a
link. Firmware answers each join command at most once and reports a link lost at
most once.

Every way a connect can fail is an action: the device was closed during the survey
(the call returns 0), no such bss, a refused command (of `r92su_connect`; an IBSS
that is cached needs none), no memory or a join command that cannot be sent. Four
history variables record what a property has to except: a join the user abandoned, a
reference given back too often (`r92su_stop` after a failed join), IEs used after
they were freed, and a join event without memory for its result.

### Lifecycle

The probe allocates and submits RX URBs one by one, reads the adapter, registers,
and fails at each of these points if it may; a failed probe leaves the URBs it
has submitted where they are, and the model ends there. Each URB is with the
controller or in one of the statements of `r92su_rx_usb_cb`; deaths come from
URB errors and from what the callback parses. `r92su->state` is tested and
written without a lock, so test and assignment are separate steps; `revived`
records that an assignment overwrote a death. `r92su_open` takes an image that
was loaded before for good, even if it did not parse. The disconnect unregisters
(which takes the interface down through `r92su_stop`), poisons the anchor and
every URB on it, and frees the device.

From the kernel's API: an URB leaves its anchor before its callback runs; an URB
anchored on a poisoned anchor is refused; `usb_poison_anchored_urbs` returns
when the anchor is empty and no callback of its URBs runs; the RTNL orders open,
stop and unregistration.

## 3. Runs

| run | instance | shows |
|---|---|---|
| `usb_tx` | 4 skbs, 1 sender, 1 callback, limit 2 | the invariant `Inductive` and its parts, a disconnect that ends and leaves nothing behind, no lost wakeup, every skb leaves, refinement of TxPipe |
| `reorder` | modulus 16, 4 slots, frames 13 to 19 | exact window, guarded by the timer, ordered release, nothing purged; a buffered frame leaves |
| `reorder_loop` | modulus 16, 4 slots, every window | the loops end and agree with ReorderWindow |
| `scan` | 3 surveys | requests answered once and in the end, a survey is watched, connects go on, stop returns |
| `sta_table` | 2 stations, 1 reader, 2 swept ids, which are also the aids | exact table until two contexts meet, nobody uses a freed station that was not taken from its connection, a connection keeps its station until somebody takes it, stop is quiet but for late events |
| `sta_table_timer` | as `sta_table` | *violation*: a release timer uses a freed station |
| `rx_path` | 4 ciphers, 2 keys in 2 slots, 3 buffers, at most 4 of keys and buffers | no packet number accepted twice under a key, joined frames closed, TKIP frames match the sender's key, no queued frame forgotten |
| `rx_defrag` | fragments of two frames, no cipher | *violation*: fragments of two frames are joined |
| `tx_path` | 2 queues, 2 keys, one cipher, bytes of 2 bits | a frame that found the station listed uses no freed key, rekeying hides no key, numbers differ unless queues raced, the receiver reads the number sent |
| `connect` | 2 bss, 3 connects | state, `connect_bss` and reports agree, no freed result is read, a connected device can send, its bss is referenced |
| `connect_ie` | 2 bss, 3 connects | *violation*: association IEs freed twice |
| `lifecycle` | 3 RX URBs | a working device keeps its URBs, up means open or dead, nothing left after a disconnect, which ends |

The violating runs state what a comment or the TODO file says; `findings` in
`PROJECT.json` quotes it and tells the trace.

Bounds. `usb_tx` has as many contexts as the limit, the boundary case of
`NoLostWakeup`, and two skbs more than the limit: two in the controller, one that a
callback tries to submit to the poisoned anchor, and one left for the disconnect to
drain. The theorems cover all other sizes. `NoLostWakeup` has a condition: no more
contexts in the path at once than the limit, which is 8 in the driver (`usb.h:38`).
Senders are the transmit queues, whoever sends a command, and the callbacks of the
controller, so a machine with few processors meets it; with one context more than
the limit, contexts can send each other away and the property fails. The reorder
instances start just below the wrap of the sequence numbers and run past it by a
whole window, with a modulus of four windows (the driver has 4096 and 32: 128
windows), so that behind, inside and ahead of the window are distinct cases.
`rx_path` takes three frames, enough for a repetition that the duplicate check does
not see (another frame comes between) and for a frame of three fragments; two keys,
for a replacement in every slot; and not both at their limit (`MaxOps`). With each
cipher the peer sends the frames the code treats differently there (`MCFrame`). Two
surveys suffice for a request to meet a connect's scan, three for a late report of
the first to meet the third. `sta_table` has two mac ids, `BSS_MACID` and another,
both swept and both named by the firmware, so that every pair of contexts meets on
one; two stations, of which one replaces the other; one reader, whose section is the
one a grace period waits for or does not, and one bss, to which all joins go. A
station that is not linked is unlinked at most once (`MaxOff`). With two bss
entries, so that a join can complete for another one than that of the standing
connection, the run passes as well, in twice the time. `tx_path` has two queues,
which is what it takes to race, and two keys, one to be replaced while the other is
in use; a key used once may still be used by the frame that is under way in the
other queue; the WEP counter starts one before a weak IV. WEP is the one cipher of
the run, because its counter is the one that jumps and wraps first; with TKIP and
CCMP in its place the run has as many states (1.35 million) and passes.
`IvRoundTrip` moves the numbers of the run through all digits. `connect` has two
networks and three connects, so that a leftover of the first can meet the third with
another network in between. `lifecycle` has three URBs: one with the controller, one
in a callback and one given up.

Fairness. UsbTx: a context inside the driver goes on, the controller gives every URB
back (with an error if it must), a disconnect goes on; no fairness for new senders
or for disconnecting. Reorder: the clock ticks, an expired timer fires, released
frames are delivered; none for the transmitter. Scan: the driver's contexts go on
and delays pass; a mutex that is free again and again lets its waiters through
(strong fairness for the two steps that wait for it); none for the firmware, which
need never report a survey. The properties exempt a dead device, on which the code
promises nothing: a connect that waits for its survey when the device dies waits
until somebody stops the interface, and `r92su_stop` needs the RTNL the connect
holds. Lifecycle: probe, open, stop, callbacks and disconnect go on, the controller
gives back an URB that was cancelled - no other one, for nothing obliges the device
to send - and the RTNL lets `unregister_netdev` in however often the user opens
(strong fairness). StaTable, RxPath, TxPath and Connect have no liveness property
and no fairness.

Deadlock is checked in every run. Where the system may come to rest the module has a
stuttering disjunct for exactly that state: the driver is unbound (UsbTx,
Lifecycle), the device is dead (Scan, Connect), the call has returned (ReorderLoop),
no receiving context has anything to do (RxPath).

## 4. Proofs

TLAPS checks the theorems for every value of the constants that meets the
assumption named in the module (`UsbTxAssumption`, `LifecycleAssumption`, ...).
The assumptions say what kind of thing a constant is - a finite set of skbs or
URBs, a positive limit, a NULL that is no object, a base of at least 2 - and
nothing about sizes, except in Reorder (above), where sequence numbers must be told
apart. One result has a hypothesis of its own, written in the theorem: `NoWrap` (TxPath).

All proofs have one plan. The properties of a module are not inductive: a step
from an unreachable state that satisfies them can violate them. A formula
`Inductive`, in the proofs module, adds what the code relies on without saying
so. It is the conjunction of named parts; one lemma per part shows that every step
preserves it, action by action, and the properties follow from it. `usb_tx` checks
`Inductive` of UsbTx as an invariant. Those of the other modules were checked by TLC on
the instances of section 3 before they were proved; a module that extends the MC module and
holds the definition of `Inductive`, with the run's cfg, repeats that.

### UsbTxProofs

`ExactlyOnePlace`, `PendingExact`, `InFlightBound` and `NoLostWakeup` need

* `ControlInv`: a context holds an URB exactly in the statements that use one
  (otherwise a step from an unreachable state could duplicate or lose an skb);
* `AnchorInv`: `tx_submitted` is what the controller owns plus what is about to
  be submitted (what poisoning reaches);
* `DisconnectInv`: what the disconnect has waited for stays true.

Counting rests on the library's theorems on cardinality: a step moves one
element, so both sides of `PendingExact` change by one. `LimitMeansInFlight` is
the heart of `NoLostWakeup`: a context sent away by the limit cannot have been
sent away by the other contexts alone, since there are fewer of them than the
limit; so the controller owns an URB, whose callback will schedule again.
`NothingLeftBehind` and `NoUseAfterFree` - no step of the path follows
`r92su_free` - follow from `Inductive`. `TypeOK` and `InFlightBound` are conjuncts of
`Inductive` and have theorems of their own; the run checks them through it.

`RefinesPipe` maps every skb to the stage of its life (`PhaseOf`); each step of
the path moves at most one skb by one stage. `InFlightBound` gives the guard of the
abstract `Start`, `ExactlyOnePlace` that the stages are what they should be.

### LifecycleProofs

`RxAlive`, `NoRxAfterFree` and `UpMeansOpen`, for any number of RX URBs. `RxInv` ties
the anchor to the places of the URBs and a buffer to its URB; `GivenUpInv` says
that an URB is given up only after a death was recorded; `InterfaceInv` says where
open and stop can be in each phase of probe and disconnect, which is what keeps
`IFF_UP` and the state together although neither is written under a common lock.

### TxPathProofs

`KeyAlive`, `KeyedFindsKey` and `IvRoundTrip`, for any number of queues and keys.
`PointerInv` is the argument: every pointer a new frame can follow leads to a live
key, no two to the same one, and `bss_priv->sta->sta_key`, which dangles once the
station has left the list, is still good for the queues that came in before; what a
failed join is about to free is where it was read, or has been freed by somebody
else, so that it frees no key that is in use again. `HeldInv` says that a key in use
is live or its `kfree_rcu` waits for the queue, if the queue is not stale; `ConnInv`
fixes the order in which a connection is published and withdrawn; `KeyedInv` follows
a frame that saw the pairwise key. `IvRoundTrip` is arithmetic: the digits of a
number put together again are the number modulo the width, in both byte orders, for
any base (the code's is 256).

`PnUnique` has a second invariant, `Numbers`. For a key nobody raced on, the counter
is `c` modulo its width, where the unwrapped `c` has only grown since the key was
made at `s`; every number on a frame is some `x` with `s <= x < c`, or `c` itself
while the one queue between reading and incrementing is there (`Counter`,
`Counted`). The next number is `c` or, past a weak WEP IV, at most `Byte` further,
so it repeats an earlier one only if it is a whole width beyond it. `NoWrap`
excludes that: `(Byte + 1) * (MaxPn +` queues`)` is at most the 24 bits of the WEP
counter, since each frame moves it by at most `Byte + 1` and `BoundInv` limits the
frames. It is the worst case of a counter that steps over a weak IV with every
frame, some 65,000 frames of a key at base 256; for a number of frames beyond the
width the property is false, as the driver's counters do wrap. Weak IVs (`WeakInv`)
need no bound: one step of the filter always leaves the weak class (`FilterStrong`).
The instance of the run meets `NoWrap`. Freed keys have no numbers (`FreshInv`), so
a key object that is used again starts afresh; `HeldInv` keeps every queue that is
not stale off a key whose memory is given back, and what a stale one does there is
not counting (`use_freed`).

### ReorderProofs

For any modulus that is a multiple of the window, any window, timeout and number of
frames: `WindowExact`, `TimerGuardsBuffer`, `NothingPurged` and the action property
`ReleasedInOrder` of Reorder, and `LoopsAgree` of ReorderLoop.

Reorder. The code knows sequence numbers, the properties are about frames. The
invariant therefore says that some unwrapped `h` exists such that the window starts
at frame `h` (`Window`: the head is the number of `h`, every buffered frame is one
of the `Size` frames from `h` on and in its slot, `len` counts them) and the
transmitter is close to it (`Session`: everything released is before `h`, the newest
frame sent is at most `Slack` ahead of it and not more than one behind, and the
number received last belongs to a frame near the newest one). From this each
comparison modulo `Modulus` in the code means the comparison of the frames: behind
the window, inside, ahead, repeated. A frame in the window belongs to one place only
because the modulus is a multiple of the number of slots (`Remainders`, at the head
of the module). Releasing `n` places takes the window from `h` to `h + n` and gives
the frames in between in order; `ReleasedInOrder` follows since all of them are
after `last`. `Timed` keeps a waiting frame for which the timer comes in time;
`NothingPurged` is part of the invariant because the slot of a frame inside the
window, when it is occupied, holds that very frame, and nothing has been released
before that is found out.

ReorderLoop. `LoopsAgree` speaks of the end of a call, the invariant of every
iteration: `Progress(m)` says that so far the loop has done exactly what
`ReorderWindow` computes for `m` places (`session = Advance(input.tid, m)`, `queue =
Released(input.tid, m)`) and what each loop knows about the places it has looked at;
`Search` does the same for the loop that looks for the frame to arm the timer for.
One iteration turns `m` into `m + 1`, which rests on `Released` appending the frame
of place `m` and `Advance` clearing its slot. No induction over data is needed: the
steps of the machine are the induction. `LoopTypeOK` shows at the same time that no
index leaves the buffer.

### ConnectProofs

`LinkAgrees`, `NoFreedResult`, `ConnectedCanSend` and `ConnectedIsReferenced`, for any
set of networks and any number of connects. A `connect_bss_work` on its way is in
one of three places - about to be queued by the tasklet, pending, running -
and never in two (`OnePlace`), and a result is parked for it (`ResultInv`); this
is what `connect_result`, tested without a lock in the event, comes to. `JoinInv`
says that at most one join is under way unless the user abandoned one, `RefInv`
counts the references behind the three pointers. The exceptions are those of the
properties: `lost`, `abandoned`, `unbalanced`.

### ScanProofs

`AnsweredOnce` and `SurveyWatched`, for any number of surveys. `RequestInv` says that
the driver knows a request exactly while it is unanswered, `NetInv` that requests
live only while the interface is up, `WatchInv` that a request nobody watches is
one of a device that is not open and that nobody is about to open.

### RxPathProofs

`NoReplay`, `JoinedIsClosed`, `TkipKeyAgrees` and `NoStrandedFrame`, for any frames, keys
and number of buffers. A packet number is compared in one handler and stored in a later
one, so `NoReplay` needs the frames between the two: `SoundInv` says that the
number of a frame on its way out is already in the counter, `OrderInv` that what is
delivered comes before what waits, and `HandlerInv` that frames are on their way out only
under `rx_path`, so that those of the other context cannot come in between. `DefragInv`
describes the fragments that wait.

### StaTableProofs

`TableExact`, `NoFreedInUse`, `ConnectedStaListed` and `StopQuiet`, for any number of
stations, bss entries, readers and mac ids, any aids in the station events and any
joins, without a hypothesis.

The invariant has two layers. The first holds however the contexts meet. `ProgInv`
gives the shape of what each context has left to do. `FoundInv` says that a station
somebody removes is not freed under his hands, `ListInv` that the list holds the
listed stations, each once, and `NewInv` that a station not listed yet is in one
pair of hands: a list of listed stations survives any race, since a second unlinking
changes nothing and a station is listed once in its life. `ConnInv` says that a
connected device has its station, or whoever holds the lock is about to publish
another one, or `lost` names who took it. `RcuInv` says that the callback of a
station a reader has come to waits for the reader (`Safe`), or that the station was
taken from its connection (`Kept`); it is what makes the order state, `connect_bss`,
station of a disconnect matter. `StopInv` follows `r92su_stop` to its end.

The second layer holds until `raced`. `ExactInv`: who removes a station is alone
with it, and who is about to list one finds its mac id free, so that no id is listed
twice and the counter agrees. `SweepInv`: a mac id that `r92su_stop` has passed is
listed no more, but for `late` ones. `QuietInv`: once `r92su_stop` waits, the
callback of a swept station waits for no section that `synchronize_rcu` does not
wait for. A proof of one action has a lemma per part; the steps of one context leave
the parts about the others alone, which the frame lemmas say once for all parts.

### Only model-checked

* Liveness, because fairness and ENABLED are out of the prover's reach:
  `DisconnectCompletes`, `EverySkbLeaves`, `BufferedFrameLeaves`, `LoopsEnd`,
  `RequestAnswered`, `ConnectGoesOn`, `StopReturns`, `DisconnectEnds`.

Every invariant and every action property of a passing run has a theorem. What the theorems
on Reorder do not cover is that the loops end (`LoopsEnd`) and that a frame in the buffer is
released in the end (`BufferedFrameLeaves`).

## 5. Not modelled

Contents of frames, commands and registers; the parts marked `not_modelled` in
`PROJECT.json`, with the reason for each. Allocation failures are modelled where
the code's path after them changes shared state (a refused skb, a failed join).

The other trees of the repository (`rt5572`, `rtl8188eu`, `rtl8192cu`, and rtlwifi
and the staging driver under `rtl8192su`) are imported vendor and kernel code,
more than 800,000 lines of which the repository is a mirror; r92su is some 10,000.

What the code does that no property demands or forbids:

* delivery: tasklet and timer release frames in order under `tid->lock` and deliver
  them under `rx_path` with nothing held in between, so they can overtake each other
  (`rx.c:944`);
* surveys: the survey-done event can queue its work again after `r92su_stop` has
  cancelled it, in spite of the check that should prevent it (`event.c:87`);
* connections: `r92su_connect` returns 0 when the device was closed during the
  survey (`main.c:418`); a failed join leaves `want_connect_bss`, so that
  `r92su_stop` gives the reference back a second time (`main.c:739`, `1458`);
  `r92su_stop` leaves a parked `connect_result` for the next life of the interface;
* lifecycle: the first RX URBs are submitted before `r92su_rx_init` (`usb.c:599`);
  the buffer of an URB that cannot be submitted is freed as an skb (`usb.c:411`); a
  failed probe leaves its URBs with the controller (`usb.c:613`); suspend and resume
  do nothing, so the URBs a suspend kills take the device with them (`usb.c:649`);
  an image that did not parse is uploaded by the next open (`fw.c:305`);
* transmit: the first number of a TKIP or CCMP key is the one this driver's own
  receiver starts from and refuses (`sta.c:229`, `238`); two queues in
  `r92su_tx_add_iv` can use one number twice;
* receive: a new station's first frame counts as a repetition if its sequence
  control is 0 (`rx.c:282`); `rx_queue` outlives a connection (`rx.c:1033`);
* stations: `bss_priv->sta` is never reset, and a station can leave the list while a
  connection uses it: replaced by a join that completes late (`main.c:676`), given
  up with a failed join (`main.c:739`), or named by a station event (`event.c:114`,
  which tests neither the state nor the id). Readers and transmit queues that come
  later then use a station, and its key, that nobody keeps for them (`lost` in
  StaTable, `stale` in TxPath); two contexts that find one station remove it twice
  (`raced`);
* `r92su_stop` waits for RCU readers, not for the callbacks, although its comment
  says it waits for keys and stations to be freed (`main.c:1483`).

## 6. Plan

Nothing a run checks is left to prove except liveness. `NoWrap` could be sharpened by
counting the weak IVs of a range.

Left to model, with less to gain: the survey results (`add_bss_work` and its
lock-free list), the efuse decoder as a pure algorithm, and the sequence counters
of commands and events.
