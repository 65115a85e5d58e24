--------------------------- MODULE StaTableProofs ---------------------------
(***************************************************************************)
(* Proofs about StaTable for any number of stations, bss entries, readers  *)
(* and mac ids, whatever aids the firmware's station events name and       *)
(* however often a join completes or fails while a connection stands.      *)
(***************************************************************************)
EXTENDS StaTable, SequenceTheorems, WellFoundedInduction, TLAPS

\* The operations of a program.
Todo(q) == {q[i] : i \in DOMAIN q}
\* An operation of that name is in the program.
Has(q, name) == \E o \in Todo(q) : o.op = name
\* The listed stations of a mac id.
Listed(i) == {s \in Sta : life[s] = "listed" /\ mac_id[s] = i}
\* What the holder of r92su->lock still has to do.
Locked == prog["lock"]
\* Context c is in r92su_sta_del, with the station it looked up.
Removing(c) == Doing(c, "unlink") \/ Doing(c, "call_rcu")
\* Context c is in r92su_sta_alloc, with a station that is not listed yet.
Adding(c) == Has(prog[c], "add")

\* What every program looks like: r92su_sta_del is the first thing it does once
\* it found a station, and r92su_sta_alloc when it has one to list.
WorkShape(q) ==
    /\ q \in Seq(Ops)
    /\ \A i \in DOMAIN q :
        /\ q[i].op = "unlink" => i = 1 /\ Len(q) > 1 /\ q[2].op = "call_rcu"
        /\ q[i].op = "call_rcu" => i = 1 \/ (i = 2 /\ q[1].op = "unlink")
        /\ q[i].op = "add" => \/ i = 1 \/ (i = 2 /\ q[1].op \in {"del", "call_rcu"})
                              \/ (i = 3 /\ q[1].op = "unlink")

\* The holder of r92su->lock publishes a new station and the connection stands,
\* sets a state at once, and ends r92su_stop with synchronize_rcu and return.
LockShape(q) ==
    /\ WorkShape(q)
    /\ \A i \in DOMAIN q :
        /\ q[i].op = "del" => q[i].id \in 0 .. MaxSta - 1
        /\ q[i].op = "free_connected" => i = 1
        /\ q[i].op = "add" => Len(q) = i + 2 /\ q[i + 1].op = "publish"
        /\ q[i].op = "publish" => Len(q) = i + 1 /\ q[i + 1] = Set("CONNECTED")
        /\ q[i].op = "set" => i = 1 \/ (i = Len(q) /\ q[i] = Set("CONNECTED"))
        /\ q[i] = Set("CONNECTED") => i = Len(q)
        /\ q[i].op = "sync" => Len(q) = i + 1 /\ q[i + 1].op = "return"
        /\ q[i].op = "return" => i = Len(q)

\* A station event, and the tail of a failed join, remove a station, add one, or
\* replace one.
SideShape(q) ==
    /\ WorkShape(q)
    /\ \A i \in DOMAIN q :
        /\ q[i].op \in {"del", "unlink", "call_rcu", "add"}
        /\ q[i].op = "del" => i = 1
        /\ q[i].op = "add" => i = Len(q)

\* The programs of the three contexts have their shapes.
ProgInv ==
    /\ LockShape(Locked) /\ SideShape(prog["event"]) /\ SideShape(prog["tail"])
    /\ ~Adding("tail")

\* The RCU callback of station s waits for x.
Safe(x, s) == /\ s \in Sta
              /\ life[s] \in {"listed", "unlinked"} \/ (life[s] = "dying" /\ x \in grace[s])

\* Who removes a station has found it, and it is not freed under his hands.
FoundInv ==
    \A c \in Ctx : /\ found[c] # NoSta <=> Removing(c)
                   /\ found[c] # NoSta => Safe(c, found[c])
                   /\ Doing(c, "call_rcu") => life[found[c]] # "listed"

\* The list holds the listed stations, each of them once.
ListInv ==
    /\ \A n \in DOMAIN sta_list : life[sta_list[n]] = "listed"
    /\ \A s \in Sta : life[s] = "listed" => \E n \in DOMAIN sta_list : sta_list[n] = s
    /\ \A m, n \in DOMAIN sta_list : sta_list[m] = sta_list[n] => m = n

\* The station of a connection is listed under BSS_MACID, or somebody without
\* r92su->lock took it.
Attached(s) == (life[s] = "listed" /\ mac_id[s] = BssId) \/ lost[s] \in {"tail", "event"}

\* A station that r92su_sta_alloc has not listed is in one pair of hands.
NewInv ==
    /\ \A c \in Ctx : Adding(c) => new[c] \in Sta /\ life[new[c]] = "new"
    /\ \A s \in Sta : life[s] = "new" => \E c \in Ctx : new[c] = s /\ Adding(c)
    /\ \A c, d \in Ctx : Adding(c) /\ Adding(d) /\ new[c] = new[d] => c = d
    /\ \A s \in Sta : lost[s] # "nobody" => life[s] \in {"unlinked", "dying", "free"}
    /\ Has(Locked, "publish") =>
        /\ new["lock"] \in Sta /\ want \in Bss
        /\ Adding("lock") => mac_id[new["lock"]] = BssId
        /\ Adding("lock") \/ (Doing("lock", "publish") /\ Attached(new["lock"]))

\* A connected device has its station, unless it is being replaced.
ConnInv ==
    /\ state = "CONNECTED" => \/ Idle("lock") \/ Doing("lock", "free_connected")
                              \/ Doing("lock", "set") \/ Has(Locked, "publish")
    /\ state = "CONNECTED" \/ (Busy("lock") /\ Head(Locked) = Set("CONNECTED")) =>
        /\ connect_bss \in Bss /\ bss_sta[connect_bss] \in Sta
        /\ \/ Attached(bss_sta[connect_bss])
           \/ lost[bss_sta[connect_bss]] = "lock" /\ Has(Locked, "publish")
    /\ Set("CONNECTED") \in Todo(Locked) =>
        Has(Locked, "publish") \/ Head(Locked) = Set("CONNECTED")

\* A reader that comes to the station of a connection can use it, unless the
\* station was taken from the connection.
Kept(r, s) == s \in Sta /\ (Safe(r, s) \/ lost[s] # "nobody")

\* Whoever a callback waits for is inside a section, and a reader that saw the
\* connection, or holds a station, can use it.
RcuInv ==
    /\ \A s \in Sta : grace[s] \subseteq Inside
    /\ \A r \in Reader :
        /\ rcu[r] = "connected" /\ connect_bss # NoBss => Kept(r, bss_sta[connect_bss])
        /\ rcu[r] = "bss" => seen[r] \in Bss /\ Kept(r, bss_sta[seen[r]])
        /\ rcu[r] = "use" => Safe(r, held[r])
        /\ rcu[r] = "bss_use" => Kept(r, held[r])

\* What r92su_stop has left to do, and what may be done when it returned.
StopInv ==
    /\ Has(Locked, "return") =>
        /\ ~down
        /\ Has(Locked, "stop_state") \/ Has(Locked, "set") \/ ~IsOpen
        /\ Has(Locked, "stop_state") \/ ~Has(Locked, "free_connected")
        /\ Set("OPEN") \in Todo(Locked) => Has(Locked, "stop_state")
        /\ Has(Locked, "sync") \/ Doing("lock", "return")
    /\ down =>
        /\ ~IsOpen
        /\ \A o \in Todo(Locked) :
              \/ o = Set("OPEN")
              \/ o.op \in {"del", "unlink", "call_rcu", "free_connected", "unpublish"}
    /\ Synced => Idle("tail")

\* Until two contexts meet: the table is exact, who removes a station is alone
\* with it, and who is about to list one finds its mac id free.
ExactInv ==
    /\ sta_num = Len(sta_list)
    /\ \A s, u \in Sta : life[s] = "listed" /\ u \in Listed(mac_id[s]) => s = u
    /\ \A c \in Ctx : /\ Doing(c, "unlink") => life[found[c]] = "listed"
                      /\ Doing(c, "call_rcu") => life[found[c]] = "unlinked"
    /\ \A c, d \in Ctx : found[c] # NoSta /\ found[c] = found[d] => c = d
    /\ \A s \in Sta : life[s] = "unlinked" => \E c \in Ctx : found[c] = s
    /\ \A c \in Ctx : Adding(c) =>
        /\ Doing(c, "del") => Arg(c) = mac_id[new[c]]
        /\ Doing(c, "unlink") => mac_id[found[c]] = mac_id[new[c]]
        /\ Doing(c, "call_rcu") \/ Doing(c, "add") => Listed(mac_id[new[c]]) = {}
        /\ \A d \in Ctx : Adding(d) /\ mac_id[new[d]] = mac_id[new[c]] => c = d

\* ... r92su_stop comes to every station, ...
SweepInv ==
    Has(Locked, "return") => \A s \in Sta : life[s] = "listed" /\ mac_id[s] < MaxSta =>
        \/ s \in late \/ Del(mac_id[s]) \in Todo(Locked)
        \/ Doing("lock", "unlink") /\ found["lock"] = s

\* ... and what it has left waits for the sections it waits for.
QuietInv ==
    Synced => \A s \in Sta : mac_id[s] < MaxSta /\ s \notin late =>
        LET waits == IF down THEN {} ELSE sync
        IN  /\ life[s] # "listed"
            /\ life[s] = "unlinked" => found["event"] = s /\ "event" \in waits
            /\ life[s] = "dying" => grace[s] \subseteq waits

\* The invariant of the station table: each part needs the others.
Inductive ==
    /\ TypeOK /\ ProgInv /\ FoundInv /\ ListInv /\ NewInv /\ ConnInv /\ RcuInv /\ StopInv
    /\ ~raced => ExactInv /\ SweepInv /\ QuietInv
-----------------------------------------------------------------------------
(* Programs *)

\* What an operation is.
LEMMA OpFacts ==
  /\ \A i : Del(i).op = "del" /\ Del(i).id = i
  /\ \A s : Set(s).op = "set" /\ Set(s).to = s
  /\ \A n : Do(n).op = n
  /\ \A i \in Ids : Del(i) \in Ops
  /\ \A s \in State : Set(s) \in Ops
  /\ \A n \in {"unlink", "call_rcu", "add", "publish", "free_connected", "unpublish",
               "stop_state", "stop_want", "sync", "return"} : Do(n) \in Ops
<1>1. /\ \A i : Del(i).op = "del" /\ Del(i).id = i
      /\ \A s : Set(s).op = "set" /\ Set(s).to = s
      /\ \A n : Do(n).op = n
  BY DEF Del, Set, Do
<1>2. /\ \A i \in Ids : Del(i) \in Ops
      /\ \A s \in State : Set(s) \in Ops
  BY DEF Ops
<1>3. \A n \in {"unlink", "call_rcu", "add", "publish", "free_connected", "unpublish",
                "stop_state", "stop_want", "sync", "return"} : Do(n) \in Ops
  BY DEF Ops
<1> QED BY <1>1, <1>2, <1>3

\* An operation of a name is that one.
LEMMA OpForms ==
  ASSUME NEW o \in Ops
  PROVE  /\ o.op = "del" => o = Del(o.id) /\ o.id \in Ids
         /\ o.op = "set" => o = Set(o.to) /\ o.to \in State
         /\ o.op \notin {"del", "set"} => o = Do(o.op)
<1>1. CASE o \in {Del(i) : i \in Ids}
  BY <1>1, OpFacts
<1>2. CASE o \in {Set(s) : s \in State}
  BY <1>2, OpFacts
<1>3. CASE o \in {Do(n) : n \in {"unlink", "call_rcu", "add", "publish", "free_connected",
                   "unpublish", "stop_state", "stop_want", "sync", "return"}}
  BY <1>3, OpFacts
<1> QED BY <1>1, <1>2, <1>3 DEF Ops

\* A program without its head ...
LEMMA TailProg ==
  ASSUME NEW S, NEW q \in Seq(S), q # <<>>
  PROVE  /\ Tail(q) \in Seq(S) /\ Len(q) \in Nat /\ Len(Tail(q)) = Len(q) - 1
         /\ Head(q) = q[1] /\ Head(q) \in S /\ 1 \in DOMAIN q
         /\ \A i \in DOMAIN Tail(q) :
               i \in Nat /\ i >= 1 /\ i + 1 \in DOMAIN q /\ Tail(q)[i] = q[i + 1]
         /\ Todo(q) = {Head(q)} \cup Todo(Tail(q))
<1>1. /\ Tail(q) \in Seq(S) /\ Len(q) \in Nat /\ Len(Tail(q)) = Len(q) - 1
      /\ Head(q) = q[1] /\ Head(q) \in S /\ 1 \in DOMAIN q
  OBVIOUS
<1>2. \A i \in DOMAIN Tail(q) :
         i \in Nat /\ i >= 1 /\ i + 1 \in DOMAIN q /\ Tail(q)[i] = q[i + 1]
  OBVIOUS
<1>3. \A i \in DOMAIN q : i # 1 => i - 1 \in DOMAIN Tail(q) /\ Tail(q)[i - 1] = q[i]
  OBVIOUS
<1>4. Todo(q) = {Head(q)} \cup Todo(Tail(q))
  <2>1. ASSUME NEW x \in Todo(q) PROVE x \in {Head(q)} \cup Todo(Tail(q))
    BY <1>1, <1>3 DEF Todo
  <2>2. ASSUME NEW x \in {Head(q)} \cup Todo(Tail(q)) PROVE x \in Todo(q)
    BY <1>1, <1>2 DEF Todo
  <2> QED BY <2>1, <2>2
<1> QED BY <1>1, <1>2, <1>4

\* ... and with one more operation in front.
LEMMA ConsProg ==
  ASSUME NEW S, NEW q \in Seq(S), NEW a \in S
  PROVE  /\ <<a>> \o q \in Seq(S) /\ <<a>> \o q # <<>>
         /\ Len(q) \in Nat /\ Len(<<a>> \o q) = Len(q) + 1
         /\ Head(<<a>> \o q) = a /\ (<<a>> \o q)[1] = a
         /\ \A i \in DOMAIN (<<a>> \o q) :
               i \in Nat /\ (i = 1 \/ (i - 1 \in DOMAIN q /\ (<<a>> \o q)[i] = q[i - 1]))
         /\ \A i \in DOMAIN q : i \in Nat /\ (<<a>> \o q)[i + 1] = q[i]
         /\ Todo(<<a>> \o q) = {a} \cup Todo(q)
<1> DEFINE p == <<a>> \o q
<1>1. /\ p \in Seq(S) /\ p # <<>> /\ Len(q) \in Nat /\ Len(p) = Len(q) + 1
      /\ Head(p) = a /\ p[1] = a
  OBVIOUS
<1>2. \A i \in DOMAIN p : i \in Nat /\ (i = 1 \/ (i - 1 \in DOMAIN q /\ p[i] = q[i - 1]))
  OBVIOUS
<1>3. \A i \in DOMAIN q : i \in Nat /\ i + 1 \in DOMAIN p /\ p[i + 1] = q[i]
  OBVIOUS
<1>4. 1 \in DOMAIN p
  BY <1>1
<1> HIDE DEF p
<1>5. Todo(p) = {a} \cup Todo(q)
  <2>1. ASSUME NEW x \in Todo(p) PROVE x \in {a} \cup Todo(q)
    BY <1>1, <1>2 DEF Todo
  <2>2. ASSUME NEW x \in {a} \cup Todo(q) PROVE x \in Todo(p)
    BY <1>1, <1>3, <1>4 DEF Todo
  <2> QED BY <2>1, <2>2
<1> QED BY <1>1, <1>2, <1>3, <1>5 DEF p

\* Nothing to do.
LEMMA EmptyProg ==
  /\ \A S : <<>> \in Seq(S)
  /\ Todo(<<>>) = {}
  /\ \A S : \A q \in Seq(S) : <<>> \o q = q /\ (Len(q) = 0 => q = <<>>)
  BY DEF Todo

\* Two operations are one in front of the other.
LEMMA PairProg ==
  ASSUME NEW S, NEW a \in S, NEW b \in S
  PROVE  <<a, b>> = <<a>> \o <<b>>
<1>1. <<a, b>> \in Seq(S) /\ Len(<<a, b>>) = 2 /\ <<a, b>>[1] = a /\ <<a, b>>[2] = b
  OBVIOUS
<1> DEFINE q == <<a>> \o <<b>>
<1>2. <<b>> \in Seq(S) /\ Len(<<b>>) = 1 /\ <<b>>[1] = b /\ 1 \in DOMAIN <<b>>
  OBVIOUS
<1>3. q \in Seq(S) /\ Len(q) = 2 /\ q[1] = a /\ q[2] = b
  BY <1>2, ConsProg
<1> HIDE DEF q
<1>4. \A i \in 1 .. Len(<<a, b>>) : <<a, b>>[i] = q[i]
  BY <1>1, <1>3
<1>5. <<a, b>> = q
  BY <1>1, <1>3, <1>4, SeqEqual
<1> QED BY <1>5 DEF q

\* Two operations in front of a program.
LEMMA TwoProg ==
  ASSUME NEW S, NEW q \in Seq(S), NEW a \in S, NEW b \in S
  PROVE  LET p == <<a, b>> \o q IN
         /\ p \in Seq(S) /\ p # <<>> /\ Len(q) \in Nat /\ Len(p) = Len(q) + 2
         /\ Head(p) = a /\ p[1] = a /\ p[2] = b /\ Todo(p) = {a, b} \cup Todo(q)
         /\ \A i \in DOMAIN p : \/ i = 1 \/ i = 2
                                \/ /\ i \in Nat /\ i - 2 \in DOMAIN q /\ p[i] = q[i - 2]
                                   /\ i > 2 /\ (i - 2 < Len(q) => p[i + 1] = q[i - 1])
<1> DEFINE p == <<a, b>> \o q
<1>1. <<a, b>> \in Seq(S) /\ Len(<<a, b>>) = 2 /\ <<a, b>>[1] = a /\ <<a, b>>[2] = b
  OBVIOUS
<1>2. /\ p \in Seq(S) /\ p # <<>> /\ Len(q) \in Nat /\ Len(p) = Len(q) + 2
      /\ p[1] = a /\ p[2] = b /\ Head(p) = a
  BY <1>1
<1>3. \A i \in DOMAIN q : i \in Nat /\ i + 2 \in DOMAIN p /\ p[i + 2] = q[i]
  BY <1>1
<1>4. \A i \in DOMAIN p : i = 1 \/ i = 2 \/ (i \in Nat /\ i > 2 /\ i - 2 \in DOMAIN q)
  BY <1>2
<1>5. ASSUME NEW i \in DOMAIN p, i # 1, i # 2
      PROVE  /\ i \in Nat /\ i - 2 \in DOMAIN q /\ p[i] = q[i - 2]
             /\ i > 2 /\ (i - 2 < Len(q) => p[i + 1] = q[i - 1])
  <2>1. i \in Nat /\ i > 2 /\ i - 2 \in DOMAIN q /\ i - 2 + 2 = i
    BY <1>4, <1>5
  <2>2. p[i] = q[i - 2]
    BY <1>3, <2>1
  <2>3. i - 2 < Len(q) => i - 1 \in DOMAIN q /\ i - 1 + 2 = i + 1
    BY <1>2, <2>1
  <2> QED BY <1>3, <2>1, <2>2, <2>3
<1>6. 1 \in DOMAIN p /\ 2 \in DOMAIN p
  BY <1>2
<1> HIDE DEF p
<1>7. Todo(p) = {a, b} \cup Todo(q)
  <2>1. ASSUME NEW x \in Todo(p) PROVE x \in {a, b} \cup Todo(q)
    BY <1>2, <1>5 DEF Todo
  <2>2. ASSUME NEW x \in {a, b} \cup Todo(q) PROVE x \in Todo(p)
    BY <1>2, <1>3, <1>6 DEF Todo
  <2> QED BY <2>1, <2>2
<1> QED BY <1>2, <1>5, <1>7 DEF p

\* What may come after an operation other than the lookup of r92su_sta_del: nobody is
\* in r92su_sta_del or r92su_sta_alloc.
Plain(q) ==
    /\ LockShape(q)
    /\ \A o \in Todo(q) : /\ o.op \notin {"unlink", "call_rcu", "free_connected", "add"}
                          /\ o.op = "set" => o = Set("CONNECTED")

\* What may come after r92su_sta_del: it may be the list_add_rcu of r92su_sta_alloc.
After(q) ==
    /\ WorkShape(q)
    /\ \A o \in Todo(q) : o.op \notin {"unlink", "call_rcu"}
    /\ \A i \in DOMAIN q : q[i].op = "add" => i = 1

\* What every program says of its first operation and of the rest.
LEMMA WorkTail ==
  ASSUME NEW q, WorkShape(q), q # <<>>
  PROVE  /\ q \in Seq(Ops) /\ Head(q) \in Ops /\ WorkShape(Tail(q))
         /\ Todo(q) = {Head(q)} \cup Todo(Tail(q))
         /\ Head(q).op # "unlink" => After(Tail(q))
         /\ Head(q).op \notin {"del", "unlink", "call_rcu"} =>
               \A o \in Todo(Tail(q)) : o.op # "add"
         /\ Head(q).op = "unlink" => Tail(q) # <<>> /\ Head(Tail(q)).op = "call_rcu"
<1> DEFINE t == Tail(q)
<1>1. /\ q \in Seq(Ops) /\ t \in Seq(Ops) /\ Len(q) \in Nat /\ Len(t) = Len(q) - 1
      /\ Head(q) = q[1] /\ Head(q) \in Ops /\ 1 \in DOMAIN q
      /\ Todo(q) = {Head(q)} \cup Todo(t)
      /\ \A i \in DOMAIN t : i \in Nat /\ i >= 1 /\ i + 1 \in DOMAIN q /\ t[i] = q[i + 1]
  BY TailProg DEF WorkShape
<1>2. t # <<>> => Head(t) = t[1] /\ 1 \in DOMAIN t /\ Len(t) > 0
  BY <1>1, TailProg
<1>3. Len(t) = 0 => t = <<>>
  BY <1>1, EmptyProg
<1>4. Len(t) > 0 => 1 \in DOMAIN t /\ t[1] = q[2]
  BY <1>1
<1>5. \A i \in DOMAIN t : i + 1 # 1 /\ i <= Len(t)
  BY <1>1
<1> HIDE DEF t
<1>6. ASSUME NEW i \in DOMAIN t
      PROVE  /\ t[i].op # "unlink"
             /\ t[i].op = "call_rcu" => i = 1 /\ q[1].op = "unlink"
             /\ t[i].op = "add" => \/ i = 1 /\ q[1].op \in {"del", "call_rcu"}
                                   \/ i = 2 /\ q[1].op = "unlink" /\ q[2].op = "call_rcu"
  <2>1. i \in Nat /\ i >= 1 /\ i + 1 \in DOMAIN q /\ t[i] = q[i + 1] /\ i + 1 # 1
    BY <1>1, <1>5
  <2>2. q[1].op = "unlink" => q[2].op = "call_rcu"
    BY <1>1 DEF WorkShape
  <2> QED BY <2>1, <2>2 DEF WorkShape
<1>7. WorkShape(t)
  <2>1. ASSUME NEW i \in DOMAIN t, t[i].op = "add"
        PROVE i = 1 \/ (i = 2 /\ t[1].op \in {"del", "call_rcu"})
    BY <1>1, <1>4, <1>6, <2>1
  <2> QED BY <1>1, <1>6, <2>1 DEF WorkShape
<1>8. Head(q).op # "unlink" => After(t)
  BY <1>1, <1>6, <1>7 DEF After, Todo
<1>9. Head(q).op \notin {"del", "unlink", "call_rcu"} => \A o \in Todo(t) : o.op # "add"
  BY <1>1, <1>6 DEF Todo
<1>10. Head(q).op = "unlink" => t # <<>> /\ Head(t).op = "call_rcu"
  BY <1>1, <1>2, <1>4, <1>3 DEF WorkShape
<1> QED BY <1>1, <1>7, <1>8, <1>9, <1>10 DEF t

\* What r92su_sta_del puts in front of the rest when it found a station.
LEMMA WorkUnlink ==
  ASSUME NEW q, After(q)
  PROVE  WorkShape(<<Do("unlink"), Do("call_rcu")>> \o q)
<1> DEFINE a == Do("unlink")
           b == Do("call_rcu")
           p == <<a, b>> \o q
<1>0. a \in Ops /\ b \in Ops /\ a.op = "unlink" /\ b.op = "call_rcu"
  BY OpFacts
<1> HIDE DEF a, b
<1>1. /\ p \in Seq(Ops) /\ Len(q) \in Nat /\ Len(p) = Len(q) + 2 /\ p[1] = a /\ p[2] = b
      /\ \A i \in DOMAIN p : \/ i = 1 \/ i = 2
                             \/ i \in Nat /\ i - 2 \in DOMAIN q /\ p[i] = q[i - 2]
  BY <1>0, TwoProg DEF After, WorkShape
<1> HIDE DEF p
<1>2. ASSUME NEW i \in DOMAIN p, i # 1, i # 2
      PROVE  p[i].op \notin {"unlink", "call_rcu"} /\ (p[i].op = "add" => i = 3)
  <2>1. i \in Nat /\ i - 2 \in DOMAIN q /\ p[i] = q[i - 2]
    BY <1>1, <1>2
  <2> QED BY <2>1 DEF After, Todo
<1>3. WorkShape(p)
  BY <1>0, <1>1, <1>2 DEF WorkShape
<1> QED BY <1>3 DEF p, a, b

\* What the shape of a program says of its first operation and of the rest.
LEMMA ShapeTail ==
  ASSUME NEW q, LockShape(q), q # <<>>
  PROVE  /\ Head(q) \in Ops /\ LockShape(Tail(q))
         /\ Head(q).op \notin {"del", "unlink", "call_rcu"} => Plain(Tail(q))
         /\ Head(q).op # "unlink" => After(Tail(q)) /\ \A o \in Todo(Tail(q)) :
               o.op # "free_connected" /\ (o.op = "set" => o = Set("CONNECTED"))
         /\ Head(q).op = "add" => Tail(q) # <<>> /\ Head(Tail(q)).op = "publish"
         /\ Head(q).op = "publish" => Tail(q) # <<>> /\ Head(Tail(q)) = Set("CONNECTED")
         /\ Head(q) = Set("CONNECTED") => Tail(q) = <<>>
         /\ Head(q).op = "return" => Tail(q) = <<>>
         /\ Head(q).op = "sync" => Tail(q) # <<>> /\ Head(Tail(q)).op = "return"
         /\ Head(q).op = "del" => Head(q) = Del(Head(q).id) /\ Head(q).id \in 0 .. MaxSta - 1
         /\ Head(q).op = "add" => Len(q) = 3
<1> DEFINE t == Tail(q)
<1>0. WorkShape(q)
  BY DEF LockShape
<1>1. /\ q \in Seq(Ops) /\ t \in Seq(Ops) /\ Len(q) \in Nat /\ Len(t) = Len(q) - 1
      /\ Head(q) = q[1] /\ Head(q) \in Ops /\ 1 \in DOMAIN q
      /\ \A i \in DOMAIN t : i \in Nat /\ i >= 1 /\ i + 1 \in DOMAIN q /\ t[i] = q[i + 1]
  BY <1>0, TailProg DEF WorkShape
<1>2. t # <<>> => Head(t) = t[1] /\ 1 \in DOMAIN t /\ Len(t) > 0
  BY <1>1, TailProg
<1>3. Len(t) = 0 => t = <<>>
  BY <1>1, EmptyProg
<1>4. \A i \in DOMAIN t : i + 1 # 1 /\ i <= Len(t)
  BY <1>1
<1>w. /\ WorkShape(t) /\ (Head(q).op # "unlink" => After(t))
      /\ Head(q).op \notin {"del", "unlink", "call_rcu"} => \A o \in Todo(t) : o.op # "add"
  BY <1>0, WorkTail
<1> HIDE DEF t
<1>5. LockShape(t)
  <2> SUFFICES ASSUME NEW i \in DOMAIN t
               PROVE /\ t[i].op = "del" => t[i].id \in 0 .. MaxSta - 1
                     /\ t[i].op = "free_connected" => i = 1
                     /\ t[i].op = "add" => Len(t) = i + 2 /\ t[i + 1].op = "publish"
                     /\ t[i].op = "publish" => Len(t) = i + 1 /\ t[i + 1] = Set("CONNECTED")
                     /\ t[i].op = "set" => i = 1 \/ (i = Len(t) /\ t[i] = Set("CONNECTED"))
                     /\ t[i] = Set("CONNECTED") => i = Len(t)
                     /\ t[i].op = "sync" => Len(t) = i + 1 /\ t[i + 1].op = "return"
                     /\ t[i].op = "return" => i = Len(t)
    BY <1>w DEF LockShape
  <2>1. /\ i \in Nat /\ i >= 1 /\ i + 1 \in DOMAIN q /\ t[i] = q[i + 1] /\ i + 1 # 1
    BY <1>1, <1>4
  <2>2. i < Len(t) => t[i + 1] = q[i + 2]
    BY <1>1, <2>1
  <2>3. /\ t[i].op = "del" => t[i].id \in 0 .. MaxSta - 1
        /\ t[i].op = "free_connected" => i = 1
        /\ t[i].op = "set" => i = 1 \/ (i = Len(t) /\ t[i] = Set("CONNECTED"))
        /\ t[i] = Set("CONNECTED") => i = Len(t)
        /\ t[i].op = "return" => i = Len(t)
    BY <1>1, <2>1 DEF LockShape
  <2>5. t[i].op \in {"add", "publish", "sync"} => i < Len(t)
    BY <1>1, <2>1 DEF LockShape
  <2>6. /\ t[i].op = "add" => Len(t) = i + 2 /\ t[i + 1].op = "publish"
        /\ t[i].op = "publish" => Len(t) = i + 1 /\ t[i + 1] = Set("CONNECTED")
        /\ t[i].op = "sync" => Len(t) = i + 1 /\ t[i + 1].op = "return"
    <3>1. i + 1 + 1 = i + 2
      BY <2>1
    <3> QED BY <1>1, <2>1, <2>2, <2>5, <3>1 DEF LockShape
  <2> QED BY <2>3, <2>6
<1>6. ASSUME NEW o \in Todo(t)
      PROVE  o.op # "free_connected" /\ (o.op = "set" => o = Set("CONNECTED"))
  <2>1. PICK i \in DOMAIN t : o = t[i]
    BY DEF Todo
  <2> QED BY <1>1, <1>4, <2>1 DEF LockShape
<1>7. Head(q).op \notin {"del", "unlink", "call_rcu"} => Plain(t)
  BY <1>5, <1>6, <1>w DEF Plain, After
<1>8. Head(q).op = "add" => t # <<>> /\ Head(t).op = "publish" /\ Len(q) = 3
  <2>1. Head(q).op = "add" => Len(q) = 1 + 2 /\ q[1 + 1].op = "publish"
    BY <1>1 DEF LockShape
  <2> QED BY <1>1, <1>2, <1>3, <2>1
<1>9. Head(q).op = "publish" => t # <<>> /\ Head(t) = Set("CONNECTED")
  BY <1>1, <1>2, <1>3 DEF LockShape
<1>10. /\ Head(q) = Set("CONNECTED") => t = <<>>
       /\ Head(q).op = "return" => t = <<>>
  BY <1>1, <1>3 DEF LockShape
<1>11. Head(q).op = "sync" => t # <<>> /\ Head(t).op = "return"
  BY <1>1, <1>2, <1>3 DEF LockShape
<1>12. Head(q).op = "del" => Head(q) = Del(Head(q).id) /\ Head(q).id \in 0 .. MaxSta - 1
  BY <1>1, OpForms DEF LockShape
<1> QED BY <1>1, <1>5, <1>6, <1>7, <1>8, <1>9, <1>10, <1>11, <1>12, <1>w DEF t

\* One more operation in front of a program that may come after it.
LEMMA ShapeCons ==
  ASSUME NEW q, Plain(q), NEW a \in Ops,
         a.op \in {"del", "free_connected", "unpublish", "stop_state", "stop_want", "set"},
         a # Set("CONNECTED"), a.op = "del" => a.id \in 0 .. MaxSta - 1
  PROVE  /\ LockShape(<<a>> \o q) /\ <<a>> \o q \in Seq(Ops) /\ <<a>> \o q # <<>>
         /\ Head(<<a>> \o q) = a /\ Todo(<<a>> \o q) = {a} \cup Todo(q)
         /\ a.op \notin {"free_connected", "set"} => Plain(<<a>> \o q)
<1> DEFINE p == <<a>> \o q
<1>0. q \in Seq(Ops)
  BY DEF Plain, LockShape, WorkShape
<1>1. /\ p \in Seq(Ops) /\ Len(q) \in Nat /\ Len(p) = Len(q) + 1 /\ p # <<>> /\ Head(p) = a
      /\ p[1] = a /\ Todo(p) = {a} \cup Todo(q)
      /\ \A i \in DOMAIN p : i \in Nat /\ (i = 1 \/ (i - 1 \in DOMAIN q /\ p[i] = q[i - 1]))
      /\ \A i \in DOMAIN q : i \in Nat /\ p[i + 1] = q[i]
  BY <1>0, ConsProg
<1> HIDE DEF p
<1>2. ASSUME NEW i \in DOMAIN p, i # 1
      PROVE  /\ p[i].op = "del" => p[i].id \in 0 .. MaxSta - 1
             /\ p[i].op \notin {"free_connected", "unlink", "call_rcu", "add"}
             /\ p[i].op = "publish" => Len(p) = i + 1 /\ p[i + 1] = Set("CONNECTED")
             /\ p[i].op = "set" => i = Len(p) /\ p[i] = Set("CONNECTED")
             /\ p[i] = Set("CONNECTED") => i = Len(p)
             /\ p[i].op = "sync" => Len(p) = i + 1 /\ p[i + 1].op = "return"
             /\ p[i].op = "return" => i = Len(p)
  <2>1. /\ i \in Nat /\ i - 1 \in DOMAIN q /\ p[i] = q[i - 1] /\ i - 1 + 1 = i
        /\ q[i - 1] \in Todo(q)
    BY <1>1, <1>2 DEF Todo
  <2>2. i \in DOMAIN q => p[i + 1] = q[i]
    BY <1>1
  <2>3. /\ p[i].op = "del" => p[i].id \in 0 .. MaxSta - 1
        /\ p[i] = Set("CONNECTED") => i = Len(p)
        /\ p[i].op = "return" => i = Len(p)
    BY <1>1, <2>1 DEF Plain, LockShape
  <2>4. /\ p[i].op \notin {"free_connected", "unlink", "call_rcu", "add"}
        /\ p[i].op = "set" => i = Len(p) /\ p[i] = Set("CONNECTED")
    BY <2>1, <2>3 DEF Plain
  <2>5. p[i].op \in {"publish", "sync"} => i \in DOMAIN q
    BY <1>0, <1>1, <2>1 DEF Plain, LockShape
  <2>6. /\ p[i].op = "publish" => Len(p) = i + 1 /\ p[i + 1] = Set("CONNECTED")
        /\ p[i].op = "sync" => Len(p) = i + 1 /\ p[i + 1].op = "return"
    <3>1. LockShape(q)
      BY DEF Plain
    <3>2. CASE p[i].op \notin {"publish", "sync"}
      BY <3>2
    <3>3. CASE p[i].op \in {"publish", "sync"}
      <4>1. i \in DOMAIN q /\ p[i + 1] = q[i] /\ q[i - 1] = p[i]
        BY <2>1, <2>2, <2>5, <3>3
      <4>2. /\ p[i].op = "publish" => Len(q) = i - 1 + 1 /\ q[i - 1 + 1] = Set("CONNECTED")
            /\ p[i].op = "sync" => Len(q) = i - 1 + 1 /\ q[i - 1 + 1].op = "return"
        BY <2>1, <3>1 DEF LockShape
      <4> QED BY <1>1, <2>1, <4>1, <4>2
    <3> QED BY <3>2, <3>3
  <2> QED BY <2>3, <2>4, <2>6
<1>3. WorkShape(p)
  BY <1>1, <1>2 DEF WorkShape
<1>4. LockShape(p)
  BY <1>1, <1>2, <1>3 DEF LockShape
<1>5. a.op \notin {"free_connected", "set"} => Plain(p)
  BY <1>1, <1>4 DEF Plain
<1> QED BY <1>1, <1>4, <1>5 DEF p

\* What r92su_sta_del puts in front of the rest when it found a station.
LEMMA ThenUnlink ==
  ASSUME NEW q, LockShape(q), After(q),
         \A o \in Todo(q) : o.op # "free_connected" /\ (o.op = "set" => o = Set("CONNECTED"))
  PROVE  LockShape(<<Do("unlink"), Do("call_rcu")>> \o q)
<1> DEFINE a == Do("unlink")
           b == Do("call_rcu")
           p == <<a, b>> \o q
<1>0. a \in Ops /\ b \in Ops /\ a.op = "unlink" /\ b.op = "call_rcu" /\ q \in Seq(Ops)
  BY OpFacts DEF After, WorkShape
<1>w. WorkShape(p)
  BY WorkUnlink
<1>6. b # Set("CONNECTED") /\ a # Set("CONNECTED")
  BY <1>0, OpFacts
<1> HIDE DEF a, b
<1>1. /\ p \in Seq(Ops) /\ Len(q) \in Nat /\ Len(p) = Len(q) + 2 /\ p[1] = a /\ p[2] = b
      /\ \A i \in DOMAIN p : \/ i = 1 \/ i = 2
                             \/ /\ i \in Nat /\ i - 2 \in DOMAIN q /\ p[i] = q[i - 2]
                                /\ i > 2 /\ (i - 2 < Len(q) => p[i + 1] = q[i - 1])
  BY <1>0, TwoProg
<1> HIDE DEF p
<1>5. ASSUME NEW i \in DOMAIN p, i # 1, i # 2
      PROVE  /\ p[i].op = "del" => p[i].id \in 0 .. MaxSta - 1
             /\ p[i].op # "free_connected"
             /\ p[i].op = "add" => Len(p) = i + 2 /\ p[i + 1].op = "publish"
             /\ p[i].op = "publish" => Len(p) = i + 1 /\ p[i + 1] = Set("CONNECTED")
             /\ p[i].op = "set" => i = Len(p) /\ p[i] = Set("CONNECTED")
             /\ p[i] = Set("CONNECTED") => i = Len(p)
             /\ p[i].op = "sync" => Len(p) = i + 1 /\ p[i + 1].op = "return"
             /\ p[i].op = "return" => i = Len(p)
  <2>1. /\ i \in Nat /\ i - 2 \in DOMAIN q /\ p[i] = q[i - 2] /\ i - 2 + 1 = i - 1
        /\ i > 2 /\ (i - 2 < Len(q) => p[i + 1] = q[i - 1])
    BY <1>1, <1>5
  <2>2. q[i - 2] \in Todo(q)
    BY <2>1 DEF Todo
  <2>4. /\ p[i].op = "del" => p[i].id \in 0 .. MaxSta - 1
        /\ p[i] = Set("CONNECTED") => i = Len(p)
        /\ p[i].op = "return" => i = Len(p)
    BY <1>1, <2>1 DEF LockShape
  <2>5. /\ p[i].op # "free_connected"
        /\ p[i].op = "set" => i = Len(p) /\ p[i] = Set("CONNECTED")
    BY <2>1, <2>2, <2>4
  <2>6. p[i].op \in {"add", "publish", "sync"} => i - 2 < Len(q)
    BY <1>1, <2>1 DEF LockShape
  <2>7. /\ p[i].op = "add" => Len(p) = i + 2 /\ p[i + 1].op = "publish"
        /\ p[i].op = "publish" => Len(p) = i + 1 /\ p[i + 1] = Set("CONNECTED")
        /\ p[i].op = "sync" => Len(p) = i + 1 /\ p[i + 1].op = "return"
    <3>1. /\ q[i - 2].op = "add" => Len(q) = i - 2 + 2 /\ q[i - 2 + 1].op = "publish"
          /\ q[i - 2].op = "publish" => Len(q) = i - 2 + 1 /\ q[i - 2 + 1] = Set("CONNECTED")
          /\ q[i - 2].op = "sync" => Len(q) = i - 2 + 1 /\ q[i - 2 + 1].op = "return"
      BY <2>1 DEF LockShape
    <3> QED BY <1>1, <2>1, <2>6, <3>1
  <2> QED BY <2>4, <2>5, <2>7
<1>7. LockShape(p)
  BY <1>0, <1>w, <1>1, <1>5, <1>6 DEF LockShape
<1> QED BY <1>7 DEF p, a, b

-----------------------------------------------------------------------------
(* The programs of r92su_bss_connect_work, r92su_stop and the station events *)

\* The program of a successful r92su_bss_connect_work has the shape.
LEMMA ConnectProg ==
  LET p == <<Del(BssId), Do("add")>> \o <<Do("publish"), Set("CONNECTED")>> IN
  /\ LockShape(p) /\ p # <<>> /\ Head(p) = Del(BssId)
  /\ Todo(p) = {Del(BssId), Do("add"), Do("publish"), Set("CONNECTED")}
<1> DEFINE a == Del(BssId)
           b == Do("add")
           e == Do("publish")
           f == Set("CONNECTED")
           p == <<a, b>> \o <<e, f>>
<1>0. BssId \in 0 .. MaxSta - 1 /\ BssId \in Ids /\ "CONNECTED" \in State
  BY StaTableAssumption DEF Ids, State
<1>1. /\ a \in Ops /\ b \in Ops /\ e \in Ops /\ f \in Ops
      /\ a.op = "del" /\ a.id = BssId /\ b.op = "add" /\ e.op = "publish" /\ f.op = "set"
  BY <1>0, OpFacts
<1> HIDE DEF a, b, e, f
<1>2. <<a, b>> \in Seq(Ops) /\ <<e, f>> \in Seq(Ops)
  BY <1>1
<1>3. /\ p \in Seq(Ops) /\ Len(p) = 4 /\ p[1] = a /\ p[2] = b /\ p[3] = e /\ p[4] = f
  BY <1>1, <1>2
<1> HIDE DEF p
<1>4. \A i \in DOMAIN p : i = 1 \/ i = 2 \/ i = 3 \/ i = 4
  BY <1>3
<1>5. p # <<>> /\ Head(p) = a /\ {1, 2, 3, 4} \subseteq DOMAIN p
  BY <1>3
<1>6. Todo(p) = {a, b, e, f}
  BY <1>3, <1>4, <1>5 DEF Todo
<1>7. a # f /\ b # f /\ e # f
  BY <1>1
<1>8. ASSUME NEW i \in DOMAIN p
      PROVE  /\ p[i].op = "del" => p[i].id \in 0 .. MaxSta - 1
             /\ p[i].op \notin {"free_connected", "unlink", "call_rcu", "sync", "return"}
             /\ p[i].op = "add" => Len(p) = i + 2 /\ p[i + 1].op = "publish" /\ i = 2
             /\ p[i].op = "publish" => Len(p) = i + 1 /\ p[i + 1] = f
             /\ p[i].op = "set" => i = Len(p) /\ p[i] = f
             /\ p[i] = f => i = Len(p)
  <2>1. CASE i = 1
    BY <1>0, <1>1, <1>3, <1>7, <2>1
  <2>2. CASE i = 2
    BY <1>1, <1>3, <1>7, <2>2
  <2>3. CASE i = 3
    BY <1>1, <1>3, <1>7, <2>3
  <2>4. CASE i = 4
    BY <1>1, <1>3, <1>7, <2>4
  <2> QED BY <1>4, <2>1, <2>2, <2>3, <2>4
<1>9. WorkShape(p)
  BY <1>1, <1>3, <1>8 DEF WorkShape
<1>10. LockShape(p)
  BY <1>3, <1>8, <1>9 DEF LockShape, f
<1> QED BY <1>5, <1>6, <1>10 DEF a, b, e, f, p

\* The sweep removes every mac id below MAX_STA.
LEMMA SweepProg ==
  LET z == Sweep \o <<Do("sync"), Do("return")>> IN
  /\ Plain(z) /\ {Do("sync"), Do("return")} \subseteq Todo(z)
  /\ \A i \in 0 .. MaxSta - 1 : Del(i) \in Todo(z)
  /\ Sweep \in Seq(Ops)
  /\ \A o \in Todo(z) : o.op \in {"del", "sync", "return"}
<1> DEFINE a == Do("sync")
           b == Do("return")
           z == Sweep \o <<a, b>>
<1>0. MaxSta \in Nat
  BY StaTableAssumption
<1>1. a \in Ops /\ b \in Ops /\ a.op = "sync" /\ b.op = "return"
  BY OpFacts
<1>2. \A i \in 1 .. MaxSta : Del(i - 1) \in Ops /\ i - 1 \in 0 .. MaxSta - 1
  <2>1. ASSUME NEW i \in 1 .. MaxSta PROVE i - 1 \in 0 .. MaxSta - 1 /\ i - 1 \in Ids
    BY <1>0 DEF Ids
  <2> QED BY <2>1, OpFacts
<1>3. /\ Sweep \in Seq(Ops) /\ Len(Sweep) = MaxSta
      /\ \A i \in 1 .. MaxSta : Sweep[i] = Del(i - 1)
  BY <1>0, <1>2 DEF Sweep
<1> HIDE DEF a, b
<1>4. <<a, b>> \in Seq(Ops) /\ Len(<<a, b>>) = 2 /\ <<a, b>>[1] = a /\ <<a, b>>[2] = b
  BY <1>1
<1>5. /\ z \in Seq(Ops) /\ Len(z) = MaxSta + 2
      /\ \A i \in 1 .. MaxSta : z[i] = Del(i - 1)
      /\ z[MaxSta + 1] = a /\ z[MaxSta + 2] = b
  BY <1>0, <1>3, <1>4
<1> HIDE DEF z
<1>6. \A i \in DOMAIN z : i \in 1 .. MaxSta \/ i = MaxSta + 1 \/ i = MaxSta + 2
  BY <1>0, <1>5
<1>7. ASSUME NEW i \in DOMAIN z
      PROVE  /\ z[i].op \in {"del", "sync", "return"}
             /\ z[i].op = "del" => z[i].id \in 0 .. MaxSta - 1
             /\ z[i].op = "sync" => Len(z) = i + 1 /\ z[i + 1].op = "return"
             /\ z[i].op = "return" => i = Len(z)
  <2>1. CASE i \in 1 .. MaxSta
    BY <1>2, <1>5, <2>1, OpFacts
  <2>2. CASE i = MaxSta + 1
    <3>1. MaxSta + 1 + 1 = MaxSta + 2
      BY <1>0
    <3> QED BY <1>1, <1>5, <2>2, <3>1
  <2>3. CASE i = MaxSta + 2
    BY <1>1, <1>5, <2>3
  <2> QED BY <1>6, <2>1, <2>2, <2>3
<1>8. \A o : o.op \in {"del", "sync", "return"} => o # Set("CONNECTED")
  BY OpFacts
<1>9. LockShape(z)
  <2>1. WorkShape(z)
    BY <1>5, <1>7 DEF WorkShape
  <2> QED BY <1>5, <1>7, <1>8, <2>1 DEF LockShape
<1>10. \A o \in Todo(z) : o.op \in {"del", "sync", "return"}
  BY <1>7 DEF Todo
<1>11. Plain(z)
  BY <1>9, <1>10 DEF Plain
<1>12. a \in Todo(z) /\ b \in Todo(z)
  <2>1. MaxSta + 1 \in DOMAIN z /\ MaxSta + 2 \in DOMAIN z
    BY <1>0, <1>5
  <2> QED BY <1>5, <2>1 DEF Todo
<1>13. ASSUME NEW i \in 0 .. MaxSta - 1 PROVE Del(i) \in Todo(z)
  <2>1. PICK j \in 1 .. MaxSta : j - 1 = i
    <3>1. i + 1 \in 1 .. MaxSta /\ (i + 1) - 1 = i
      BY <1>0
    <3> QED BY <3>1
  <2>2. j \in DOMAIN z
    BY <1>0, <1>5
  <2>3. z[j] = Del(i)
    BY <1>5, <2>1, Zenon
  <2> QED BY <2>2, <2>3 DEF Todo
<1> QED BY <1>3, <1>10, <1>11, <1>12, <1>13 DEF a, b, z

\* So has that of r92su_stop.
LEMMA StopProg ==
  ASSUME NEW v \in BOOLEAN
  PROVE  LET p == When(v, <<Do("free_connected")>>) \o <<Do("stop_state"), Do("stop_want")>>
                  \o Sweep \o <<Do("sync"), Do("return")>> IN
         /\ LockShape(p) /\ p # <<>>
         /\ Head(p) = IF v THEN Do("free_connected") ELSE Do("stop_state")
         /\ {Do("sync"), Do("return"), Do("stop_state")} \subseteq Todo(p)
         /\ \A i \in 0 .. MaxSta - 1 : Del(i) \in Todo(p)
         /\ \A o \in Todo(p) : o.op \in {"free_connected", "stop_state", "stop_want",
                                         "del", "sync", "return"}
<1> DEFINE h == Do("free_connected")
           a == Do("stop_state")
           b == Do("stop_want")
           e == <<Do("sync"), Do("return")>>
           z == Sweep \o e
           y == <<b>> \o z
           x == <<a>> \o y
           p == When(v, <<h>>) \o <<a, b>> \o Sweep \o e
<1>1. /\ a \in Ops /\ b \in Ops /\ h \in Ops /\ a.op = "stop_state" /\ b.op = "stop_want"
      /\ h.op = "free_connected"
  BY OpFacts
<1>2. e \in Seq(Ops)
  BY OpFacts
<1>3. /\ Plain(z) /\ {Do("sync"), Do("return")} \subseteq Todo(z)
      /\ \A i \in 0 .. MaxSta - 1 : Del(i) \in Todo(z)
      /\ Sweep \in Seq(Ops) /\ \A o \in Todo(z) : o.op \in {"del", "sync", "return"}
  BY SweepProg
<1>4. \A o : o.op \in {"free_connected", "stop_state", "stop_want"} => o # Set("CONNECTED")
  BY OpFacts
<1> HIDE DEF a, b, h, e, z
<1>5. Plain(y) /\ Todo(y) = {b} \cup Todo(z) /\ y \in Seq(Ops)
  <2>1. z \in Seq(Ops)
    BY <1>3 DEF Plain, LockShape, WorkShape
  <2>2. Plain(y)
    BY <1>1, <1>3, <1>4, ShapeCons
  <2> QED BY <1>1, <2>1, <2>2, ConsProg
<1> HIDE DEF y
<1>6. /\ Plain(x) /\ Todo(x) = {a} \cup Todo(y) /\ x \in Seq(Ops) /\ Head(x) = a /\ x # <<>>
  <2>1. Plain(x)
    BY <1>1, <1>4, <1>5, ShapeCons
  <2> QED BY <1>1, <1>5, <2>1, ConsProg
<1> HIDE DEF x
<1>7. /\ LockShape(<<h>> \o x) /\ Todo(<<h>> \o x) = {h} \cup Todo(x)
      /\ Head(<<h>> \o x) = h /\ <<h>> \o x # <<>>
  <2>1. LockShape(<<h>> \o x)
    BY <1>1, <1>4, <1>6, ShapeCons
  <2> QED BY <1>1, <1>6, <2>1, ConsProg
<1>8. \A w \in Seq(Ops) : w \o <<a, b>> \o Sweep \o e = w \o x
  <2> SUFFICES ASSUME NEW w \in Seq(Ops) PROVE w \o <<a, b>> \o Sweep \o e = w \o x
    OBVIOUS
  <2>1. <<a>> \in Seq(Ops) /\ <<b>> \in Seq(Ops) /\ <<a, b>> \in Seq(Ops)
    BY <1>1
  <2>2. <<a, b>> = <<a>> \o <<b>> /\ z \in Seq(Ops)
    BY <1>1, <1>3, PairProg DEF Plain, LockShape, WorkShape
  <2>3. <<a, b>> \o z = x
    BY <2>1, <2>2, ConcatAssociative DEF x, y
  <2>4. w \o <<a, b>> \in Seq(Ops)
    BY <2>1
  <2>5. (w \o <<a, b>> \o Sweep) \o e = (w \o <<a, b>>) \o (Sweep \o e)
    BY <1>2, <1>3, <2>4, ConcatAssociative
  <2>6. (w \o <<a, b>>) \o z = w \o (<<a, b>> \o z)
    BY <2>1, <2>2, ConcatAssociative
  <2> QED BY <2>3, <2>5, <2>6 DEF z
<1>9. p = IF v THEN <<h>> \o x ELSE x
  <2>1. <<h>> \in Seq(Ops) /\ <<>> \in Seq(Ops)
    BY <1>1
  <2>2. <<>> \o x = x
    BY <1>6, EmptyProg
  <2> QED BY <1>8, <2>1, <2>2 DEF When
<1> HIDE DEF p
<1>10. /\ LockShape(p) /\ p # <<>> /\ Head(p) = IF v THEN h ELSE a
       /\ Todo(x) \subseteq Todo(p) /\ Todo(p) \subseteq {h} \cup Todo(x)
  BY <1>6, <1>7, <1>9 DEF Plain
<1>11. \A o \in Todo(p) : o.op \in {"free_connected", "stop_state", "stop_want",
                                    "del", "sync", "return"}
  BY <1>1, <1>3, <1>5, <1>6, <1>10
<1>12. /\ {Do("sync"), Do("return"), a} \subseteq Todo(p)
       /\ \A i \in 0 .. MaxSta - 1 : Del(i) \in Todo(p)
  BY <1>3, <1>5, <1>6, <1>10
<1> QED BY <1>10, <1>11, <1>12 DEF p, h, a, b, e

\* What a program of a station event, or of the tail, says of its first operation and the rest.
LEMMA SideTail ==
  ASSUME NEW q, SideShape(q), q # <<>>
  PROVE  /\ Head(q) \in Ops /\ SideShape(Tail(q))
         /\ Head(q).op \in {"del", "unlink", "call_rcu", "add"}
         /\ Head(q).op \in {"del", "call_rcu"} => \A o \in Todo(Tail(q)) : o.op = "add"
         /\ Head(q).op = "add" => Tail(q) = <<>> /\ Len(q) = 1
<1> DEFINE t == Tail(q)
<1>0. WorkShape(q)
  BY DEF SideShape
<1>1. /\ q \in Seq(Ops) /\ t \in Seq(Ops) /\ Len(q) \in Nat /\ Len(t) = Len(q) - 1
      /\ Head(q) = q[1] /\ Head(q) \in Ops /\ 1 \in DOMAIN q
      /\ \A i \in DOMAIN t : i \in Nat /\ i >= 1 /\ i + 1 \in DOMAIN q /\ t[i] = q[i + 1]
  BY <1>0, TailProg DEF WorkShape
<1>2. Len(t) = 0 => t = <<>>
  BY <1>1, EmptyProg
<1>3. WorkShape(t) /\ (Head(q).op # "unlink" => After(t))
  BY <1>0, WorkTail
<1>4. \A i \in DOMAIN t : i + 1 # 1 /\ i <= Len(t)
  BY <1>1
<1> HIDE DEF t
<1>5. ASSUME NEW i \in DOMAIN t
      PROVE  t[i].op \in {"unlink", "call_rcu", "add"} /\ (t[i].op = "add" => i = Len(t))
  BY <1>1, <1>4 DEF SideShape
<1>6. SideShape(t)
  BY <1>3, <1>5 DEF SideShape
<1>7. Head(q).op \in {"del", "call_rcu"} => \A o \in Todo(t) : o.op = "add"
  BY <1>3, <1>5 DEF After, Todo
<1>8. /\ Head(q).op \in {"del", "unlink", "call_rcu", "add"}
      /\ Head(q).op = "add" => t = <<>> /\ Len(q) = 1
  BY <1>1, <1>2 DEF SideShape
<1> QED BY <1>1, <1>6, <1>7, <1>8 DEF t

\* The programs of a removal and of a replacement.
LEMMA SideProg ==
  ASSUME NEW i \in Ids
  PROVE  /\ SideShape(<<Del(i)>>) /\ SideShape(<<Del(i), Do("add")>> \o <<>>)
         /\ Head(<<Del(i)>>) = Del(i) /\ Head(<<Del(i), Do("add")>> \o <<>>) = Del(i)
         /\ <<Del(i)>> # <<>> /\ <<Del(i), Do("add")>> \o <<>> # <<>>
         /\ Todo(<<Del(i)>>) = {Del(i)}
         /\ Todo(<<Del(i), Do("add")>> \o <<>>) = {Del(i), Do("add")}
<1> DEFINE a == Del(i)
           b == Do("add")
<1>1. a \in Ops /\ b \in Ops /\ a.op = "del" /\ a.id = i /\ b.op = "add"
  BY OpFacts
<1> HIDE DEF a, b
<1>2. <<a, b>> \o <<>> = <<a, b>>
  BY <1>1
<1>3. /\ <<a>> \in Seq(Ops) /\ DOMAIN <<a>> = {1} /\ <<a>>[1] = a /\ Len(<<a>>) = 1
      /\ Head(<<a>>) = a /\ <<a>> # <<>>
  BY <1>1
<1>4. /\ <<a, b>> \in Seq(Ops) /\ DOMAIN <<a, b>> = {1, 2} /\ Len(<<a, b>>) = 2
      /\ <<a, b>>[1] = a /\ <<a, b>>[2] = b /\ Head(<<a, b>>) = a /\ <<a, b>> # <<>>
  BY <1>1
<1> DEFINE p == <<a>>
           q == <<a, b>>
<1> HIDE DEF p, q
<1>5. SideShape(p) /\ Todo(p) = {a}
  <2>1. p \in Seq(Ops) /\ DOMAIN p = {1} /\ Len(p) = 1 /\ p[1] = a
    BY <1>3 DEF p
  <2> QED BY <1>1, <2>1 DEF SideShape, WorkShape, Todo
<1>6. SideShape(q) /\ Todo(q) = {a, b}
  <2>1. q \in Seq(Ops) /\ DOMAIN q = {1, 2} /\ Len(q) = 2 /\ q[1] = a /\ q[2] = b
    BY <1>4 DEF q
  <2>2. SideShape(q)
    BY <1>1, <2>1 DEF SideShape, WorkShape
  <2> QED BY <2>1, <2>2 DEF Todo
<1> QED BY <1>2, <1>3, <1>4, <1>5, <1>6 DEF p, q, a, b

\* A removal that finds the station goes on to unlink it.
LEMMA SideUnlink ==
  ASSUME NEW q, SideShape(q), After(q), \A o \in Todo(q) : o.op = "add"
  PROVE  SideShape(<<Do("unlink"), Do("call_rcu")>> \o q)
<1> DEFINE a == Do("unlink")
           b == Do("call_rcu")
           p == <<a, b>> \o q
<1>0. a \in Ops /\ b \in Ops /\ a.op = "unlink" /\ b.op = "call_rcu" /\ q \in Seq(Ops)
  BY OpFacts DEF After, WorkShape
<1>w. WorkShape(p)
  BY WorkUnlink
<1> HIDE DEF a, b
<1>1. /\ p \in Seq(Ops) /\ Len(q) \in Nat /\ Len(p) = Len(q) + 2 /\ p[1] = a /\ p[2] = b
      /\ \A i \in DOMAIN p : \/ i = 1 \/ i = 2
                             \/ i \in Nat /\ i - 2 \in DOMAIN q /\ p[i] = q[i - 2]
  BY <1>0, TwoProg
<1> HIDE DEF p
<1>2. ASSUME NEW i \in DOMAIN p, i # 1, i # 2 PROVE p[i].op = "add" /\ i = Len(p)
  <2>1. i \in Nat /\ i - 2 \in DOMAIN q /\ p[i] = q[i - 2]
    BY <1>1, <1>2
  <2>2. q[i - 2].op = "add"
    BY <2>1 DEF Todo
  <2>3. i - 2 = Len(q)
    BY <2>1, <2>2 DEF SideShape
  <2> QED BY <1>1, <2>1, <2>2, <2>3
<1>3. SideShape(p)
  BY <1>0, <1>w, <1>1, <1>2 DEF SideShape
<1> QED BY <1>3 DEF p, a, b

-----------------------------------------------------------------------------
(* Which steps leave what alone *)

\* The lock holder starts a program: connecting, disconnecting, open, stop.
Begin == \/ (\E b \in Bss \cup {NoBss} : connect(b)) \/ (\E s \in Sta : connect_work(s))
         \/ connect_work_failed \/ disconnect \/ open \/ stop
\* A station event of the firmware starts one.
Events == \/ \E p \in Peer, s \in Sta : c2h_add_sta_event(s, p)
          \/ \E i \in Ids : c2h_del_sta_event(i)

\* The steps of Next, by who takes them.
LEMMA Steps ==
  ASSUME [Next]_vars
  PROVE  \/ \E c \in Ctx : Work(c)
         \/ LockWork \/ Begin \/ Events \/ mark_dead
         \/ \E s \in Sta : free_sta_rcu(s)
         \/ \E r \in Reader : Read(r)
         \/ UNCHANGED vars
  BY DEF Next, Begin, Events

\* What r92su_sta_del and r92su_sta_alloc leave alone.
LEMMA WorkFrame ==
  ASSUME NEW c, Work(c)
  PROVE  /\ UNCHANGED <<state, bss, mac_id, reader, down>> /\ Busy(c)
         /\ Head(prog[c]).op \in {"del", "unlink", "call_rcu", "add"}
  BY DEF Work, sta_del, del_lookup, del_unlink, del_call_rcu, sta_add, Doing, table

\* What the other operations of the lock holder leave alone.
LEMMA LockFrame == LockWork =>
    /\ UNCHANGED <<table, grace, found, reader, raced, lost>> /\ Busy("lock")
    /\ Head(Locked).op \in {"publish", "set", "free_connected", "unpublish", "stop_state",
                            "stop_want", "sync", "return"}
  BY DEF LockWork, publish, set_state, free_connected, unpublish, stop_state, stop_want,
         synchronize_rcu, stop_return, Doing, hist, Locked

\* What starting a program leaves alone.
LEMMA BeginFrame == Begin =>
    /\ UNCHANGED <<state, connect_bss, bss_sta, sta_list, sta_num, grace, found, reader,
                   sync, down, late>>
    /\ Idle("lock")
  BY DEF Begin, connect, connect_work, connect_work_failed, disconnect, open, stop, table,
         bss, ctl, hist

\* What a station event leaves alone.
LEMMA EventFrame == Events =>
    /\ UNCHANGED <<state, bss, sta_list, sta_num, grace, found, reader, sync, down, late>>
    /\ Idle("event")
  BY DEF Events, c2h_add_sta_event, c2h_del_sta_event, table, hist

\* A reader changes neither the table nor the programs.
LEMMA ReadFrame ==
  ASSUME NEW r, Read(r)
  PROVE  UNCHANGED <<state, bss, table, ctl, down, hist>>
  BY DEF Read, read_lock, read_state, read_bss, read_find, read_bss_sta, read_list,
         reorder_tid_timer, read_unlock

\* The contexts are these three, and each context's program is its own.
LEMMA CtxFacts ==
  ASSUME TypeOK
  PROVE  /\ "lock" \in Ctx /\ "tail" \in Ctx /\ "event" \in Ctx
         /\ \A c \in Ctx : c = "lock" \/ c = "tail" \/ c = "event"
         /\ prog \in [Ctx -> Seq(Ops)]
         /\ \A c \in Ctx : \A p : Start(c, p) => /\ prog'[c] = p
                                                /\ \A d \in Ctx \ {c} : prog'[d] = prog[d]
         /\ \A c \in Ctx : Done(c) => /\ prog'[c] = Tail(prog[c])
                                      /\ \A d \in Ctx \ {c} : prog'[d] = prog[d]
         /\ \A c \in Ctx : \A p : Then(c, p) =>
               /\ prog'[c] = p \o Tail(prog[c])
               /\ \A d \in Ctx \ {c} : prog'[d] = prog[d]
<1>1. prog \in [Ctx -> Seq(Ops)]
  BY DEF TypeOK
<1> QED BY <1>1 DEF Ctx, Start, Done, Then

-----------------------------------------------------------------------------

-----------------------------------------------------------------------------
(* The steps of the programs *)

\* An operation that is only there under a condition.
LEMMA ThenWhen ==
  ASSUME NEW t, Plain(t), NEW a \in Ops, NEW v \in BOOLEAN,
         a.op \in {"del", "set"}, a # Set("CONNECTED"),
         a.op = "del" => a.id \in 0 .. MaxSta - 1
  PROVE  /\ LockShape(When(v, <<a>>) \o t)
         /\ v => /\ When(v, <<a>>) \o t # <<>> /\ Head(When(v, <<a>>) \o t) = a
                 /\ Todo(When(v, <<a>>) \o t) = {a} \cup Todo(t)
         /\ ~v => When(v, <<a>>) \o t = t
<1>0. t \in Seq(Ops) /\ LockShape(t)
  BY DEF Plain, LockShape, WorkShape
<1>1. CASE v
  BY <1>1, ShapeCons DEF When
<1>2. CASE ~v
  BY <1>0, <1>2, EmptyProg DEF When
<1> QED BY <1>1, <1>2

\* What the holder of r92su->lock has to do after each of its steps.
LEMMA LockEffect ==
  ASSUME TypeOK, ProgInv, LockWork
  PROVE  /\ LockShape(Locked') /\ prog' \in [Ctx -> Seq(Ops)]
         /\ prog'["event"] = prog["event"] /\ prog'["tail"] = prog["tail"]
         /\ publish \/ set_state \/ synchronize_rcu \/ stop_return => Locked' = Tail(Locked)
         /\ free_connected =>
              /\ Locked' # <<>>
              /\ Head(Locked') = IF state = "CONNECTED" THEN Set("OPEN") ELSE Do("unpublish")
              /\ Todo(Locked') = {Head(Locked'), Do("unpublish")} \cup Todo(Tail(Locked))
         /\ unpublish =>
              IF connect_bss # NoBss THEN /\ Locked' # <<>> /\ Head(Locked') = Del(BssId)
                                  /\ Todo(Locked') = {Del(BssId)} \cup Todo(Tail(Locked))
                             ELSE Locked' = Tail(Locked)
         /\ stop_state =>
              IF IsOpen THEN /\ Locked' # <<>> /\ Head(Locked') = Set("STOP")
                             /\ Todo(Locked') = {Set("STOP")} \cup Todo(Tail(Locked))
                        ELSE Locked' = Tail(Locked)
         /\ stop_want =>
              IF want # NoBss THEN /\ Locked' # <<>> /\ Head(Locked') = Del(BssId)
                           /\ Todo(Locked') = {Del(BssId)} \cup Todo(Tail(Locked))
                      ELSE Locked' = Tail(Locked)
<1> DEFINE t == Tail(Locked)
<1>0. /\ "lock" \in Ctx /\ "tail" \in Ctx /\ "event" \in Ctx /\ prog \in [Ctx -> Seq(Ops)]
      /\ Locked # <<>> /\ LockShape(Locked)
  BY CtxFacts, LockFrame DEF ProgInv, Busy, Locked
<1>1. /\ LockShape(t) /\ t \in Seq(Ops)
      /\ Head(Locked).op \notin {"del", "unlink", "call_rcu"} => Plain(t)
  <2>1. LockShape(t) /\ (Head(Locked).op \notin {"del", "unlink", "call_rcu"} => Plain(t))
    BY <1>0, ShapeTail
  <2> QED BY <2>1 DEF LockShape, WorkShape
<1>2. /\ Del(BssId) \in Ops /\ Del(BssId).op = "del" /\ Del(BssId).id \in 0 .. MaxSta - 1
      /\ Set("OPEN") \in Ops /\ Set("OPEN").op = "set" /\ Set("OPEN").to = "OPEN"
      /\ Set("STOP") \in Ops /\ Set("STOP").op = "set" /\ Set("STOP").to = "STOP"
      /\ Set("CONNECTED").to = "CONNECTED" /\ Set("CONNECTED").op = "set"
      /\ Do("unpublish") \in Ops /\ Do("unpublish").op = "unpublish"
  BY StaTableAssumption, OpFacts DEF Ids, State
<1>3. (connect_bss # NoBss) \in BOOLEAN /\ (want # NoBss) \in BOOLEAN /\ IsOpen \in BOOLEAN
      /\ (state = "CONNECTED") \in BOOLEAN
  BY DEF TypeOK, IsOpen
<1>4. CASE publish \/ set_state \/ synchronize_rcu \/ stop_return
  <2>1. Done("lock")
    BY <1>4 DEF publish, set_state, synchronize_rcu, stop_return
  <2>2. /\ Locked' = t /\ prog' \in [Ctx -> Seq(Ops)]
        /\ prog'["event"] = prog["event"] /\ prog'["tail"] = prog["tail"]
    BY <1>0, <1>1, <2>1 DEF Done, Locked
  <2>3. ~free_connected /\ ~unpublish /\ ~stop_state /\ ~stop_want
    BY <1>4 DEF publish, set_state, synchronize_rcu, stop_return, free_connected, unpublish,
                stop_state, stop_want, Doing
  <2> QED BY <1>1, <2>2, <2>3
<1>5. ASSUME NEW p, Then("lock", p), p \o t \in Seq(Ops)
      PROVE  /\ Locked' = p \o t /\ prog' \in [Ctx -> Seq(Ops)]
             /\ prog'["event"] = prog["event"] /\ prog'["tail"] = prog["tail"]
  BY <1>0, <1>5 DEF Then, Locked
<1>6. CASE free_connected
  <2> DEFINE p == When(state = "CONNECTED", <<Set("OPEN")>>) \o <<Do("unpublish")>>
             u == <<Do("unpublish")>> \o t
  <2>1. Plain(t) /\ Then("lock", p) /\ Head(Locked).op = "free_connected"
    BY <1>1, <1>6 DEF free_connected, Doing, Locked
  <2>2. /\ Plain(u) /\ Todo(u) = {Do("unpublish")} \cup Todo(t) /\ u # <<>>
        /\ Head(u) = Do("unpublish") /\ u \in Seq(Ops)
    BY <1>2, <2>1, ShapeCons
  <2>3. p \o t = When(state = "CONNECTED", <<Set("OPEN")>>) \o u
    <3>1. /\ When(state = "CONNECTED", <<Set("OPEN")>>) \in Seq(Ops)
          /\ <<Do("unpublish")>> \in Seq(Ops)
      BY <1>2 DEF When
    <3> QED BY <1>1, <3>1, ConcatAssociative
  <2> HIDE DEF p, u
  <2>4. /\ LockShape(p \o t)
        /\ state = "CONNECTED" => /\ p \o t # <<>> /\ Head(p \o t) = Set("OPEN")
                                  /\ Todo(p \o t) = {Set("OPEN")} \cup Todo(u)
        /\ state # "CONNECTED" => p \o t = u
    <3>1. Set("OPEN") # Set("CONNECTED")
      BY <1>2
    <3> DEFINE a == Set("OPEN")
               v == state = "CONNECTED"
    <3>2. /\ a \in Ops /\ a.op = "set" /\ a # Set("CONNECTED") /\ v \in BOOLEAN
      BY <1>2, <1>3, <3>1
    <3> HIDE DEF a, v
    <3>3. /\ LockShape(When(v, <<a>>) \o u)
          /\ v => /\ When(v, <<a>>) \o u # <<>> /\ Head(When(v, <<a>>) \o u) = a
                  /\ Todo(When(v, <<a>>) \o u) = {a} \cup Todo(u)
          /\ ~v => When(v, <<a>>) \o u = u
      BY <2>2, <3>2, ThenWhen
    <3> QED BY <2>3, <3>3 DEF a, v
  <2>5. p \o t \in Seq(Ops)
    BY <2>4 DEF LockShape, WorkShape
  <2>6. /\ Locked' = p \o t /\ prog' \in [Ctx -> Seq(Ops)]
        /\ prog'["event"] = prog["event"] /\ prog'["tail"] = prog["tail"]
    BY <1>5, <2>1, <2>5
  <2>7. /\ ~publish /\ ~set_state /\ ~synchronize_rcu /\ ~stop_return /\ ~unpublish
        /\ ~stop_state /\ ~stop_want
    BY <2>1 DEF publish, set_state, synchronize_rcu, stop_return, unpublish,
                stop_state, stop_want, Doing, Locked
  <2>8. CASE state = "CONNECTED"
    BY <2>2, <2>4, <2>6, <2>7, <2>8
  <2>9. CASE state # "CONNECTED"
    BY <2>2, <2>4, <2>6, <2>7, <2>9
  <2> QED BY <2>8, <2>9
<1>7. ASSUME NEW a \in Ops, NEW v \in BOOLEAN, Head(Locked).op \notin {"del", "unlink", "call_rcu"},
             a.op \in {"del", "set"}, a # Set("CONNECTED"),
             a.op = "del" => a.id \in 0 .. MaxSta - 1, Then("lock", When(v, <<a>>))
      PROVE  /\ LockShape(Locked') /\ prog' \in [Ctx -> Seq(Ops)]
             /\ prog'["event"] = prog["event"] /\ prog'["tail"] = prog["tail"]
             /\ v => /\ Locked' # <<>> /\ Head(Locked') = a
                     /\ Todo(Locked') = {a} \cup Todo(t)
             /\ ~v => Locked' = t
  <2> DEFINE p == When(v, <<a>>)
  <2>1. /\ LockShape(p \o t)
        /\ v => p \o t # <<>> /\ Head(p \o t) = a /\ Todo(p \o t) = {a} \cup Todo(t)
        /\ ~v => p \o t = t
    BY <1>1, <1>7, ThenWhen
  <2> HIDE DEF p
  <2>2. p \o t \in Seq(Ops)
    BY <2>1 DEF LockShape, WorkShape
  <2> QED BY <1>5, <1>7, <2>1, <2>2 DEF p
<1>8. CASE unpublish
  <2>1. Then("lock", When(connect_bss # NoBss, <<Del(BssId)>>)) /\ Head(Locked).op = "unpublish"
    BY <1>8 DEF unpublish, Doing, Locked
  <2>2. /\ ~publish /\ ~set_state /\ ~synchronize_rcu /\ ~stop_return /\ ~free_connected
        /\ ~stop_state /\ ~stop_want
    BY <2>1 DEF publish, set_state, synchronize_rcu, stop_return, free_connected,
                stop_state, stop_want, Doing, Locked
  <2> QED BY <1>2, <1>3, <1>7, <2>1, <2>2
<1>9. CASE stop_state
  <2>1. Then("lock", When(IsOpen, <<Set("STOP")>>)) /\ Head(Locked).op = "stop_state"
    BY <1>9 DEF stop_state, Doing, Locked
  <2>2. /\ ~publish /\ ~set_state /\ ~synchronize_rcu /\ ~stop_return /\ ~free_connected
        /\ ~unpublish /\ ~stop_want
    BY <2>1 DEF publish, set_state, synchronize_rcu, stop_return, free_connected,
                unpublish, stop_want, Doing, Locked
  <2>3. Set("STOP") # Set("CONNECTED")
    BY <1>2
  <2> QED BY <1>2, <1>3, <1>7, <2>1, <2>2, <2>3
<1>10. CASE stop_want
  <2>1. Then("lock", When(want # NoBss, <<Del(BssId)>>)) /\ Head(Locked).op = "stop_want"
    BY <1>10 DEF stop_want, Doing, Locked
  <2>2. /\ ~publish /\ ~set_state /\ ~synchronize_rcu /\ ~stop_return /\ ~free_connected
        /\ ~unpublish /\ ~stop_state
    BY <2>1 DEF publish, set_state, synchronize_rcu, stop_return, free_connected,
                unpublish, stop_state, Doing, Locked
  <2> QED BY <1>2, <1>3, <1>7, <2>1, <2>2
<1> QED BY <1>4, <1>6, <1>8, <1>9, <1>10 DEF LockWork

-----------------------------------------------------------------------------

-----------------------------------------------------------------------------
(* The list *)

\* The list without its i-th station.
LEMMA RemoveAtFacts ==
  ASSUME NEW S, NEW q \in Seq(S), NEW i \in 1 .. Len(q)
  PROVE  /\ RemoveAt(q, i) \in Seq(S) /\ Len(RemoveAt(q, i)) = Len(q) - 1
         /\ \A j \in 1 .. Len(q) - 1 : RemoveAt(q, i)[j] = IF j < i THEN q[j] ELSE q[j + 1]
<1> DEFINE a == SubSeq(q, 1, i - 1)
           b == SubSeq(q, i + 1, Len(q))
<1>1. a \in Seq(S) /\ Len(a) = i - 1 /\ \A j \in 1 .. i - 1 : a[j] = q[j]
  OBVIOUS
<1>2. b \in Seq(S) /\ Len(b) = Len(q) - i /\ \A j \in 1 .. Len(q) - i : b[j] = q[i + j]
  OBVIOUS
<1> HIDE DEF a, b
<1>3. a \o b \in Seq(S)
  BY <1>1, <1>2, ConcatProperties
<1>4. Len(a \o b) = Len(q) - 1
  BY <1>1, <1>2
<1>5. \A j \in 1 .. Len(q) - 1 : (a \o b)[j] = IF j < i THEN q[j] ELSE q[j + 1]
  BY <1>1, <1>2
<1> QED BY <1>3, <1>4, <1>5 DEF RemoveAt, a, b

\* list_del_rcu takes exactly the one station out of the list.
LEMMA UnlinkedFacts ==
  ASSUME TypeOK, ListInv, NEW s \in Sta, life[s] = "listed"
  PROVE  LET r == Unlinked(s) IN
         /\ r \in Seq(Sta) /\ Len(r) = Len(sta_list) - 1
         /\ \A j \in DOMAIN r : \E n \in DOMAIN sta_list : r[j] = sta_list[n] /\ r[j] # s
         /\ \A n \in DOMAIN sta_list : sta_list[n] # s => \E j \in DOMAIN r : r[j] = sta_list[n]
         /\ \A i, j \in DOMAIN r : r[i] = r[j] => i = j
<1> DEFINE q == sta_list
           i == CHOOSE n \in 1 .. Len(q) : q[n] = s
           r == RemoveAt(q, i)
<1>1. q \in Seq(Sta) /\ Len(q) \in Nat /\ DOMAIN q = 1 .. Len(q)
  BY DEF TypeOK
<1>2. \A m, n \in 1 .. Len(q) : q[m] = q[n] => m = n
  BY <1>1 DEF ListInv
<1>3. \E n \in 1 .. Len(q) : q[n] = s
  BY <1>1 DEF ListInv
<1>4. i \in 1 .. Len(q) /\ q[i] = s /\ r = Unlinked(s)
  BY <1>3 DEF Contains, Unlinked
<1> HIDE DEF i, q
<1>5. /\ r \in Seq(Sta) /\ Len(r) = Len(q) - 1
      /\ \A j \in 1 .. Len(q) - 1 : r[j] = IF j < i THEN q[j] ELSE q[j + 1]
  BY <1>1, <1>4, RemoveAtFacts, Zenon
<1>6. DOMAIN r = 1 .. Len(q) - 1
  BY <1>1, <1>5
<1> HIDE DEF r
<1>7. ASSUME NEW j \in 1 .. Len(q) - 1 PROVE \E n \in 1 .. Len(q) : r[j] = q[n] /\ r[j] # s
  <2>1. CASE j < i
    BY <1>1, <1>2, <1>4, <1>5, <2>1
  <2>2. CASE ~(j < i)
    BY <1>1, <1>2, <1>4, <1>5, <2>2
  <2> QED BY <2>1, <2>2
<1>8. ASSUME NEW n \in 1 .. Len(q), q[n] # s PROVE \E j \in 1 .. Len(q) - 1 : r[j] = q[n]
  <2>1. CASE n < i
    BY <1>1, <1>4, <1>5, <2>1
  <2>2. CASE n > i
    <3>1. n - 1 \in 1 .. Len(q) - 1 /\ ~(n - 1 < i) /\ n - 1 + 1 = n
      BY <1>1, <1>4, <2>2
    <3> QED BY <1>5, <3>1
  <2> QED BY <1>1, <1>4, <1>8, <2>1, <2>2
<1>9. ASSUME NEW k \in 1 .. Len(q) - 1, NEW j \in 1 .. Len(q) - 1, r[k] = r[j] PROVE k = j
  BY <1>1, <1>2, <1>4, <1>5, <1>9
<1>10. /\ Unlinked(s) = r /\ sta_list = q
  BY <1>4 DEF r, q
<1> QED BY <1>1, <1>5, <1>6, <1>7, <1>8, <1>9, <1>10

\* The least of some natural numbers is one of them.
LEMMA MinIn ==
  ASSUME NEW T \in SUBSET Nat, T # {}
  PROVE  Min(T) \in T
<1>1. \E x \in T : \A y \in T : ~ (<<y, x>> \in OpToRel(<, Nat))
  BY NatLessThanWellFounded, WFMin
<1>2. \A x, y \in Nat : y < x => <<y, x>> \in OpToRel(<, Nat)
  BY DEF OpToRel
<1>3. \A x, y \in Nat : ~ (y < x) => x =< y
  OBVIOUS
<1>4. \E x \in T : \A y \in T : x =< y
  BY <1>1, <1>2, <1>3, Zenon
<1> QED BY <1>4 DEF Min

\* r92su_sta_get_by_macid finds a listed station of the mac id, if any.
LEMMA MatchFacts ==
  ASSUME TypeOK, ListInv, NEW i
  PROVE  /\ Matches(i) = {} => Listed(i) = {}
         /\ Matches(i) # {} => sta_list[Min(Matches(i))] \in Listed(i)
<1>1. /\ sta_list \in Seq(Sta) /\ \A n \in DOMAIN sta_list : n \in Nat /\ sta_list[n] \in Sta
  BY DEF TypeOK
<1>2. \A s \in Listed(i) : \E n \in Matches(i) : sta_list[n] = s
  BY DEF Listed, ListInv, Matches
<1>3. Matches(i) # {} => Min(Matches(i)) \in Matches(i)
  BY <1>1, MinIn DEF Matches
<1>4. \A n \in Matches(i) : sta_list[n] \in Listed(i)
  BY <1>1 DEF Listed, ListInv, Matches
<1> QED BY <1>2, <1>3, <1>4

-----------------------------------------------------------------------------
(* What the programs say of each other *)

\* Only r92su_sta_alloc's own removal comes before its list_add_rcu.
LEMMA WorkStatic ==
  ASSUME NEW q, WorkShape(q)
  PROVE  /\ Has(q, "add") =>
              q # <<>> /\ Head(q).op \in {"del", "unlink", "call_rcu", "add"}
         /\ After(q) => /\ q # <<>> => Head(q).op \notin {"unlink", "call_rcu"}
                        /\ Has(q, "add") => Head(q).op = "add"
<1>1. q \in Seq(Ops)
  BY DEF WorkShape
<1>2. q # <<>> => Head(q) = q[1] /\ 1 \in DOMAIN q /\ Head(q) \in Todo(q)
  BY <1>1, TailProg DEF Todo
<1>3. ASSUME Has(q, "add") PROVE \E i \in DOMAIN q : q[i].op = "add"
  BY <1>3 DEF Has, Todo
<1>4. (\E i \in DOMAIN q : TRUE) => q # <<>>
  BY <1>1
<1>5. Has(q, "add") => q # <<>> /\ Head(q).op \in {"del", "unlink", "call_rcu", "add"}
  <2> SUFFICES ASSUME Has(q, "add")
               PROVE  q # <<>> /\ Head(q).op \in {"del", "unlink", "call_rcu", "add"}
    OBVIOUS
  <2>1. PICK i \in DOMAIN q : q[i].op = "add"
    BY <1>3
  <2> QED BY <1>2, <1>4, <2>1 DEF WorkShape
<1>6. After(q) => /\ q # <<>> => Head(q).op \notin {"unlink", "call_rcu"}
                  /\ Has(q, "add") => Head(q).op = "add"
  BY <1>2, <1>3, <1>4 DEF After
<1> QED BY <1>5, <1>6

\* A new station is published, a connection is announced, and r92su_stop ends alone.
LEMMA LockStatic ==
  ASSUME NEW q, LockShape(q)
  PROVE  /\ Has(q, "add") => Has(q, "publish")
         /\ Has(q, "publish") => /\ ~Has(q, "return") /\ Set("CONNECTED") \in Todo(q)
                                 /\ Head(q) # Set("CONNECTED") /\ Head(q).op # "return"
         /\ q # <<>> /\ Head(q).op = "return" => Todo(q) = {Head(q)}
         /\ q # <<>> /\ Head(q) = Set("CONNECTED") => Todo(q) = {Head(q)}
         /\ Has(q, "sync") => q # <<>> /\ Head(q).op # "return"
         /\ q # <<>> /\ Head(q).op = "sync" => \A o \in Todo(q) : o.op \in {"sync", "return"}
         /\ Has(q, "add") /\ q # <<>> => Head(q).op # "publish"
<1>1. q \in Seq(Ops)
  BY DEF LockShape, WorkShape
<1>2. Len(q) \in Nat /\ DOMAIN q = 1 .. Len(q) /\ (q # <<>> => Head(q) = q[1] /\ Len(q) > 0)
  BY <1>1
<1>3. ASSUME NEW i \in DOMAIN q, q[i].op = "publish"
      PROVE  /\ Set("CONNECTED") \in Todo(q) /\ ~Has(q, "return")
             /\ Head(q) # Set("CONNECTED") /\ Head(q).op # "return"
  <2>1. Len(q) = i + 1 /\ q[i + 1] = Set("CONNECTED") /\ i + 1 \in DOMAIN q
    BY <1>2, <1>3 DEF LockShape
  <2>2. Set("CONNECTED") \in Todo(q)
    BY <2>1 DEF Todo
  <2>3. ASSUME NEW j \in DOMAIN q, q[j].op = "return" PROVE FALSE
    <3>1. j = i + 1
      BY <2>1, <2>3 DEF LockShape
    <3>2. Set("CONNECTED").op = "set"
      BY OpFacts
    <3> QED BY <2>1, <2>3, <3>1, <3>2
  <2>4. ~Has(q, "return")
    BY <2>3 DEF Has, Todo
  <2>5. 1 \in DOMAIN q /\ Head(q) = q[1]
    BY <1>2
  <2>6. Head(q) # Set("CONNECTED")
    <3>1. ASSUME q[1] = Set("CONNECTED") PROVE FALSE
      BY <1>2, <1>3, <2>1, <2>5, <3>1, OpFacts DEF LockShape
    <3> QED BY <2>5, <3>1
  <2> QED BY <2>2, <2>3, <2>4, <2>5, <2>6
<1>4. ASSUME NEW i \in DOMAIN q, q[i].op = "add" PROVE Has(q, "publish")
  <2>1. i + 1 \in DOMAIN q /\ q[i + 1].op = "publish"
    BY <1>2, <1>4 DEF LockShape
  <2> QED BY <2>1 DEF Has, Todo
<1>5. Has(q, "add") => Has(q, "publish")
  BY <1>4 DEF Has, Todo
<1>6. Has(q, "publish") => /\ ~Has(q, "return") /\ Set("CONNECTED") \in Todo(q)
                           /\ Head(q) # Set("CONNECTED") /\ Head(q).op # "return"
  BY <1>3 DEF Has, Todo
<1>7. ASSUME q # <<>>, Head(q).op = "return" \/ Head(q) = Set("CONNECTED")
      PROVE  Todo(q) = {Head(q)}
  <2>1. 1 = Len(q)
    BY <1>2, <1>7 DEF LockShape
  <2>2. 1 \in DOMAIN q /\ \A i \in DOMAIN q : i = 1
    BY <1>2, <2>1
  <2> QED BY <1>2, <1>7, <2>2 DEF Todo
<1>8. Has(q, "sync") => q # <<>> /\ Head(q).op # "return"
  <2> SUFFICES ASSUME Has(q, "sync") PROVE q # <<>> /\ Head(q).op # "return"
    OBVIOUS
  <2>1. PICK i \in DOMAIN q : q[i].op = "sync"
    BY DEF Has, Todo
  <2>2. Len(q) = i + 1 /\ q # <<>>
    BY <1>1, <2>1 DEF LockShape
  <2> QED BY <1>2, <2>2 DEF LockShape
<1>9. ASSUME q # <<>>, Head(q).op = "sync" PROVE \A o \in Todo(q) : o.op \in {"sync", "return"}
  <2>1. Len(q) = 1 + 1 /\ q[1 + 1].op = "return"
    BY <1>2, <1>9 DEF LockShape
  <2>2. \A i \in DOMAIN q : i = 1 \/ i = 1 + 1
    BY <1>2, <2>1
  <2> QED BY <1>2, <1>9, <2>1, <2>2 DEF Todo
<1>10. Has(q, "add") => Head(q).op # "publish"
  BY WorkStatic DEF LockShape
<1> QED BY <1>5, <1>6, <1>7, <1>8, <1>9, <1>10

\* The shape of the program of each context.
Shape(c, q) == IF c = "lock" THEN LockShape(q) ELSE SideShape(q)

\* The shapes are what they are, whatever the context.
LEMMA Shapes ==
  ASSUME TypeOK, ProgInv, NEW c \in Ctx
  PROVE  /\ Shape(c, prog[c]) /\ WorkShape(prog[c]) /\ prog[c] \in Seq(Ops)
         /\ Busy(c) =>
             /\ Shape(c, Tail(prog[c])) /\ WorkShape(Tail(prog[c])) /\ Head(prog[c]) \in Ops
             /\ Todo(prog[c]) = {Head(prog[c])} \cup Todo(Tail(prog[c]))
             /\ Head(prog[c]).op # "unlink" => After(Tail(prog[c]))
             /\ Head(prog[c]).op \notin {"del", "unlink", "call_rcu"} => ~Has(Tail(prog[c]), "add")
             /\ Head(prog[c]).op = "unlink" =>
                  Tail(prog[c]) # <<>> /\ Head(Tail(prog[c])).op = "call_rcu"
             /\ Head(prog[c]).op \in {"del", "call_rcu"} =>
                  Shape(c, <<Do("unlink"), Do("call_rcu")>> \o Tail(prog[c]))
             /\ Head(prog[c]).op = "add" => Len(prog[c]) = IF c = "lock" THEN 3 ELSE 1
<1> DEFINE q == prog[c]
<1>1. Shape(c, q)
  BY DEF Ctx, ProgInv, Shape, Locked
<1>2. WorkShape(q) /\ q \in Seq(Ops)
  BY <1>1 DEF Shape, LockShape, SideShape, WorkShape
<1> HIDE DEF q
<1>3. ASSUME q # <<>>
      PROVE  /\ Shape(c, Tail(q)) /\ WorkShape(Tail(q)) /\ Head(q) \in Ops
             /\ Todo(q) = {Head(q)} \cup Todo(Tail(q))
             /\ Head(q).op # "unlink" => After(Tail(q))
             /\ Head(q).op \notin {"del", "unlink", "call_rcu"} => ~Has(Tail(q), "add")
             /\ Head(q).op = "unlink" => Tail(q) # <<>> /\ Head(Tail(q)).op = "call_rcu"
             /\ Head(q).op \in {"del", "call_rcu"} =>
                  Shape(c, <<Do("unlink"), Do("call_rcu")>> \o Tail(q))
             /\ Head(q).op = "add" => Len(q) = IF c = "lock" THEN 3 ELSE 1
  <2>1. /\ WorkShape(Tail(q)) /\ Head(q) \in Ops /\ Todo(q) = {Head(q)} \cup Todo(Tail(q))
        /\ Head(q).op # "unlink" => After(Tail(q))
        /\ Head(q).op \notin {"del", "unlink", "call_rcu"} => ~Has(Tail(q), "add")
        /\ Head(q).op = "unlink" => Tail(q) # <<>> /\ Head(Tail(q)).op = "call_rcu"
    BY <1>2, <1>3, WorkTail DEF Has
  <2>2. CASE c = "lock"
    <3>1. LockShape(q)
      BY <1>1, <2>2 DEF Shape
    <3>2. LockShape(Tail(q)) /\ (Head(q).op = "add" => Len(q) = 3)
      BY <1>3, <3>1, ShapeTail
    <3>3. Head(q).op \in {"del", "call_rcu"} =>
            LockShape(<<Do("unlink"), Do("call_rcu")>> \o Tail(q))
      BY <1>3, <3>1, ShapeTail, ThenUnlink
    <3> QED BY <2>1, <2>2, <3>2, <3>3 DEF Shape
  <2>3. CASE c # "lock"
    <3>1. SideShape(q)
      BY <1>1, <2>3 DEF Shape
    <3>2. SideShape(Tail(q)) /\ (Head(q).op = "add" => Len(q) = 1)
      BY <1>3, <3>1, SideTail
    <3>3. Head(q).op \in {"del", "call_rcu"} =>
            SideShape(<<Do("unlink"), Do("call_rcu")>> \o Tail(q))
      BY <1>3, <2>1, <3>1, SideTail, SideUnlink
    <3> QED BY <2>1, <2>3, <3>2, <3>3 DEF Shape
  <2> QED BY <2>2, <2>3
<1> QED BY <1>1, <1>2, <1>3 DEF q, Busy

\* One program changes, and keeps its shape.
LEMMA ShapeKept ==
  ASSUME TypeOK, ProgInv, NEW c \in Ctx, NEW p, Shape(c, p), prog' = [prog EXCEPT ![c] = p],
         c = "tail" => ~Has(p, "add")
  PROVE  /\ prog' \in [Ctx -> Seq(Ops)] /\ ProgInv' /\ prog'[c] = p
         /\ \A d \in Ctx \ {c} : prog'[d] = prog[d]
<1>1. p \in Seq(Ops) /\ prog \in [Ctx -> Seq(Ops)]
  BY DEF Shape, LockShape, SideShape, WorkShape, TypeOK
<1>2. /\ prog' \in [Ctx -> Seq(Ops)] /\ prog'[c] = p
      /\ \A d \in Ctx \ {c} : prog'[d] = prog[d]
  BY <1>1
<1>3. ProgInv'
  BY <1>2 DEF ProgInv, Locked, Ctx, Shape, Adding
<1> QED BY <1>2, <1>3

\* Context c is done with r92su_sta_del, and lists its new station next if it has one.
Through(c) == ~Removing(c) /\ (Adding(c) => Doing(c, "add"))

\* What the steps of r92su_sta_del and the list_add_rcu do to the program.
LEMMA WorkMoves ==
  ASSUME TypeOK, ProgInv, ListInv, NEW c \in Ctx, Work(c)
  PROVE  /\ prog' \in [Ctx -> Seq(Ops)] /\ ProgInv'
         /\ \A d \in Ctx \ {c} : prog'[d] = prog[d]
         /\ \A o : o.op \notin {"del", "unlink", "call_rcu", "add"} =>
              (o \in Todo(prog'[c]) <=> o \in Todo(prog[c]))
         /\ \A o : o.op = "del" => (o \in Todo(prog'[c]) => o \in Todo(prog[c]))
         /\ \A o \in Todo(prog[c]) \ Todo(prog'[c]) : o = Head(prog[c])
         /\ sta_add(c) => /\ Adding(c) /\ ~Adding(c)' /\ ~Removing(c)'
                          /\ Len(prog[c]) = IF c = "lock" THEN 3 ELSE 1
                          /\ c = "lock" => Doing("lock", "publish")'
         /\ ~sta_add(c) => (Adding(c)' <=> Adding(c))
         /\ del_unlink(c) => Doing(c, "call_rcu")'
         /\ del_call_rcu(c) => Through(c)'
         /\ del_lookup(c) =>
              /\ Head(prog[c]) = Del(Arg(c)) /\ Arg(c) \in Ids
              /\ c = "lock" => Arg(c) \in 0 .. MaxSta - 1
              /\ \/ Listed(Arg(c)) = {} /\ UNCHANGED <<found, raced>> /\ Through(c)'
                 \/ /\ Doing(c, "unlink")'
                    /\ \E s \in Listed(Arg(c)) :
                         /\ found' = [found EXCEPT ![c] = s]
                         /\ raced' = (raced \/ \E d \in Ctx : found[d] = s)
<1> DEFINE q == prog[c]
           t == Tail(prog[c])
           u == <<Do("unlink"), Do("call_rcu")>> \o t
<1>1. /\ q # <<>> /\ Head(q).op \in {"del", "unlink", "call_rcu", "add"} /\ Busy(c)
  BY WorkFrame DEF Busy
<1>2. /\ Shape(c, q) /\ Shape(c, t) /\ WorkShape(t) /\ Head(q) \in Ops
      /\ Todo(q) = {Head(q)} \cup Todo(t)
      /\ Head(q).op # "unlink" => After(t)
      /\ Head(q).op \notin {"del", "unlink", "call_rcu"} => ~Has(t, "add")
      /\ Head(q).op = "unlink" => t # <<>> /\ Head(t).op = "call_rcu"
      /\ Head(q).op \in {"del", "call_rcu"} => Shape(c, u)
      /\ Head(q).op = "add" => Len(q) = IF c = "lock" THEN 3 ELSE 1
  BY <1>1, Shapes
<1>3. /\ u # <<>> /\ Head(u) = Do("unlink")
      /\ Todo(u) = {Do("unlink"), Do("call_rcu")} \cup Todo(t)
      /\ Head(u).op = "unlink" /\ Do("call_rcu").op = "call_rcu"
  <2>1. /\ Do("unlink") \in Ops /\ Do("call_rcu") \in Ops /\ t \in Seq(Ops)
        /\ Do("unlink").op = "unlink" /\ Do("call_rcu").op = "call_rcu"
    BY <1>2, OpFacts DEF WorkShape
  <2> HIDE DEF t
  <2>2. /\ u # <<>> /\ Head(u) = Do("unlink")
        /\ Todo(u) = {Do("unlink"), Do("call_rcu")} \cup Todo(t)
    BY <2>1, TwoProg
  <2> QED BY <2>1, <2>2
<1>4. c = "tail" => ~Has(q, "add")
  BY DEF ProgInv, Adding
<1>5. prog \in [Ctx -> Seq(Ops)]
  BY DEF TypeOK
<1>6. c = "lock" /\ Head(q).op = "add" => t # <<>> /\ Head(t).op = "publish"
  BY <1>1, <1>2, ShapeTail DEF Shape
<1>7. /\ Head(q).op = "del" => Head(q) = Del(Head(q).id) /\ Head(q).id \in Ids
      /\ c = "lock" /\ Head(q).op = "del" => Head(q).id \in 0 .. MaxSta - 1
  BY <1>1, <1>2, OpForms, ShapeTail DEF Shape
<1>8. /\ After(t) => /\ t # <<>> => Head(t).op \notin {"unlink", "call_rcu"}
                     /\ Has(t, "add") => t # <<>> /\ Head(t).op = "add"
  BY <1>2, WorkStatic
<1>9. (Done(c) => prog' = [prog EXCEPT ![c] = t])
  BY <1>5 DEF Done
<1> HIDE DEF q, t, u
<1>10. ASSUME Done(c)
       PROVE  /\ prog' \in [Ctx -> Seq(Ops)] /\ ProgInv' /\ prog'[c] = t
              /\ \A d \in Ctx \ {c} : prog'[d] = prog[d]
  <2>1. c = "tail" => ~Has(t, "add")
    BY <1>2, <1>4 DEF Has
  <2> QED BY <1>2, <1>9, <1>10, <2>1, ShapeKept
<1>11. ASSUME del_lookup(c), ~Done(c)
       PROVE  /\ prog' \in [Ctx -> Seq(Ops)] /\ ProgInv' /\ prog'[c] = u
              /\ \A d \in Ctx \ {c} : prog'[d] = prog[d]
  <2>1. prog' = [prog EXCEPT ![c] = u] /\ Head(q).op = "del"
    BY <1>5, <1>11 DEF del_lookup, Then, Doing, q, t, u
  <2>2. c = "tail" => ~Has(u, "add")
    BY <1>2, <1>3, <1>4, OpFacts DEF Has
  <2> QED BY <1>2, <2>1, <2>2, ShapeKept
<1>12. Done(c) \/ (del_lookup(c) /\ ~Done(c))
  BY DEF Work, sta_del, del_unlink, del_call_rcu, sta_add
<1>13. prog'[c] = t \/ (prog'[c] = u /\ del_lookup(c))
  BY <1>10, <1>11, <1>12
<1>14. /\ prog' \in [Ctx -> Seq(Ops)] /\ ProgInv' /\ \A d \in Ctx \ {c} : prog'[d] = prog[d]
  BY <1>10, <1>11, <1>12
<1>15. /\ \A o : o.op \notin {"del", "unlink", "call_rcu", "add"} =>
              (o \in Todo(prog'[c]) <=> o \in Todo(prog[c]))
       /\ \A o : o.op = "del" => (o \in Todo(prog'[c]) => o \in Todo(prog[c]))
       /\ \A o \in Todo(prog[c]) \ Todo(prog'[c]) : o = Head(prog[c])
  BY <1>1, <1>2, <1>3, <1>13 DEF q
<1>16. ASSUME sta_add(c)
       PROVE  /\ Adding(c) /\ ~Adding(c)' /\ ~Removing(c)'
              /\ Len(prog[c]) = IF c = "lock" THEN 3 ELSE 1
              /\ c = "lock" => Doing("lock", "publish")'
  <2>1. Done(c) /\ Head(q).op = "add"
    BY <1>16 DEF sta_add, Doing, q
  <2>2. prog'[c] = t /\ ~Has(t, "add") /\ After(t)
    BY <1>2, <1>10, <2>1
  <2>3. Adding(c) /\ ~Adding(c)' /\ ~Removing(c)'
    BY <1>2, <1>8, <2>1, <2>2 DEF Adding, Removing, Has, Doing, Busy, q
  <2> QED BY <1>2, <1>6, <2>1, <2>2, <2>3 DEF Doing, Busy, q
<1>17. ASSUME ~sta_add(c) PROVE Adding(c)' <=> Adding(c)
  <2>1. Head(q).op # "add"
    BY <1>17 DEF Work, sta_del, del_lookup, del_unlink, del_call_rcu, sta_add, Doing, q
  <2>2. Has(q, "add") <=> Has(t, "add")
    BY <1>2, <2>1 DEF Has
  <2>3. Has(u, "add") <=> Has(t, "add")
    BY <1>3, OpFacts DEF Has
  <2> QED BY <1>13, <2>2, <2>3 DEF Adding, q
<1>18. del_unlink(c) => Doing(c, "call_rcu")'
  BY <1>2, <1>10 DEF del_unlink, Doing, Busy, q
<1>19. ASSUME After(t), prog'[c] = t PROVE Through(c)'
  BY <1>8, <1>19 DEF Through, Removing, Adding, Doing, Busy
<1>20. del_call_rcu(c) => Through(c)'
  BY <1>2, <1>10, <1>19 DEF del_call_rcu, Doing, q
<1>21. ASSUME del_lookup(c)
       PROVE  /\ Head(prog[c]) = Del(Arg(c)) /\ Arg(c) \in Ids
              /\ c = "lock" => Arg(c) \in 0 .. MaxSta - 1
              /\ \/ Listed(Arg(c)) = {} /\ UNCHANGED <<found, raced>> /\ Through(c)'
                 \/ /\ Doing(c, "unlink")'
                    /\ \E s \in Listed(Arg(c)) :
                         /\ found' = [found EXCEPT ![c] = s]
                         /\ raced' = (raced \/ \E d \in Ctx : found[d] = s)
  <2>1. Head(q).op = "del" /\ Head(q).id = Arg(c)
    BY <1>21 DEF del_lookup, Doing, Arg, q
  <2>2. CASE Matches(Arg(c)) = {}
    <3>1. Done(c) /\ UNCHANGED <<found, raced>>
      BY <1>21, <2>2 DEF del_lookup
    <3>2. Through(c)'
      BY <1>2, <1>10, <1>19, <2>1, <3>1
    <3> QED BY <1>7, <2>1, <2>2, <3>1, <3>2, MatchFacts DEF q
  <2>3. CASE Matches(Arg(c)) # {}
    <3> DEFINE s == sta_list[Min(Matches(Arg(c)))]
    <3>1. /\ found' = [found EXCEPT ![c] = s] /\ Then(c, <<Do("unlink"), Do("call_rcu")>>)
          /\ raced' = (raced \/ \E d \in Ctx : found[d] = found'[c])
      BY <1>21, <2>3 DEF del_lookup
    <3>2. s \in Listed(Arg(c))
      BY <2>3, MatchFacts
    <3>3. found'[c] = s
      BY <3>1 DEF TypeOK
    <3>4. prog' = [prog EXCEPT ![c] = u]
      BY <1>5, <3>1 DEF Then, t, u
    <3>5. prog'[c] = u
      BY <1>5, <3>4
    <3>6. Doing(c, "unlink")'
      BY <1>3, <3>5 DEF Doing, Busy
    <3> HIDE DEF s
    <3> QED BY <1>7, <2>1, <3>1, <3>2, <3>3, <3>6 DEF q
  <2> QED BY <2>2, <2>3
<1> QED BY <1>14, <1>15, <1>16, <1>17, <1>18, <1>20, <1>21

\* What the other steps of the lock holder do to its program.
LEMMA LockMoves ==
  ASSUME TypeOK, ProgInv, LockWork
  PROVE  /\ prog' \in [Ctx -> Seq(Ops)] /\ ProgInv'
         /\ \A d \in Ctx \ {"lock"} : prog'[d] = prog[d]
         /\ ~Removing("lock") /\ ~Removing("lock")' /\ ~Adding("lock") /\ ~Adding("lock")'
         /\ Todo(Locked) = {Head(Locked)} \cup Todo(Tail(Locked)) /\ Plain(Tail(Locked))
         /\ publish => Locked' # <<>> /\ Head(Locked') = Set("CONNECTED")
         /\ synchronize_rcu => Doing("lock", "return")' /\ Head(Locked).op = "sync"
         /\ stop_return => Locked' = <<>>
         /\ set_state /\ Head(Locked) = Set("CONNECTED") => Locked' = <<>>
         /\ Locked' # <<>> /\ ~free_connected /\ ~unpublish /\ ~stop_state /\ ~stop_want =>
              Head(Locked') \in Todo(Tail(Locked))
<1> DEFINE t == Tail(Locked)
<1>1. /\ LockShape(Locked') /\ prog' \in [Ctx -> Seq(Ops)]
      /\ prog'["event"] = prog["event"] /\ prog'["tail"] = prog["tail"]
      /\ publish \/ set_state \/ synchronize_rcu \/ stop_return => Locked' = t
  BY LockEffect
<1>2. ProgInv' /\ \A d \in Ctx \ {"lock"} : prog'[d] = prog[d]
  BY <1>1 DEF ProgInv, Ctx, Adding
<1>3. /\ Locked # <<>> /\ LockShape(Locked)
      /\ Head(Locked).op \in {"publish", "set", "free_connected", "unpublish", "stop_state",
                            "stop_want", "sync", "return"}
  BY LockFrame DEF ProgInv, Busy, Locked
<1>4. /\ Plain(t)
      /\ Head(Locked).op = "publish" => t # <<>> /\ Head(t) = Set("CONNECTED")
      /\ Head(Locked) = Set("CONNECTED") => t = <<>>
      /\ Head(Locked).op = "return" => t = <<>>
      /\ Head(Locked).op = "sync" => t # <<>> /\ Head(t).op = "return"
  BY <1>3, ShapeTail
<1>5. t \in Seq(Ops) /\ Todo(Locked) = {Head(Locked)} \cup Todo(t) /\ WorkShape(Locked)
  BY <1>3, <1>4, WorkTail DEF Plain, LockShape, WorkShape
<1>6. t # <<>> => Head(t) \in Todo(t)
  BY <1>5, TailProg
<1>7. ~Removing("lock") /\ ~Adding("lock")
  BY <1>3, <1>5, WorkStatic DEF Removing, Doing, Adding, Locked
<1> HIDE DEF t
<1>8. Locked' = t => ~Has(Locked', "add")
                     /\ (Locked' # <<>> => Head(Locked').op \notin {"unlink", "call_rcu"})
  BY <1>4, <1>6 DEF Plain, Has
<1>9. /\ ~Has(Locked', "add")
      /\ Locked' # <<>> => Head(Locked').op \notin {"unlink", "call_rcu"}
  <2>1. \A o \in Todo(t) : o.op # "add"
    BY <1>4 DEF Plain
  <2>2. /\ Set("OPEN").op = "set" /\ Do("unpublish").op = "unpublish" /\ Del(BssId).op = "del"
        /\ Set("STOP").op = "set"
    BY OpFacts
  <2>3. CASE free_connected
    <3>1. /\ Head(Locked') \in {Set("OPEN"), Do("unpublish")}
          /\ Todo(Locked') = {Head(Locked'), Do("unpublish")} \cup Todo(t)
      BY <2>3, LockEffect DEF t
    <3> QED BY <2>1, <2>2, <3>1 DEF Has
  <2>4. CASE unpublish \/ stop_state \/ stop_want
    <3>1. \/ Locked' = t
          \/ /\ Head(Locked') \in {Del(BssId), Set("STOP")}
             /\ Todo(Locked') = {Head(Locked')} \cup Todo(t)
      BY <2>4, LockEffect DEF t
    <3> QED BY <1>8, <2>1, <2>2, <3>1 DEF Has
  <2>5. CASE publish \/ set_state \/ synchronize_rcu \/ stop_return
    BY <1>1, <1>8, <2>5
  <2> QED BY <2>3, <2>4, <2>5 DEF LockWork
<1>10. ~Removing("lock")' /\ ~Adding("lock")'
  BY <1>9 DEF Removing, Doing, Busy, Adding, Locked
<1>11. /\ publish => Head(Locked).op = "publish" /\ Locked' = t
       /\ synchronize_rcu => Head(Locked).op = "sync" /\ Locked' = t
       /\ stop_return => Head(Locked).op = "return" /\ Locked' = t
       /\ set_state => Locked' = t
  BY <1>1 DEF publish, synchronize_rcu, stop_return, Doing, Locked
<1>12. Locked' # <<>> /\ ~free_connected /\ ~unpublish /\ ~stop_state /\ ~stop_want =>
              Head(Locked') \in Todo(t)
  BY <1>1, <1>6 DEF LockWork
<1>13. synchronize_rcu => Doing("lock", "return")'
  BY <1>4, <1>11 DEF Doing, Busy, Locked
<1>14. publish => Locked' # <<>> /\ Head(Locked') = Set("CONNECTED")
  BY <1>4, <1>11
<1>15. /\ stop_return => Locked' = <<>>
       /\ set_state /\ Head(Locked) = Set("CONNECTED") => Locked' = <<>>
  BY <1>4, <1>11
<1> QED BY <1>1, <1>2, <1>4, <1>5, <1>7, <1>10, <1>11, <1>12, <1>13, <1>14, <1>15 DEF t

\* A program of one operation.
LEMMA SingleProg ==
  ASSUME NEW a \in Ops, a.op \in {"free_connected", "set"}, a # Set("CONNECTED")
  PROVE  /\ <<a>> \in Seq(Ops) /\ LockShape(<<a>>) /\ <<a>> # <<>> /\ Head(<<a>>) = a
         /\ Todo(<<a>>) = {a}
<1>1. /\ <<a>> \in Seq(Ops) /\ <<a>> # <<>> /\ Head(<<a>>) = a /\ <<a>>[1] = a
      /\ DOMAIN <<a>> = {1} /\ Len(<<a>>) = 1
  OBVIOUS
<1> DEFINE q == <<a>>
<1> HIDE DEF q
<1>2. /\ q \in Seq(Ops) /\ q # <<>> /\ Head(q) = a /\ q[1] = a /\ DOMAIN q = {1} /\ Len(q) = 1
  BY <1>1 DEF q
<1>3. LockShape(q)
  BY <1>2 DEF LockShape, WorkShape
<1>4. Todo(q) = {a}
  BY <1>2 DEF Todo
<1> QED BY <1>2, <1>3, <1>4 DEF q

\* What a request or a work item sets out to do.
LEMMA BeginMoves ==
  ASSUME TypeOK, ProgInv, Begin
  PROVE  /\ prog' \in [Ctx -> Seq(Ops)] /\ ProgInv' /\ prog'["event"] = prog["event"]
         /\ \A c \in Ctx : Removing(c)' <=> Removing(c)
         /\ ~Adding("lock") /\ Locked = <<>>
         /\ \A c \in Ctx \ {"lock"} : Adding(c)' <=> Adding(c)
         /\ \/ (\E b \in Bss \cup {NoBss} : connect(b)) /\ prog' = prog
            \/ /\ connect_work_failed /\ Locked' = Locked /\ prog["tail"] = <<>>
               /\ prog'["tail"] # <<>> /\ Head(prog'["tail"]).op = "del"
            \/ /\ disconnect /\ Locked' # <<>> /\ prog'["tail"] = prog["tail"]
               /\ Head(Locked') = Do("free_connected") /\ Todo(Locked') = {Do("free_connected")}
            \/ /\ open /\ Locked' # <<>> /\ prog'["tail"] = prog["tail"]
               /\ Head(Locked') = Set("OPEN") /\ Todo(Locked') = {Set("OPEN")}
            \/ /\ stop /\ Locked' # <<>> /\ prog'["tail"] = prog["tail"]
               /\ Head(Locked') = IF state = "CONNECTED" THEN Do("free_connected")
                                  ELSE Do("stop_state")
               /\ {Do("sync"), Do("return"), Do("stop_state")} \subseteq Todo(Locked')
               /\ \A i \in 0 .. MaxSta - 1 : Del(i) \in Todo(Locked')
               /\ \A o \in Todo(Locked') :
                    o.op \in {"free_connected", "stop_state", "stop_want", "del", "sync", "return"}
            \/ \E s \in Sta :
               /\ connect_work(s) /\ Locked' # <<>> /\ prog'["tail"] = prog["tail"]
               /\ Head(Locked') = Del(BssId)
               /\ Todo(Locked') = {Del(BssId), Do("add"), Do("publish"), Set("CONNECTED")}
<1>0. /\ "lock" \in Ctx /\ "tail" \in Ctx /\ "event" \in Ctx /\ prog \in [Ctx -> Seq(Ops)]
      /\ \A c \in Ctx : c = "lock" \/ c = "tail" \/ c = "event"
  BY CtxFacts
<1>i. Locked = <<>>
  BY BeginFrame DEF Idle, Locked
<1>a. /\ ~Adding("lock") /\ ~Removing("lock")
  BY <1>i, EmptyProg DEF Adding, Has, Removing, Doing, Busy, Locked
<1>1. ASSUME NEW p, LockShape(p), Start("lock", p), p # <<>>,
             Head(p).op \notin {"unlink", "call_rcu"}
      PROVE  /\ prog' \in [Ctx -> Seq(Ops)] /\ ProgInv' /\ prog'["event"] = prog["event"]
             /\ Locked' = p /\ prog'["tail"] = prog["tail"]
             /\ \A c \in Ctx : Removing(c)' <=> Removing(c)
             /\ \A c \in Ctx \ {"lock"} : Adding(c)' <=> Adding(c)
  <2>1. prog' = [prog EXCEPT !["lock"] = p] /\ Shape("lock", p)
    BY <1>0, <1>1 DEF Start, Shape
  <2>2. /\ prog' \in [Ctx -> Seq(Ops)] /\ ProgInv' /\ prog'["lock"] = p
        /\ \A d \in Ctx \ {"lock"} : prog'[d] = prog[d]
    BY <1>0, <2>1, ShapeKept
  <2>3. ~Removing("lock")'
    BY <1>1, <2>2 DEF Removing, Doing
  <2>4. \A c \in Ctx \ {"lock"} : (Removing(c)' <=> Removing(c)) /\ (Adding(c)' <=> Adding(c))
    BY <2>2 DEF Removing, Doing, Busy, Adding
  <2> QED BY <1>0, <1>a, <2>2, <2>3, <2>4 DEF Locked
<1>2. CASE \E b \in Bss \cup {NoBss} : connect(b)
  <2>1. prog' = prog
    BY <1>2 DEF connect, ctl
  <2> QED BY <1>0, <1>i, <1>a, <1>2, <2>1
          DEF ProgInv, Locked, Removing, Adding, Doing, Busy
<1>3. CASE connect_work_failed
  <2> DEFINE p == <<Del(BssId)>>
  <2>1. Start("tail", p) /\ prog["tail"] = <<>>
    BY <1>3 DEF connect_work_failed, Idle
  <2>2. BssId \in Ids
    BY StaTableAssumption DEF Ids
  <2>3. SideShape(p) /\ p # <<>> /\ Head(p) = Del(BssId) /\ Todo(p) = {Del(BssId)}
    BY <2>2, SideProg
  <2> HIDE DEF p
  <2>4. Shape("tail", p) /\ ~Has(p, "add") /\ prog' = [prog EXCEPT !["tail"] = p]
    BY <1>0, <2>1, <2>3, OpFacts DEF Shape, Has, Start
  <2>5. /\ prog' \in [Ctx -> Seq(Ops)] /\ ProgInv' /\ prog'["tail"] = p
        /\ \A d \in Ctx \ {"tail"} : prog'[d] = prog[d]
    BY <1>0, <2>4, ShapeKept
  <2>6. ~Removing("tail") /\ ~Removing("tail")' /\ ~Adding("tail") /\ ~Adding("tail")'
    BY <2>1, <2>3, <2>4, <2>5, OpFacts DEF Removing, Doing, Busy, Adding, ProgInv
  <2>7. \A c \in Ctx \ {"tail"} : (Removing(c)' <=> Removing(c)) /\ (Adding(c)' <=> Adding(c))
    BY <2>5 DEF Removing, Doing, Busy, Adding
  <2>8. \A c \in Ctx : (Removing(c)' <=> Removing(c)) /\ (Adding(c)' <=> Adding(c))
    BY <1>0, <2>6, <2>7
  <2>9. Locked' = Locked /\ prog'["event"] = prog["event"] /\ Head(p).op = "del"
    BY <1>0, <2>3, <2>5, OpFacts DEF Locked
  <2> QED BY <1>i, <1>a, <1>3, <2>1, <2>3, <2>5, <2>8, <2>9
<1>4. CASE disconnect
  <2>1. Start("lock", <<Do("free_connected")>>)
    BY <1>4 DEF disconnect
  <2>2. /\ Do("free_connected") \in Ops /\ Do("free_connected").op = "free_connected"
        /\ Do("free_connected") # Set("CONNECTED")
    <3>1. Do("free_connected").op = "free_connected" /\ Set("CONNECTED").op = "set"
      BY OpFacts
    <3> QED BY <3>1, OpFacts
  <2> QED BY <1>1, <1>i, <1>a, <1>4, <2>1, <2>2, SingleProg
<1>5. CASE open
  <2>1. Start("lock", <<Set("OPEN")>>)
    BY <1>5 DEF open
  <2>2. Set("OPEN") \in Ops /\ Set("OPEN").op = "set" /\ Set("OPEN") # Set("CONNECTED")
    <3>1. Set("OPEN").to = "OPEN" /\ Set("CONNECTED").to = "CONNECTED"
      BY OpFacts
    <3> QED BY <3>1, OpFacts DEF State
  <2> QED BY <1>1, <1>i, <1>a, <1>5, <2>1, <2>2, SingleProg
<1>6. CASE stop
  <2> DEFINE v == state = "CONNECTED"
             p == When(v, <<Do("free_connected")>>) \o <<Do("stop_state"), Do("stop_want")>>
                  \o Sweep \o <<Do("sync"), Do("return")>>
  <2>1. Start("lock", p)
    BY <1>6 DEF stop
  <2>2. /\ LockShape(p) /\ p # <<>>
        /\ Head(p) = IF v THEN Do("free_connected") ELSE Do("stop_state")
        /\ {Do("sync"), Do("return"), Do("stop_state")} \subseteq Todo(p)
        /\ \A i \in 0 .. MaxSta - 1 : Del(i) \in Todo(p)
        /\ \A o \in Todo(p) : o.op \in {"free_connected", "stop_state", "stop_want",
                                        "del", "sync", "return"}
    <3>1. v \in BOOLEAN
      OBVIOUS
    <3> HIDE DEF v
    <3> QED BY <3>1, StopProg
  <2> HIDE DEF p
  <2>3. Head(p).op \in {"free_connected", "stop_state"}
    BY <2>2, OpFacts
  <2>4. /\ prog' \in [Ctx -> Seq(Ops)] /\ ProgInv' /\ prog'["event"] = prog["event"]
        /\ Locked' = p /\ prog'["tail"] = prog["tail"]
        /\ \A c \in Ctx : Removing(c)' <=> Removing(c)
        /\ \A c \in Ctx \ {"lock"} : Adding(c)' <=> Adding(c)
    BY <1>1, <2>1, <2>2, <2>3
  <2> QED BY <1>i, <1>a, <1>6, <2>2, <2>4
<1>7. CASE \E s \in Sta : connect_work(s)
  <2> DEFINE p == <<Del(BssId), Do("add")>> \o <<Do("publish"), Set("CONNECTED")>>
  <2>1. PICK s \in Sta : connect_work(s)
    BY <1>7
  <2>2. Start("lock", p)
    BY <2>1 DEF connect_work, Alloc
  <2>3. /\ LockShape(p) /\ p # <<>> /\ Head(p) = Del(BssId)
        /\ Todo(p) = {Del(BssId), Do("add"), Do("publish"), Set("CONNECTED")}
    BY ConnectProg
  <2> HIDE DEF p
  <2>4. Head(p).op = "del"
    BY <2>3, OpFacts
  <2>5. /\ prog' \in [Ctx -> Seq(Ops)] /\ ProgInv' /\ prog'["event"] = prog["event"]
        /\ Locked' = p /\ prog'["tail"] = prog["tail"]
        /\ \A c \in Ctx : Removing(c)' <=> Removing(c)
        /\ \A c \in Ctx \ {"lock"} : Adding(c)' <=> Adding(c)
    BY <1>1, <2>2, <2>3, <2>4
  <2> QED BY <1>i, <1>a, <2>1, <2>3, <2>5
<1> QED BY <1>2, <1>3, <1>4, <1>5, <1>6, <1>7 DEF Begin

\* What a station event sets out to do.
LEMMA EventMoves ==
  ASSUME TypeOK, ProgInv, Events
  PROVE  /\ prog' \in [Ctx -> Seq(Ops)] /\ ProgInv' /\ ~Adding("event")
         /\ \A d \in Ctx \ {"event"} : prog'[d] = prog[d]
         /\ \A c \in Ctx : Removing(c)' <=> Removing(c)
         /\ \/ /\ ~Adding("event")' /\ UNCHANGED <<table, new, raced, lost>>
            \/ \E p \in Peer, s \in Sta :
                 /\ Fresh("event", s, p) /\ Adding("event")'
                 /\ Doing("event", "del")' /\ Arg("event")' = p
<1>0. /\ "lock" \in Ctx /\ "tail" \in Ctx /\ "event" \in Ctx /\ prog \in [Ctx -> Seq(Ops)]
  BY CtxFacts
<1>1. ASSUME NEW q, SideShape(q), Start("event", q), q # <<>>, Head(q).op = "del"
      PROVE  /\ prog' \in [Ctx -> Seq(Ops)] /\ ProgInv' /\ prog'["event"] = q
             /\ \A d \in Ctx \ {"event"} : prog'[d] = prog[d]
             /\ \A c \in Ctx : Removing(c)' <=> Removing(c)
  <2>1. Shape("event", q) /\ prog' = [prog EXCEPT !["event"] = q]
    BY <1>1 DEF Shape, Start
  <2>2. /\ prog' \in [Ctx -> Seq(Ops)] /\ ProgInv' /\ prog'["event"] = q
        /\ \A d \in Ctx \ {"event"} : prog'[d] = prog[d]
    BY <1>0, <2>1, ShapeKept
  <2>3. \A c \in Ctx \ {"event"} : Removing(c)' <=> Removing(c)
    BY <2>2 DEF Removing, Doing, Busy
  <2>4. ~Removing("event")' /\ ~Removing("event")
    BY <1>1, <2>2, EventFrame DEF Removing, Doing, Busy, Idle
  <2> QED BY <2>2, <2>3, <2>4
<1>2. ~Adding("event")
  BY EventFrame, EmptyProg DEF Idle, Adding, Has
<1>3. ASSUME NEW p \in Peer, NEW s \in Sta, c2h_add_sta_event(s, p)
      PROVE  /\ Fresh("event", s, p) /\ Start("event", <<Del(p), Do("add")>> \o <<>>)
             /\ p \in Ids
  BY <1>3 DEF c2h_add_sta_event, Alloc, Ids
<1>4. CASE \E p \in Peer, s \in Sta : c2h_add_sta_event(s, p)
  <2>1. PICK p \in Peer, s \in Sta : c2h_add_sta_event(s, p)
    BY <1>4
  <2> DEFINE q == <<Del(p), Do("add")>> \o <<>>
  <2>2. Fresh("event", s, p) /\ Start("event", q) /\ p \in Ids
    BY <1>3, <2>1
  <2>3. SideShape(q) /\ q # <<>> /\ Head(q) = Del(p) /\ Todo(q) = {Del(p), Do("add")}
    BY <2>2, SideProg
  <2>4. Head(q).op = "del" /\ Head(q).id = p /\ Has(q, "add")
    BY <2>3, OpFacts DEF Has
  <2> HIDE DEF q
  <2>5. /\ prog' \in [Ctx -> Seq(Ops)] /\ ProgInv' /\ prog'["event"] = q
        /\ \A d \in Ctx \ {"event"} : prog'[d] = prog[d]
        /\ \A c \in Ctx : Removing(c)' <=> Removing(c)
    BY <1>1, <2>2, <2>3, <2>4
  <2>6. Adding("event")' /\ Doing("event", "del")' /\ Arg("event")' = p
    BY <2>3, <2>4, <2>5 DEF Adding, Doing, Busy, Arg
  <2> QED BY <1>2, <2>2, <2>5, <2>6
<1>5. CASE \E i \in Ids : c2h_del_sta_event(i)
  <2>1. PICK i \in Ids : c2h_del_sta_event(i)
    BY <1>5
  <2> DEFINE q == <<Del(i)>>
  <2>2. Start("event", q) /\ UNCHANGED <<table, new, raced, lost>>
    BY <2>1 DEF c2h_del_sta_event, hist
  <2>3. SideShape(q) /\ q # <<>> /\ Head(q) = Del(i) /\ Todo(q) = {Del(i)}
    BY SideProg
  <2>4. Head(q).op = "del" /\ ~Has(q, "add")
    BY <2>3, OpFacts DEF Has
  <2> HIDE DEF q
  <2>5. /\ prog' \in [Ctx -> Seq(Ops)] /\ ProgInv' /\ prog'["event"] = q
        /\ \A d \in Ctx \ {"event"} : prog'[d] = prog[d]
        /\ \A c \in Ctx : Removing(c)' <=> Removing(c)
    BY <1>1, <2>2, <2>3, <2>4
  <2>6. ~Adding("event")'
    BY <2>4, <2>5 DEF Adding
  <2> QED BY <1>2, <2>2, <2>5, <2>6
<1> QED BY <1>4, <1>5 DEF Events

-----------------------------------------------------------------------------
(* Types *)

\* The stations in hand: the one r92su_sta_del found and the one r92su_sta_alloc got.
LEMMA InHand ==
  ASSUME TypeOK, ProgInv, FoundInv, NewInv, NEW c \in Ctx
  PROVE  /\ Removing(c) => found[c] \in Sta /\ found[c] # NoSta /\ Safe(c, found[c])
         /\ Doing(c, "call_rcu") => life[found[c]] \in {"unlinked", "dying"}
         /\ Doing(c, "unlink") => life[found[c]] \in {"listed", "unlinked", "dying"}
         /\ Doing(c, "add") => new[c] \in Sta /\ life[new[c]] = "new" /\ Adding(c)
         /\ ~Removing(c) => found[c] = NoSta
<1>1. found[c] \in Sta \cup {NoSta}
  BY DEF TypeOK
<1>2. Doing(c, "add") => Adding(c)
  BY Shapes DEF Doing, Adding, Has
<1> QED BY <1>1, <1>2 DEF FoundInv, NewInv, Safe, Removing

\* The list without a station that it does not hold.
LEMMA UnlinkedElse ==
  ASSUME TypeOK, ListInv, NEW s \in Sta, life[s] # "listed"
  PROVE  Unlinked(s) = sta_list
<1>1. sta_list \in Seq(Sta)
  BY DEF TypeOK
<1>2. DOMAIN sta_list = 1 .. Len(sta_list)
  BY <1>1
<1>3. ~Contains(sta_list, s)
  BY <1>2 DEF ListInv, Contains
<1> QED BY <1>3 DEF Unlinked

\* The type of everything but the programs.
Types ==
    /\ state \in State /\ down \in BOOLEAN
    /\ want \in Bss \cup {NoBss} /\ connect_bss \in Bss \cup {NoBss}
    /\ bss_sta \in [Bss -> Sta \cup {NoSta}]
    /\ sta_list \in Seq(Sta) /\ sta_num \in Int
    /\ mac_id \in [Sta -> Ids] /\ life \in [Sta -> Life]
    /\ grace \in [Sta -> SUBSET (Reader \cup Ctx)] /\ sync \subseteq Reader \cup Ctx
    /\ new \in [Ctx -> Sta \cup {NoSta}] /\ found \in [Ctx -> Sta \cup {NoSta}]
    /\ rcu \in [Reader -> RcuPC] /\ seen \in [Reader -> Bss \cup {NoBss}]
    /\ held \in [Reader -> Sta \cup {NoSta}]
    /\ raced \in BOOLEAN /\ lost \in [Sta -> Ctx \cup {"nobody"}] /\ late \subseteq Sta

\* r92su_sta_del and the list_add_rcu of r92su_sta_alloc keep the types.
LEMMA TypesWork ==
  ASSUME TypeOK, ProgInv, FoundInv, ListInv, NewInv, NEW c \in Ctx, Work(c)
  PROVE  Types'
<1>0. Types
  BY DEF TypeOK, Types
<1>1. CASE del_lookup(c)
  <2>1. found \in [Ctx -> Sta \cup {NoSta}] /\ raced \in BOOLEAN
    BY <1>0 DEF Types
  <2>2. \/ UNCHANGED <<found, raced>>
        \/ \E s \in Listed(Arg(c)) : /\ found' = [found EXCEPT ![c] = s]
                                     /\ raced' = (raced \/ \E d \in Ctx : found[d] = s)
    BY <1>1, WorkMoves
  <2>3. found' \in [Ctx -> Sta \cup {NoSta}]
    BY <2>1, <2>2 DEF Listed
  <2>4. raced' \in BOOLEAN
    BY <2>1, <2>2, Zenon
  <2> QED BY <1>0, <1>1, <2>3, <2>4 DEF del_lookup, Types, bss, table, reader
<1>2. CASE del_unlink(c)
  <2>1. found[c] \in Sta
    BY <1>2, InHand DEF del_unlink, Removing
  <2>2. sta_list' \in Seq(Sta)
    BY <1>0, <1>2, <2>1, UnlinkedFacts, UnlinkedElse DEF del_unlink, Types
  <2>3. lost' \in [Sta -> Ctx \cup {"nobody"}]
    BY <1>0, <1>2, <2>1 DEF del_unlink, Types
  <2>4. life' \in [Sta -> Life]
    BY <1>0, <1>2, <2>1 DEF del_unlink, Types, Life
  <2>5. sta_num' \in Int
    BY <1>0, <1>2 DEF del_unlink, Types
  <2> QED BY <1>0, <1>2, <2>2, <2>3, <2>4, <2>5 DEF del_unlink, Types, bss, reader
<1>3. CASE del_call_rcu(c)
  <2>0. found[c] \in Sta
    BY <1>3, InHand DEF del_call_rcu, Removing
  <2>1. life' \in [Sta -> Life]
    BY <1>0, <1>3 DEF del_call_rcu, Types, Life
  <2>2. found' \in [Ctx -> Sta \cup {NoSta}]
    BY <1>0, <1>3 DEF del_call_rcu, Types
  <2>3. Inside \subseteq Reader \cup Ctx
    BY DEF Inside
  <2>4. grace' \in [Sta -> SUBSET (Reader \cup Ctx)]
    BY <1>0, <1>3, <2>3 DEF del_call_rcu, Types
  <2>5. sync' \subseteq Reader \cup Ctx
    BY <1>0, <1>3 DEF del_call_rcu, Types
  <2>6. late' \subseteq Sta
    BY <1>0, <1>3, <2>0 DEF del_call_rcu, Types
  <2> QED BY <1>0, <1>3, <2>1, <2>2, <2>4, <2>5, <2>6 DEF del_call_rcu, Types, bss, reader
<1>4. CASE sta_add(c)
  <2>1. new[c] \in Sta
    BY <1>4, InHand DEF sta_add
  <2>2. sta_list' \in Seq(Sta)
    BY <1>0, <1>4, <2>1, ConsProg DEF sta_add, Types
  <2>3. life' \in [Sta -> Life]
    BY <1>0, <1>4 DEF sta_add, Types, Life
  <2>4. new' \in [Ctx -> Sta \cup {NoSta}]
    BY <1>0, <1>4 DEF sta_add, Types
  <2>5. sta_num' \in Int
    BY <1>0, <1>4 DEF sta_add, Types
  <2>6. late' \subseteq Sta
    BY <1>0, <1>4, <2>1 DEF sta_add, Types
  <2> QED BY <1>0, <1>4, <2>2, <2>3, <2>4, <2>5, <2>6 DEF sta_add, Types, bss, reader
<1> QED BY <1>1, <1>2, <1>3, <1>4 DEF Work, sta_del

\* So do the other operations of the lock holder.
LEMMA TypesLock ==
  ASSUME TypeOK, ProgInv, NewInv, LockWork
  PROVE  Types'
<1>0. Types
  BY DEF TypeOK, Types
<1>1. UNCHANGED <<sta_list, sta_num, mac_id, life, grace, found, rcu, seen, held, raced, lost>>
  BY LockFrame DEF table, reader
<1>2. Head(Locked) \in Todo(Locked) /\ Head(Locked) \in Ops
  BY LockMoves, LockFrame, Shapes, CtxFacts DEF Locked
<1>3. CASE publish
  <2>1. new["lock"] \in Sta /\ want \in Bss
    BY <1>2, <1>3 DEF publish, NewInv, Has, Doing, Locked
  <2>2. bss_sta' \in [Bss -> Sta \cup {NoSta}] /\ want' = NoBss /\ connect_bss' \in Bss
    BY <1>0, <1>3, <2>1 DEF publish, Types
  <2>3. new' \in [Ctx -> Sta \cup {NoSta}]
    BY <1>0, <1>3 DEF publish, Types
  <2> QED BY <1>0, <1>1, <1>3, <2>2, <2>3 DEF publish, Types, hist
<1>4. CASE set_state
  <2>1. state' \in State
    BY <1>2, <1>4, OpForms DEF set_state, Doing, Locked
  <2>2. down' \in BOOLEAN
    BY <1>0, <1>4 DEF set_state, Types
  <2>3. late' \subseteq Sta
    BY <1>0, <1>4 DEF set_state, Types
  <2> QED BY <1>0, <1>1, <1>4, <2>1, <2>2, <2>3 DEF set_state, Types, bss
<1>5. CASE free_connected
  BY <1>0, <1>1, <1>5 DEF free_connected, Types, bss, hist
<1>6. CASE unpublish
  BY <1>0, <1>1, <1>6 DEF unpublish, Types, hist
<1>7. CASE stop_state
  BY <1>0, <1>1, <1>7 DEF stop_state, Types, bss, hist
<1>8. CASE stop_want
  BY <1>0, <1>1, <1>8 DEF stop_want, Types, hist
<1>9. CASE synchronize_rcu
  BY <1>0, <1>1, <1>9 DEF synchronize_rcu, Types, Inside, bss, hist
<1>10. CASE stop_return
  BY <1>0, <1>1, <1>10 DEF stop_return, Types, bss, hist
<1> QED BY <1>3, <1>4, <1>5, <1>6, <1>7, <1>8, <1>9, <1>10 DEF LockWork

\* So does kzalloc.
LEMMA AllocTypes ==
  ASSUME Types, NEW c \in Ctx, NEW s \in Sta, NEW i \in Ids, Fresh(c, s, i)
  PROVE  /\ new' \in [Ctx -> Sta \cup {NoSta}] /\ mac_id' \in [Sta -> Ids]
         /\ life' \in [Sta -> Life] /\ lost' \in [Sta -> Ctx \cup {"nobody"}]
         /\ raced' \in BOOLEAN
<1>1. /\ new' \in [Ctx -> Sta \cup {NoSta}] /\ mac_id' \in [Sta -> Ids]
      /\ life' \in [Sta -> Life] /\ lost' \in [Sta -> Ctx \cup {"nobody"}]
  BY DEF Types, Fresh, Life
<1>2. raced' \in BOOLEAN
  BY Zenon DEF Types, Fresh
<1> QED BY <1>1, <1>2

\* So do readers, the start of a program, the firmware and the callbacks of call_rcu.
LEMMA TypesOther ==
  ASSUME TypeOK, ProgInv, RcuInv,
         \/ Begin \/ Events \/ mark_dead \/ (\E s \in Sta : free_sta_rcu(s))
         \/ (\E r \in Reader : Read(r)) \/ UNCHANGED vars
  PROVE  Types'
<1>0. Types /\ "lock" \in Ctx /\ "event" \in Ctx
  BY DEF TypeOK, Types, Ctx
<1>1. CASE Begin
  <2>1. UNCHANGED <<state, connect_bss, bss_sta, sta_list, sta_num, grace, found, rcu, seen,
                    held, sync, down, late>>
    BY <1>1, BeginFrame DEF reader
  <2>2. CASE \E s \in Sta : connect_work(s)
    <3>1. PICK s \in Sta : connect_work(s)
      BY <2>2
    <3>2. Fresh("lock", s, BssId) /\ UNCHANGED want /\ BssId \in Ids
      BY <3>1, StaTableAssumption DEF connect_work, Alloc, bss, Ids
    <3> QED BY <1>0, <2>1, <3>2, AllocTypes DEF Types
  <2>3. CASE \E b \in Bss \cup {NoBss} : connect(b)
    BY <1>0, <2>1, <2>3 DEF connect, Types, table, ctl, hist
  <2>4. CASE connect_work_failed \/ disconnect \/ open \/ stop
    BY <1>0, <2>1, <2>4 DEF connect_work_failed, disconnect, open, stop, Types, table, bss, hist
  <2> QED BY <1>1, <2>2, <2>3, <2>4 DEF Begin
<1>2. CASE Events
  <2>1. UNCHANGED <<state, want, connect_bss, bss_sta, sta_list, sta_num, grace, found, rcu,
                    seen, held, sync, down, late>>
    BY <1>2, EventFrame DEF reader, bss
  <2>2. CASE UNCHANGED <<table, new, raced, lost>>
    BY <1>0, <2>1, <2>2 DEF Types, table
  <2>3. CASE \E p \in Peer, s \in Sta : Fresh("event", s, p)
    <3>1. PICK p \in Peer, s \in Sta : Fresh("event", s, p)
      BY <2>3
    <3>2. p \in Ids
      BY DEF Ids
    <3> QED BY <1>0, <2>1, <3>1, <3>2, AllocTypes DEF Types
  <2> QED BY <1>2, <2>2, <2>3, EventMoves
<1>3. CASE mark_dead
  BY <1>0, <1>3 DEF mark_dead, Types, State, bss, table, ctl, reader, hist
<1>4. CASE \E s \in Sta : free_sta_rcu(s)
  <2>1. PICK s \in Sta : free_sta_rcu(s)
    BY <1>4
  <2>2. 0 \in Ids
    BY StaTableAssumption DEF Ids
  <2>3. life' \in [Sta -> Life] /\ mac_id' \in [Sta -> Ids]
    BY <1>0, <2>1, <2>2 DEF free_sta_rcu, Types, Life
  <2>4. lost' \in [Sta -> Ctx \cup {"nobody"}] /\ late' \subseteq Sta
    BY <1>0, <2>1 DEF free_sta_rcu, Types
  <2> QED BY <1>0, <2>1, <2>3, <2>4 DEF free_sta_rcu, Types, bss, ctl, reader
<1>5. CASE \E r \in Reader : Read(r)
  <2>1. PICK r \in Reader : Read(r)
    BY <1>5
  <2>2. UNCHANGED <<state, want, connect_bss, bss_sta, sta_list, sta_num, mac_id, life, new,
                    found, down, raced, lost, late>>
    BY <2>1, ReadFrame DEF bss, table, ctl, hist
  <2>3. rcu' \in [Reader -> RcuPC]
    BY <1>0, <2>1 DEF Read, read_lock, read_state, read_bss, read_find, read_bss_sta,
       read_list, reorder_tid_timer, read_unlock, Goto, Types, RcuPC
  <2>4. seen' \in [Reader -> Bss \cup {NoBss}]
    BY <1>0, <2>1 DEF Read, read_lock, read_state, read_bss, read_find, read_bss_sta,
       read_list, reorder_tid_timer, read_unlock, See, Types
  <2>5. \A n \in DOMAIN sta_list : sta_list[n] \in Sta
    BY <1>0 DEF Types
  <2>7. held' \in [Reader -> Sta \cup {NoSta}]
    <3>1. CASE read_bss_sta(r)
      <4>1. bss_sta[seen[r]] \in Sta \cup {NoSta}
        BY <1>0, <3>1 DEF Types, read_bss_sta, RcuInv
      <4> QED BY <1>0, <3>1, <4>1 DEF read_bss_sta, Hold, Types
    <3>2. CASE ~read_bss_sta(r)
      BY <1>0, <2>1, <2>5, <3>2 DEF Read, read_lock, read_state, read_bss, read_find,
         read_list, reorder_tid_timer, read_unlock, Hold, Types
    <3> QED BY <3>1, <3>2
  <2>8. grace' \in [Sta -> SUBSET (Reader \cup Ctx)] /\ sync' \subseteq Reader \cup Ctx
    BY <1>0, <2>1 DEF Read, read_lock, read_state, read_bss, read_find, read_bss_sta,
       read_list, reorder_tid_timer, read_unlock, Types
  <2> QED BY <1>0, <2>2, <2>3, <2>4, <2>7, <2>8 DEF Types
<1>6. CASE UNCHANGED vars
  BY <1>0, <1>6 DEF vars, bss, table, ctl, reader, hist, Types
<1> QED BY <1>1, <1>2, <1>3, <1>4, <1>5, <1>6

\* Every step keeps the types and the shapes of the programs.
LEMMA TypeNext ==
  ASSUME TypeOK, ProgInv, FoundInv, ListInv, NewInv, RcuInv, [Next]_vars
  PROVE  TypeOK' /\ ProgInv'
<1>1. CASE \E c \in Ctx : Work(c)
  BY <1>1, TypesWork, WorkMoves DEF TypeOK, Types
<1>2. CASE LockWork
  BY <1>2, TypesLock, LockMoves DEF TypeOK, Types
<1>3. CASE Begin
  BY <1>3, TypesOther, BeginMoves DEF TypeOK, Types
<1>4. CASE Events
  BY <1>4, TypesOther, EventMoves DEF TypeOK, Types
<1>5. CASE mark_dead \/ (\E s \in Sta : free_sta_rcu(s)) \/ (\E r \in Reader : Read(r))
           \/ UNCHANGED vars
  <2>1. prog' = prog
    BY <1>5, ReadFrame DEF mark_dead, free_sta_rcu, vars, ctl
  <2>2. prog' \in [Ctx -> Seq(Ops)] /\ ProgInv'
    BY <2>1 DEF TypeOK, ProgInv, Locked, Adding
  <2> QED BY <1>5, <2>2, TypesOther DEF TypeOK, Types
<1> QED BY <1>1, <1>2, <1>3, <1>4, <1>5, Steps

-----------------------------------------------------------------------------
(* The lives of the stations *)

\* A station that kzalloc gave: free before, and in nobody's hands.
LEMMA FreshFacts ==
  ASSUME TypeOK, NEW c \in Ctx, NEW u \in Sta, NEW i \in Ids, Fresh(c, u, i)
  PROVE  /\ life[u] = "free" /\ ~Named(u) /\ new'[c] = u
         /\ life'[u] = "new" /\ mac_id'[u] = i /\ lost'[u] = "nobody"
         /\ \A s \in Sta \ {u} :
              life'[s] = life[s] /\ mac_id'[s] = mac_id[s] /\ lost'[s] = lost[s]
         /\ \A d \in Ctx \ {c} : new'[d] = new[d]
  BY DEF Fresh, TypeOK

\* Who allocates, from where.
LEMMA AllocSteps ==
  ASSUME TypeOK, ProgInv, Begin \/ Events
  PROVE  \/ UNCHANGED <<sta_list, sta_num, mac_id, life, new, raced, lost>>
         \/ \E c \in {"lock", "event"}, u \in Sta, i \in Ids :
              /\ Fresh(c, u, i) /\ Adding(c)' /\ Idle(c)
              /\ Doing(c, "del")' /\ Arg(c)' = i
              /\ c = "lock" => i = BssId /\ Has(Locked, "publish")' /\ IsOpen /\ want # NoBss
              /\ c = "event" => Locked' = Locked
              /\ \A d \in Ctx \ {c} : Adding(d)' <=> Adding(d)
              /\ UNCHANGED want
<1>0. BssId \in Ids /\ "lock" \in Ctx
  BY StaTableAssumption DEF Ids, Ctx
<1>1. CASE Begin /\ \E s \in Sta : connect_work(s)
  <2>1. PICK s \in Sta : /\ connect_work(s) /\ Locked' # <<>> /\ Head(Locked') = Del(BssId)
                 /\ Todo(Locked') = {Del(BssId), Do("add"), Do("publish"), Set("CONNECTED")}
    <3>2. Start("lock", <<Del(BssId), Do("add")>> \o <<Do("publish"), Set("CONNECTED")>>)
      BY <1>1 DEF connect_work, Alloc
    <3>3. Locked' = <<Del(BssId), Do("add")>> \o <<Do("publish"), Set("CONNECTED")>>
      BY <1>0, <3>2, CtxFacts DEF Locked
    <3> QED BY <1>1, <3>3, ConnectProg
  <2>2. Fresh("lock", s, BssId) /\ UNCHANGED want /\ Idle("lock") /\ IsOpen /\ want # NoBss
    BY <2>1 DEF connect_work, Alloc, bss
  <2>3. Adding("lock")' /\ Doing("lock", "del")' /\ Arg("lock")' = BssId
    BY <2>1, OpFacts DEF Adding, Has, Doing, Busy, Arg, Locked
  <2>4. Has(Locked, "publish")'
    BY <2>1, OpFacts DEF Has
  <2>5. \A d \in Ctx \ {"lock"} : Adding(d)' <=> Adding(d)
    BY <1>1, BeginMoves
  <2> QED BY <1>0, <2>2, <2>3, <2>4, <2>5
<1>2. CASE Begin /\ ~(\E s \in Sta : connect_work(s))
  BY <1>2 DEF Begin, connect, connect_work_failed, disconnect, open, stop, table, ctl, hist
<1>3. CASE Events
  <2>1. CASE UNCHANGED <<table, new, raced, lost>>
    BY <2>1 DEF table
  <2>2. CASE \E p \in Peer, s \in Sta :
                 /\ Fresh("event", s, p) /\ Adding("event")'
                 /\ Doing("event", "del")' /\ Arg("event")' = p
    <3>1. Locked' = Locked /\ \A d \in Ctx \ {"event"} : Adding(d)' <=> Adding(d)
      BY <1>0, <1>3, EventMoves DEF Locked, Adding
    <3> QED BY <1>3, <2>2, <3>1, EventFrame DEF Ids, bss
  <2> QED BY <1>3, <2>1, <2>2, EventMoves
<1> QED BY <1>1, <1>2, <1>3

\* The life of a station, its mac id and what became of its connection, from step to step.
LEMMA LifeMoves ==
  ASSUME TypeOK, ProgInv, FoundInv, ListInv, NewInv, [Next]_vars, NEW s \in Sta
  PROVE  \/ life'[s] = life[s] /\ mac_id'[s] = mac_id[s] /\ lost'[s] = lost[s]
         \/ /\ life[s] = "free" /\ ~Named(s) /\ life'[s] = "new" /\ lost'[s] = "nobody"
            /\ Begin \/ Events
         \/ \E c \in Ctx : /\ sta_add(c) /\ s = new[c] /\ life[s] = "new" /\ Adding(c)
                           /\ life'[s] = "listed" /\ mac_id'[s] = mac_id[s] /\ lost'[s] = lost[s]
         \/ \E c \in Ctx : /\ del_unlink(c) /\ s = found[c] /\ life[s] = "listed"
                           /\ life'[s] = "unlinked" /\ mac_id'[s] = mac_id[s]
                           /\ lost'[s] = IF Displaces(c, s) THEN c ELSE lost[s]
         \/ \E c \in Ctx : /\ del_call_rcu(c) /\ s = found[c]
                           /\ life[s] \in {"unlinked", "dying"} /\ life'[s] = "dying"
                           /\ mac_id'[s] = mac_id[s] /\ lost'[s] = lost[s]
         \/ /\ free_sta_rcu(s) /\ life[s] = "dying" /\ grace[s] = {} /\ life'[s] = "free"
            /\ lost'[s] = lost[s] \/ ~Named(s)
<1>1. CASE \E c \in Ctx : del_lookup(c)
  BY <1>1 DEF del_lookup, table
<1>2. ASSUME NEW c \in Ctx, del_unlink(c)
      PROVE  \/ life'[s] = life[s] /\ mac_id'[s] = mac_id[s] /\ lost'[s] = lost[s]
             \/ /\ del_unlink(c) /\ s = found[c] /\ life[s] = "listed"
                /\ life'[s] = "unlinked" /\ mac_id'[s] = mac_id[s]
                /\ lost'[s] = IF Displaces(c, s) THEN c ELSE lost[s]
  <2>1. found[c] \in Sta
    BY <1>2, InHand DEF del_unlink, Removing
  <2>2. CASE s = found[c] /\ life[s] = "listed"
    BY <1>2, <2>1, <2>2 DEF del_unlink, TypeOK
  <2>3. CASE s # found[c] \/ life[s] # "listed"
    BY <1>2, <2>1, <2>3 DEF del_unlink, TypeOK
  <2> QED BY <2>2, <2>3
<1>3. ASSUME NEW c \in Ctx, del_call_rcu(c)
      PROVE  \/ life'[s] = life[s] /\ mac_id'[s] = mac_id[s] /\ lost'[s] = lost[s]
             \/ /\ del_call_rcu(c) /\ s = found[c]
                /\ life[s] \in {"unlinked", "dying"} /\ life'[s] = "dying"
                /\ mac_id'[s] = mac_id[s] /\ lost'[s] = lost[s]
  <2>1. found[c] \in Sta /\ life[found[c]] \in {"unlinked", "dying"}
    BY <1>3, InHand DEF del_call_rcu, Removing
  <2> QED BY <1>3, <2>1 DEF del_call_rcu, TypeOK
<1>4. ASSUME NEW c \in Ctx, sta_add(c)
      PROVE  \/ life'[s] = life[s] /\ mac_id'[s] = mac_id[s] /\ lost'[s] = lost[s]
             \/ /\ sta_add(c) /\ s = new[c] /\ life[s] = "new" /\ Adding(c)
                /\ life'[s] = "listed" /\ mac_id'[s] = mac_id[s] /\ lost'[s] = lost[s]
  <2>1. new[c] \in Sta /\ life[new[c]] = "new" /\ Adding(c)
    BY <1>4, InHand DEF sta_add
  <2> QED BY <1>4, <2>1 DEF sta_add, TypeOK
<1>5. CASE LockWork
  BY <1>5, LockFrame DEF table
<1>6. CASE Begin \/ Events
  <2>1. CASE UNCHANGED <<mac_id, life, lost>>
    BY <2>1
  <2>2. CASE \E c \in Ctx, u \in Sta, i \in Ids : Fresh(c, u, i)
    <3>1. PICK c \in Ctx, u \in Sta, i \in Ids : Fresh(c, u, i)
      BY <2>2
    <3>2. CASE s = u
      BY <1>6, <3>1, <3>2, FreshFacts
    <3>3. CASE s # u
      BY <3>1, <3>3, FreshFacts
    <3> QED BY <3>2, <3>3
  <2> QED BY <1>6, <2>1, <2>2, AllocSteps, CtxFacts
<1>7. CASE mark_dead \/ UNCHANGED vars
  BY <1>7 DEF mark_dead, vars, table, hist
<1>8. CASE \E u \in Sta : free_sta_rcu(u)
  <2>1. PICK u \in Sta : free_sta_rcu(u)
    BY <1>8
  <2> QED BY <2>1 DEF free_sta_rcu, TypeOK
<1>9. CASE \E r \in Reader : Read(r)
  BY <1>9, ReadFrame DEF table, hist
<1> QED BY <1>1, <1>2, <1>3, <1>4, <1>5, <1>6, <1>7, <1>8, <1>9, Steps DEF Work, sta_del

-----------------------------------------------------------------------------
(* The list *)

\* The list with a new station in front.
LEMMA AddFacts ==
  ASSUME TypeOK, ListInv, NEW u \in Sta, life[u] # "listed"
  PROVE  LET r == <<u>> \o sta_list IN
         /\ Len(r) = Len(sta_list) + 1
         /\ \A j \in DOMAIN r : r[j] = u \/ \E n \in DOMAIN sta_list : r[j] = sta_list[n]
         /\ \A s \in {u} \cup {sta_list[n] : n \in DOMAIN sta_list} : \E j \in DOMAIN r : r[j] = s
         /\ \A i, j \in DOMAIN r : r[i] = r[j] => i = j
<1> DEFINE q == sta_list
           r == <<u>> \o sta_list
<1>1. q \in Seq(Sta)
  BY DEF TypeOK
<1>2. /\ Len(q) \in Nat /\ Len(r) = Len(q) + 1 /\ r[1] = u
      /\ \A i \in DOMAIN r : i \in Nat /\ (i = 1 \/ (i - 1 \in DOMAIN q /\ r[i] = q[i - 1]))
      /\ \A i \in DOMAIN q : i \in Nat /\ r[i + 1] = q[i]
  BY <1>1, ConsProg
<1>3. 1 \in DOMAIN r /\ \A i \in DOMAIN q : i + 1 \in DOMAIN r
  BY <1>1
<1>4. \A n \in DOMAIN q : q[n] # u
  BY DEF ListInv
<1>5. \A m, n \in DOMAIN q : q[m] = q[n] => m = n
  BY DEF ListInv
<1> HIDE DEF q, r
<1>6. \A i, j \in DOMAIN r : r[i] = r[j] => i = j
  <2> SUFFICES ASSUME NEW i \in DOMAIN r, NEW j \in DOMAIN r, r[i] = r[j] PROVE i = j
    OBVIOUS
  <2>1. CASE i = 1 \/ j = 1
    BY <1>2, <1>4, <2>1
  <2>2. CASE i # 1 /\ j # 1
    <3>1. i - 1 = j - 1 /\ i \in Nat /\ j \in Nat
      BY <1>2, <1>5, <2>2
    <3> QED BY <3>1
  <2> QED BY <2>1, <2>2
<1>7. \A j \in DOMAIN r : r[j] = u \/ \E n \in DOMAIN q : r[j] = q[n]
  BY <1>2
<1>8. \A s \in {u} \cup {q[n] : n \in DOMAIN q} : \E j \in DOMAIN r : r[j] = s
  BY <1>2, <1>3
<1> QED BY <1>2, <1>6, <1>7, <1>8 DEF q, r

\* The list keeps holding the listed stations, each of them once.
LEMMA ListNext ==
  ASSUME TypeOK, ProgInv, FoundInv, ListInv, NewInv, [Next]_vars
  PROVE  ListInv'
<1>1. ASSUME NEW c \in Ctx, del_unlink(c) PROVE ListInv'
  <2>1. found[c] \in Sta
    BY <1>1, InHand DEF del_unlink, Removing
  <2>2. CASE life[found[c]] = "listed"
    <3> DEFINE r == Unlinked(found[c])
    <3>1. /\ \A j \in DOMAIN r : \E n \in DOMAIN sta_list : r[j] = sta_list[n] /\ r[j] # found[c]
          /\ \A n \in DOMAIN sta_list :
               sta_list[n] # found[c] => \E j \in DOMAIN r : r[j] = sta_list[n]
          /\ \A i, j \in DOMAIN r : r[i] = r[j] => i = j
      BY <2>1, <2>2, UnlinkedFacts
    <3>2. \A n \in DOMAIN sta_list : sta_list[n] \in Sta
      BY DEF TypeOK
    <3> HIDE DEF r
    <3>3. /\ sta_list' = r /\ life'[found[c]] = "unlinked"
          /\ \A s \in Sta \ {found[c]} : life'[s] = life[s]
      BY <1>1, <2>1, <2>2 DEF del_unlink, r, TypeOK
    <3> QED BY <2>1, <3>1, <3>2, <3>3 DEF ListInv
  <2>3. CASE life[found[c]] # "listed"
    <3>1. sta_list' = sta_list /\ life' = life
      BY <1>1, <2>1, <2>3, UnlinkedElse DEF del_unlink, TypeOK
    <3> QED BY <3>1 DEF ListInv
  <2> QED BY <2>2, <2>3
<1>2. ASSUME NEW c \in Ctx, sta_add(c) PROVE ListInv'
  <2> DEFINE u == new[c]
             r == <<u>> \o sta_list
  <2>1. u \in Sta /\ life[u] = "new"
    BY <1>2, InHand DEF sta_add
  <2>2. sta_list' = r /\ life'[u] = "listed" /\ \A s \in Sta \ {u} : life'[s] = life[s]
    BY <1>2, <2>1 DEF sta_add, TypeOK
  <2>3. /\ \A j \in DOMAIN r : r[j] = u \/ \E n \in DOMAIN sta_list : r[j] = sta_list[n]
        /\ \A s \in {u} \cup {sta_list[n] : n \in DOMAIN sta_list} : \E j \in DOMAIN r : r[j] = s
        /\ \A i, j \in DOMAIN r : r[i] = r[j] => i = j
    BY <2>1, AddFacts
  <2>4. \A n \in DOMAIN sta_list : sta_list[n] \in Sta
    BY DEF TypeOK
  <2> HIDE DEF u, r
  <2> QED BY <2>1, <2>2, <2>3, <2>4 DEF ListInv
<1>3. ASSUME ~(\E c \in Ctx : del_unlink(c)), ~(\E c \in Ctx : sta_add(c)) PROVE ListInv'
  <2>1. sta_list' = sta_list
    <3>1. CASE \E c \in Ctx : Work(c)
      BY <1>3, <3>1 DEF Work, sta_del, del_lookup, del_call_rcu, table
    <3>2. CASE LockWork
      BY <3>2, LockFrame DEF table
    <3>3. CASE Begin \/ Events
      BY <3>3, BeginFrame, EventFrame
    <3>4. CASE mark_dead \/ UNCHANGED vars \/ \E s \in Sta : free_sta_rcu(s)
      BY <3>4 DEF mark_dead, vars, table, free_sta_rcu
    <3>5. CASE \E r \in Reader : Read(r)
      BY <3>5, ReadFrame DEF table
    <3> QED BY <3>1, <3>2, <3>3, <3>4, <3>5, Steps
  <2>2. \A s \in Sta : life'[s] = "listed" <=> life[s] = "listed"
    BY <1>3, LifeMoves
  <2>3. \A n \in DOMAIN sta_list : sta_list[n] \in Sta
    BY DEF TypeOK
  <2> QED BY <2>1, <2>2, <2>3 DEF ListInv
<1> QED BY <1>1, <1>2, <1>3

-----------------------------------------------------------------------------
(* Stations in hand *)

\* What the steps outside r92su_sta_del and the list_add_rcu leave alone.
LEMMA OtherMoves ==
  ASSUME TypeOK, ProgInv, [Next]_vars, ~(\E c \in Ctx : Work(c))
  PROVE  /\ found' = found
         /\ \A c \in Ctx : /\ Removing(c)' <=> Removing(c)
                           /\ Removing(c) => prog'[c] = prog[c]
<1>0. /\ "lock" \in Ctx /\ "tail" \in Ctx /\ "event" \in Ctx
      /\ \A c \in Ctx : c = "lock" \/ c = "tail" \/ c = "event"
  BY DEF Ctx
<1>1. CASE LockWork
  <2>1. \A c \in Ctx \ {"lock"} : Removing(c)' <=> Removing(c)
    BY <1>1, LockMoves DEF Removing, Doing, Busy
  <2> QED BY <1>1, <2>1, LockMoves, LockFrame
<1>2. CASE Begin
  <2>1. found' = found /\ \A c \in Ctx : Removing(c)' <=> Removing(c)
    BY <1>2, BeginMoves, BeginFrame
  <2>2. ~Removing("lock") /\ prog'["event"] = prog["event"]
    BY <1>2, BeginMoves, BeginFrame DEF Removing, Doing, Busy, Idle
  <2>3. Removing("tail") => prog'["tail"] = prog["tail"]
    BY <1>2, BeginMoves DEF Removing, Doing, Busy
  <2> QED BY <1>0, <2>1, <2>2, <2>3
<1>3. CASE Events
  <2>1. ~Removing("event")
    BY <1>3, EventFrame DEF Removing, Doing, Busy, Idle
  <2> QED BY <1>3, <2>1, EventMoves, EventFrame
<1>4. CASE mark_dead \/ (\E s \in Sta : free_sta_rcu(s)) \/ (\E r \in Reader : Read(r))
           \/ UNCHANGED vars
  <2>1. prog' = prog /\ found' = found
    BY <1>4, ReadFrame DEF mark_dead, free_sta_rcu, vars, ctl
  <2> QED BY <2>1 DEF Removing, Doing, Busy
<1> QED BY <1>1, <1>2, <1>3, <1>4, Steps

\* A callback of call_rcu that waits for x goes on waiting until x leaves its section.
LEMMA GraceMoves ==
  ASSUME TypeOK, ProgInv, FoundInv, NewInv, [Next]_vars, NEW s \in Sta, NEW x \in Inside,
         ~(x \in Ctx /\ del_call_rcu(x)), ~(x \in Reader /\ read_unlock(x))
  PROVE  /\ x \in grace[s] => x \in grace'[s]
         /\ \A c \in Ctx : del_call_rcu(c) /\ s = found[c] => x \in grace'[s]
<1>0. x \in Reader \cup Ctx /\ Reader \cap Ctx = {}
  BY StaTableAssumption DEF Inside, Ctx
<1>1. ASSUME NEW c \in Ctx, del_call_rcu(c) PROVE x # c
  BY <1>0, <1>1
<1>2. ASSUME NEW c \in Ctx, del_call_rcu(c)
      PROVE  grace'[s] = IF s = found[c] THEN Inside \ {c} ELSE grace[s] \ {c}
  BY <1>2 DEF del_call_rcu
<1>3. ASSUME ~(\E c \in Ctx : del_call_rcu(c)), x \in grace[s] PROVE x \in grace'[s]
  <2>1. CASE \E c \in Ctx : Work(c)
    BY <1>3, <2>1 DEF Work, sta_del, del_lookup, del_unlink, sta_add
  <2>2. CASE LockWork
    BY <1>3, <2>2, LockFrame
  <2>3. CASE Begin \/ Events
    BY <1>3, <2>3, BeginFrame, EventFrame
  <2>4. CASE mark_dead \/ UNCHANGED vars \/ \E u \in Sta : free_sta_rcu(u)
    BY <1>3, <2>4 DEF mark_dead, vars, free_sta_rcu
  <2>5. CASE \E r \in Reader : Read(r)
    <3>1. PICK r \in Reader : Read(r)
      BY <2>5
    <3>2. CASE read_unlock(r)
      <4>1. grace'[s] = grace[s] \ {r}
        BY <3>2 DEF read_unlock
      <4> QED BY <1>0, <1>3, <3>2, <4>1
    <3>3. CASE ~read_unlock(r)
      BY <1>3, <3>1, <3>3 DEF Read, read_lock, read_state, read_bss, read_find, read_bss_sta,
         read_list, reorder_tid_timer
    <3> QED BY <3>2, <3>3
  <2> QED BY <2>1, <2>2, <2>3, <2>4, <2>5, Steps
<1> QED BY <1>1, <1>2, <1>3

\* So a station that x can use is not freed before x leaves its section.
LEMMA SafeKept ==
  ASSUME TypeOK, ProgInv, FoundInv, ListInv, NewInv, [Next]_vars, NEW s, NEW x \in Inside,
         ~(x \in Ctx /\ del_call_rcu(x)), ~(x \in Reader /\ read_unlock(x)), Safe(x, s)
  PROVE  Safe(x, s)'
<1>1. s \in Sta
  BY DEF Safe
<1>2. /\ x \in grace[s] => x \in grace'[s]
      /\ \A c \in Ctx : del_call_rcu(c) /\ s = found[c] => x \in grace'[s]
  BY <1>1, GraceMoves
<1> QED BY <1>1, <1>2, LifeMoves DEF Safe

\* Who removes a station keeps it.
LEMMA FoundNext ==
  ASSUME TypeOK, ProgInv, FoundInv, ListInv, NewInv, [Next]_vars
  PROVE  FoundInv'
<1>0. Reader \cap Ctx = {}
  BY StaTableAssumption DEF Ctx
<1>1. ASSUME NEW d \in Ctx, found'[d] = found[d], found[d] # NoSta, ~del_call_rcu(d)
      PROVE  Safe(d, found[d])'
  <2>1. d \in Inside /\ Safe(d, found[d])
    BY <1>1 DEF Inside, FoundInv
  <2>2. PICK s : s = found[d]
    OBVIOUS
  <2>3. Safe(d, s)'
    BY <1>0, <1>1, <2>1, <2>2, SafeKept
  <2> QED BY <1>1, <2>2, <2>3
<1>2. ASSUME NEW d \in Ctx, found'[d] = found[d], found[d] # NoSta, life[found[d]] # "listed"
      PROVE  life'[found[d]] # "listed"
  <2>1. found[d] \in Sta /\ life[found[d]] \in {"unlinked", "dying"}
    BY <1>2 DEF FoundInv, Safe
  <2> QED BY <2>1, LifeMoves
<1>3. ASSUME NEW d \in Ctx, found'[d] = found[d], prog'[d] = prog[d], ~del_call_rcu(d)
      PROVE  /\ found'[d] # NoSta <=> Removing(d)'
             /\ found'[d] # NoSta => Safe(d, found[d])'
             /\ Doing(d, "call_rcu")' => life'[found'[d]] # "listed"
  <2>1. (Removing(d)' <=> Removing(d)) /\ (Doing(d, "call_rcu")' <=> Doing(d, "call_rcu"))
    BY <1>3 DEF Removing, Doing, Busy
  <2>2. (found[d] # NoSta <=> Removing(d)) /\ (Doing(d, "call_rcu") => life[found[d]] # "listed")
    BY DEF FoundInv
  <2>3. Doing(d, "call_rcu") => found[d] # NoSta
    BY <2>2 DEF Removing
  <2> QED BY <1>1, <1>2, <1>3, <2>1, <2>2, <2>3
<1>4. CASE \E c \in Ctx : Work(c)
  <2>1. PICK c \in Ctx : Work(c)
    BY <1>4
  <2>2. /\ \A d \in Ctx \ {c} : prog'[d] = prog[d] /\ found'[d] = found[d]
    <3>1. found \in [Ctx -> Sta \cup {NoSta}]
      BY DEF TypeOK
    <3>2. found' = found \/ \E s : found' = [found EXCEPT ![c] = s]
      BY <2>1 DEF Work, sta_del, del_lookup, del_unlink, del_call_rcu, sta_add
    <3> QED BY <2>1, <3>1, <3>2, WorkMoves
  <2>3. \A d \in Ctx \ {c} : ~del_call_rcu(d)
    <3> SUFFICES ASSUME NEW d \in Ctx \ {c}, del_call_rcu(d) PROVE FALSE
      OBVIOUS
    <3>1. Work(d) /\ Through(d)' /\ Removing(d)
      BY WorkMoves DEF Work, sta_del, Removing, del_call_rcu
    <3>2. prog'[d] = prog[d]
      BY <2>2
    <3> QED BY <3>1, <3>2 DEF Through, Removing, Doing, Busy
  <2>4. /\ found'[c] # NoSta <=> Removing(c)'
        /\ found'[c] # NoSta => Safe(c, found[c])'
        /\ Doing(c, "call_rcu")' => life'[found'[c]] # "listed"
    <3>0. found \in [Ctx -> Sta \cup {NoSta}] /\ NoSta \notin Sta
      BY StaTableAssumption DEF TypeOK
    <3>1. CASE del_lookup(c)
      <4>1. found[c] = NoSta
        BY <3>1 DEF del_lookup, FoundInv, Removing, Doing
      <4>2. life' = life
        BY <3>1 DEF del_lookup, table
      <4>3. CASE UNCHANGED found /\ Through(c)'
        BY <4>1, <4>3 DEF Through, Removing
      <4>4. CASE /\ Doing(c, "unlink")'
                 /\ \E s \in Listed(Arg(c)) : found' = [found EXCEPT ![c] = s]
        <5>1. PICK s \in Listed(Arg(c)) : found' = [found EXCEPT ![c] = s]
          BY <4>4
        <5>2. found'[c] = s /\ s \in Sta /\ life'[s] = "listed"
          BY <3>0, <4>2, <5>1 DEF Listed
        <5>3. Safe(c, found[c])'
          BY <5>2 DEF Safe
        <5>4. Removing(c)' /\ ~Doing(c, "call_rcu")'
          BY <4>4 DEF Removing, Doing
        <5> QED BY <3>0, <5>2, <5>3, <5>4
      <4> QED BY <3>1, <4>3, <4>4, WorkMoves, <2>1
    <3>2. CASE del_unlink(c)
      <4>1. found' = found /\ Removing(c) /\ Doing(c, "call_rcu")' /\ Removing(c)'
            /\ ~del_call_rcu(c)
        BY <2>1, <3>2, WorkMoves DEF del_unlink, Removing, del_call_rcu, Doing
      <4>2. found[c] # NoSta /\ found[c] \in Sta
        BY <4>1, InHand
      <4>3. life'[found[c]] # "listed"
        BY <3>2, <4>2 DEF del_unlink, TypeOK
      <4> QED BY <1>1, <4>1, <4>2, <4>3
    <3>3. CASE del_call_rcu(c)
      <4>1. found'[c] = NoSta
        BY <3>0, <3>3 DEF del_call_rcu
      <4>2. ~Removing(c)'
        BY <2>1, <3>3, WorkMoves DEF Through
      <4> QED BY <4>1, <4>2 DEF Removing
    <3>4. CASE sta_add(c)
      <4>1. found' = found /\ ~Removing(c)' /\ ~Removing(c)
        BY <2>1, <3>4, WorkMoves DEF sta_add, Removing, Doing
      <4> QED BY <4>1 DEF FoundInv, Removing
    <3> QED BY <2>1, <3>1, <3>2, <3>3, <3>4 DEF Work, sta_del
  <2> QED BY <1>3, <2>2, <2>3, <2>4 DEF FoundInv
<1>5. CASE ~(\E c \in Ctx : Work(c))
  <2>1. /\ found' = found
        /\ \A c \in Ctx : /\ Removing(c)' <=> Removing(c)
                          /\ Removing(c) => prog'[c] = prog[c]
    BY <1>5, OtherMoves
  <2>2. \A c \in Ctx : ~del_call_rcu(c)
    BY <1>5 DEF Work, sta_del
  <2>3. ASSUME NEW c \in Ctx, ~Removing(c)
        PROVE  /\ found'[c] # NoSta <=> Removing(c)'
               /\ found'[c] # NoSta => Safe(c, found[c])'
               /\ Doing(c, "call_rcu")' => life'[found'[c]] # "listed"
    BY <2>1, <2>3 DEF FoundInv, Removing
  <2> QED BY <1>3, <2>1, <2>2, <2>3 DEF FoundInv
<1> QED BY <1>4, <1>5

-----------------------------------------------------------------------------
(* Stations that are not listed yet *)

\* What a step of the holder of r92su->lock leaves for it to do.
LEMMA LockTodo ==
  ASSUME TypeOK, ProgInv, NewInv, LockWork
  PROVE  /\ Todo(Tail(Locked)) \subseteq Todo(Locked')
         /\ Todo(Locked') \subseteq Todo(Tail(Locked)) \cup
                             {Set("OPEN"), Set("STOP"), Do("unpublish"), Del(BssId)}
         /\ Has(Locked, "publish") => publish
         /\ ~Has(Locked, "publish")'
<1>1. /\ Todo(Tail(Locked)) \subseteq Todo(Locked')
      /\ Todo(Locked') \subseteq Todo(Tail(Locked)) \cup
                          {Set("OPEN"), Set("STOP"), Do("unpublish"), Del(BssId)}
  <2>1. CASE publish \/ set_state \/ synchronize_rcu \/ stop_return
    BY <2>1, LockEffect
  <2>2. CASE free_connected
    BY <2>2, LockEffect
  <2>3. CASE unpublish
    BY <2>3, LockEffect
  <2>4. CASE stop_state
    BY <2>4, LockEffect
  <2>5. CASE stop_want
    BY <2>5, LockEffect
  <2> QED BY <2>1, <2>2, <2>3, <2>4, <2>5 DEF LockWork
<1>2. Has(Locked, "publish") => publish
  <2>1. Has(Locked, "publish") => Doing("lock", "publish")
    BY LockMoves DEF NewInv
  <2>2. LockWork /\ Doing("lock", "publish") => publish
    BY DEF LockWork, Doing, set_state, free_connected, unpublish, stop_state, stop_want,
           synchronize_rcu, stop_return
  <2> QED BY <2>1, <2>2
<1>3. ~Has(Locked, "publish")'
  <2>1. CASE publish
    <3>1. Locked' # <<>> /\ Head(Locked') = Set("CONNECTED") /\ LockShape(Locked')
      BY <2>1, LockMoves, LockEffect
    <3>2. PICK q : q = Locked'
      OBVIOUS
    <3>3. Todo(q) = {Set("CONNECTED")}
      BY <3>1, <3>2, LockStatic
    <3>4. ~Has(q, "publish")
      BY <3>3, OpFacts DEF Has
    <3> QED BY <3>2, <3>4 DEF Has, Todo
  <2>2. CASE ~publish
    <3>1. \A o \in Todo(Locked) : o.op # "publish"
      BY <1>2, <2>2 DEF Has
    <3>2. \A o \in Todo(Locked') : o.op # "publish"
      BY <1>1, <3>1, LockMoves, OpFacts
    <3> QED BY <3>2 DEF Has, Todo
  <2> QED BY <2>1, <2>2
<1> QED BY <1>1, <1>2, <1>3

\* The station of a connection, or of one that is being made, stays attached to it
\* unless the holder of the lock removes it.
LEMMA AttachedKept ==
  ASSUME TypeOK, ProgInv, FoundInv, ListInv, NewInv, [Next]_vars, NEW s \in Sta,
         new["lock"] = s \/ (\E b \in Bss : bss_sta[b] = s), Attached(s)
  PROVE  \/ Attached(s)'
         \/ /\ del_unlink("lock") /\ s = found["lock"]
            /\ lost'[s] = "lock" \/ new["lock"] = NoSta
<1>0. Named(s) /\ "lock" \in Ctx
  BY DEF Named, Ctx
<1>1. CASE life'[s] = life[s] /\ mac_id'[s] = mac_id[s] /\ lost'[s] = lost[s]
  BY <1>1 DEF Attached
<1>2. CASE \E c \in Ctx : sta_add(c) /\ s = new[c] /\ life[s] = "new" /\ lost'[s] = lost[s]
  BY <1>2 DEF Attached, NewInv
<1>3. CASE \E c \in Ctx : /\ del_unlink(c) /\ s = found[c] /\ life[s] = "listed"
                          /\ lost'[s] = IF Displaces(c, s) THEN c ELSE lost[s]
  <2>1. PICK c \in Ctx : /\ del_unlink(c) /\ s = found[c] /\ life[s] = "listed"
                         /\ lost'[s] = IF Displaces(c, s) THEN c ELSE lost[s]
    BY <1>3
  <2>2. CASE c = "lock"
    BY <2>1, <2>2 DEF Displaces
  <2>3. CASE c # "lock"
    <3>1. Displaces(c, s)
      BY <2>3 DEF Displaces
    <3> QED BY <2>1, <2>3, <3>1 DEF Attached, Ctx
  <2> QED BY <2>2, <2>3
<1>4. CASE life[s] \in {"unlinked", "dying"} /\ lost'[s] = lost[s]
  BY <1>4 DEF Attached
<1> QED BY <1>0, <1>1, <1>2, <1>3, <1>4, LifeMoves

\* Which stations are new, and in whose hands.
NewHands ==
    /\ \A c \in Ctx : Adding(c) => new[c] \in Sta /\ life[new[c]] = "new"
    /\ \A s \in Sta : life[s] = "new" => \E c \in Ctx : new[c] = s /\ Adding(c)
    /\ \A c, d \in Ctx : Adding(c) /\ Adding(d) /\ new[c] = new[d] => c = d

\* ... it stays so when no station becomes new and none is listed.
LEMMA HandsKept ==
  ASSUME NewHands, TypeOK, \A c \in Ctx : Adding(c)' <=> Adding(c),
         \A c \in Ctx : Adding(c) => new'[c] = new[c],
         \A s \in Sta : life'[s] = "new" <=> life[s] = "new"
  PROVE  NewHands'
<1>1. \A c \in Ctx : Adding(c)' => new'[c] \in Sta /\ life'[new'[c]] = "new"
  BY DEF NewHands
<1>2. \A s \in Sta : life'[s] = "new" => \E c \in Ctx : new'[c] = s /\ Adding(c)'
  BY DEF NewHands
<1>3. \A c, d \in Ctx : Adding(c)' /\ Adding(d)' /\ new'[c] = new'[d] => c = d
  BY DEF NewHands
<1> QED BY <1>1, <1>2, <1>3 DEF NewHands

\* Every step keeps the hands apart.
LEMMA HandsNext ==
  ASSUME TypeOK, ProgInv, FoundInv, ListInv, NewInv, [Next]_vars
  PROVE  NewHands'
<1>0. /\ "lock" \in Ctx /\ "tail" \in Ctx /\ "event" \in Ctx /\ NewHands
      /\ \A c \in Ctx : c = "lock" \/ c = "tail" \/ c = "event"
  BY DEF Ctx, NewInv, NewHands
<1>a. /\ new \in [Ctx -> Sta \cup {NoSta}] /\ life \in [Sta -> Life]
      /\ NoSta \notin Sta
  BY StaTableAssumption DEF TypeOK
<1>1. ASSUME NEW c \in Ctx, sta_del(c) PROVE NewHands'
  <2>1. Work(c) /\ ~sta_add(c) /\ new' = new
    BY <1>1 DEF Work, sta_del, del_lookup, del_unlink, del_call_rcu, sta_add, Doing
  <2>2. \A d \in Ctx : Adding(d)' <=> Adding(d)
    <3>1. Adding(c)' <=> Adding(c)
      BY <2>1, WorkMoves
    <3>2. \A d \in Ctx \ {c} : prog'[d] = prog[d]
      BY <2>1, WorkMoves
    <3> QED BY <3>1, <3>2 DEF Adding, Has, Todo
  <2>3. \A s \in Sta : life'[s] = "new" <=> life[s] = "new"
    <3>1. CASE del_lookup(c)
      BY <3>1 DEF del_lookup, table
    <3>2. CASE del_unlink(c)
      <4>1. life[found[c]] \in {"listed", "unlinked", "dying"}
        BY <3>2, InHand DEF del_unlink
      <4> QED BY <1>a, <3>2, <4>1 DEF del_unlink
    <3>3. CASE del_call_rcu(c)
      <4>1. life[found[c]] \in {"unlinked", "dying"}
        BY <3>3, InHand DEF del_call_rcu
      <4> QED BY <1>a, <3>3, <4>1 DEF del_call_rcu
    <3> QED BY <1>1, <3>1, <3>2, <3>3 DEF sta_del
  <2> QED BY <1>0, <2>1, <2>2, <2>3, HandsKept
<1>2. ASSUME NEW c \in Ctx, sta_add(c) PROVE NewHands'
  <2>1. Work(c) /\ Adding(c) /\ ~Adding(c)' /\ \A d \in Ctx \ {c} : prog'[d] = prog[d]
    BY <1>2, WorkMoves DEF Work
  <2>2. \A d \in Ctx \ {c} : (Adding(d)' <=> Adding(d)) /\ new'[d] = new[d]
    BY <1>a, <1>2, <2>1 DEF Adding, Has, Todo, sta_add
  <2>3. new[c] \in Sta /\ life' = [life EXCEPT ![new[c]] = "listed"]
    BY <1>0, <1>2, <2>1 DEF NewHands, sta_add
  <2>4. \A s \in Sta : life'[s] = IF s = new[c] THEN "listed" ELSE life[s]
    BY <1>a, <2>3
  <2>5. \A d \in Ctx : Adding(d)' => d # c /\ Adding(d) /\ new'[d] = new[d] /\ new[d] # new[c]
    BY <1>0, <2>1, <2>2 DEF NewHands
  <2>6. \A d \in Ctx : Adding(d)' => new'[d] \in Sta /\ life'[new'[d]] = "new"
    BY <1>0, <2>4, <2>5 DEF NewHands
  <2>7. ASSUME NEW s \in Sta, life'[s] = "new" PROVE \E d \in Ctx : new'[d] = s /\ Adding(d)'
    <3>1. life[s] = "new" /\ s # new[c]
      BY <2>4, <2>7
    <3>2. PICK d \in Ctx : new[d] = s /\ Adding(d)
      BY <1>0, <3>1 DEF NewHands
    <3> QED BY <2>2, <3>1, <3>2
  <2>8. \A d, e \in Ctx : Adding(d)' /\ Adding(e)' /\ new'[d] = new'[e] => d = e
    BY <1>0, <2>5 DEF NewHands
  <2> QED BY <2>6, <2>7, <2>8 DEF NewHands
<1>3. CASE LockWork
  <2>1. ~Adding("lock") /\ ~Adding("lock")' /\ \A d \in Ctx \ {"lock"} : prog'[d] = prog[d]
    BY <1>3, LockMoves
  <2>2. \A d \in Ctx : Adding(d)' <=> Adding(d)
    BY <2>1 DEF Adding, Has, Todo
  <2>3. \A d \in Ctx \ {"lock"} : new'[d] = new[d]
    BY <1>0, <1>a, <1>3 DEF LockWork, publish, set_state, free_connected, unpublish, stop_state,
       stop_want, synchronize_rcu, stop_return, ctl
  <2>4. life' = life
    BY <1>3, LockFrame DEF table
  <2> QED BY <1>0, <2>1, <2>2, <2>3, <2>4, HandsKept
<1>4. CASE Begin \/ Events
  <2>1. CASE UNCHANGED <<sta_list, sta_num, mac_id, life, new, raced, lost>>
    <3>1. \A c \in Ctx, u \in Sta, i \in Ids : ~Fresh(c, u, i)
      <4> SUFFICES ASSUME NEW c \in Ctx, NEW u \in Sta, NEW i \in Ids, Fresh(c, u, i) PROVE FALSE
        OBVIOUS
      <4> QED BY <2>1, FreshFacts
    <3>2. \A d \in Ctx : Adding(d)' <=> Adding(d)
      <4>1. CASE Begin
        <5>1. ~Adding("lock") /\ \A d \in Ctx \ {"lock"} : Adding(d)' <=> Adding(d)
          BY <4>1, BeginMoves
        <5>2. \A s \in Sta : ~connect_work(s)
          <6>1. BssId \in Ids
            BY StaTableAssumption DEF Ids
          <6> QED BY <1>0, <3>1, <6>1 DEF connect_work, Alloc
        <5>3. \A o \in Todo(Locked') : o.op # "add"
          <6>1. CASE Locked' = Locked
            BY <4>1, <6>1, BeginMoves, EmptyProg
          <6>2. CASE Locked' # Locked
            <7>1. \/ Todo(Locked') = {Do("free_connected")} \/ Todo(Locked') = {Set("OPEN")}
                  \/ \A o \in Todo(Locked') : o.op \in {"free_connected", "stop_state",
                                                      "stop_want", "del", "sync", "return"}
              BY <4>1, <5>2, <6>2, BeginMoves DEF Locked
            <7> QED BY <7>1, OpFacts
          <6> QED BY <6>1, <6>2
        <5>4. ~Adding("lock")'
          BY <5>3 DEF Adding, Has, Todo, Locked
        <5> QED BY <5>1, <5>4
      <4>2. CASE Events
        <5>1. ~Adding("event") /\ \A d \in Ctx \ {"event"} : prog'[d] = prog[d]
          BY <4>2, EventMoves
        <5>2. ~Adding("event")'
          <6>1. \A p \in Peer : p \in Ids
            BY DEF Ids
          <6> QED BY <1>0, <3>1, <4>2, <6>1, EventMoves
        <5> QED BY <5>1, <5>2 DEF Adding, Has, Todo
      <4> QED BY <1>4, <4>1, <4>2
    <3> QED BY <1>0, <2>1, <3>2, HandsKept
  <2>2. ASSUME NEW c \in {"lock", "event"}, NEW u \in Sta, NEW i \in Ids,
               Fresh(c, u, i), Idle(c), Adding(c)',
               \A d \in Ctx \ {c} : Adding(d)' <=> Adding(d)
        PROVE  NewHands'
    <3>1. c \in Ctx
      BY DEF Ctx
    <3>2. /\ life[u] = "free" /\ ~Named(u) /\ new'[c] = u /\ life'[u] = "new"
          /\ \A s \in Sta \ {u} : life'[s] = life[s]
          /\ \A d \in Ctx \ {c} : new'[d] = new[d]
      BY <2>2, <3>1, FreshFacts
    <3>3. \A d \in Ctx : new[d] # u
      BY <3>2 DEF Named
    <3>4. \A d \in Ctx : Adding(d)' => new'[d] \in Sta /\ life'[new'[d]] = "new"
      BY <1>0, <2>2, <3>2, <3>3 DEF NewHands
    <3>5. ASSUME NEW s \in Sta, life'[s] = "new" PROVE \E d \in Ctx : new'[d] = s /\ Adding(d)'
      <4>1. CASE s = u
        BY <2>2, <3>1, <3>2, <4>1
      <4>2. CASE s # u
        <5>1. PICK d \in Ctx : new[d] = s /\ Adding(d)
          BY <1>0, <3>2, <3>5, <4>2 DEF NewHands
        <5>2. d # c
          BY <2>2, <5>1, EmptyProg DEF Adding, Has, Idle
        <5> QED BY <2>2, <3>2, <5>1, <5>2
      <4> QED BY <4>1, <4>2
    <3>6. \A d, e \in Ctx : Adding(d)' /\ Adding(e)' /\ new'[d] = new'[e] => d = e
      BY <1>0, <2>2, <3>2, <3>3 DEF NewHands
    <3> QED BY <3>4, <3>5, <3>6 DEF NewHands
  <2> QED BY <1>4, <2>1, <2>2, AllocSteps
<1>5. CASE mark_dead \/ (\E s \in Sta : free_sta_rcu(s)) \/ (\E r \in Reader : Read(r))
           \/ UNCHANGED vars
  <2>1. UNCHANGED <<prog, new>>
    BY <1>5, ReadFrame DEF mark_dead, free_sta_rcu, vars, ctl
  <2>2. \A d \in Ctx : Adding(d)' <=> Adding(d)
    BY <2>1 DEF Adding, Has, Todo
  <2>3. \A s \in Sta : life'[s] = "new" <=> life[s] = "new"
    <3>1. CASE mark_dead \/ (\E r \in Reader : Read(r)) \/ UNCHANGED vars
      BY <3>1, ReadFrame DEF mark_dead, vars, table
    <3>2. CASE \E s \in Sta : free_sta_rcu(s)
      BY <1>a, <3>2 DEF free_sta_rcu
    <3> QED BY <1>5, <3>1, <3>2
  <2> QED BY <1>0, <2>1, <2>2, <2>3, HandsKept
<1> QED BY <1>1, <1>2, <1>3, <1>4, <1>5, Steps DEF Work

\* The station that is about to be published.
PublishInv ==
    Has(Locked, "publish") =>
        /\ new["lock"] \in Sta /\ want \in Bss
        /\ Adding("lock") => mac_id[new["lock"]] = BssId
        /\ Adding("lock") \/ (Doing("lock", "publish") /\ Attached(new["lock"]))

\* ... waits while others are at work, ...
LEMMA PublishKept ==
  ASSUME TypeOK, ProgInv, FoundInv, ListInv, NewInv, [Next]_vars,
         Locked' = Locked, new'["lock"] = new["lock"], want' = want, ~Work("lock")
  PROVE  PublishInv'
<1> SUFFICES ASSUME Has(Locked, "publish")'
             PROVE  /\ new'["lock"] \in Sta /\ want' \in Bss
                    /\ Adding("lock")' => mac_id'[new'["lock"]] = BssId
                    /\ Adding("lock")' \/ (Doing("lock", "publish")' /\ Attached(new["lock"])')
  BY DEF PublishInv
<1>1. /\ new["lock"] \in Sta /\ want \in Bss
      /\ Adding("lock") => mac_id[new["lock"]] = BssId /\ life[new["lock"]] = "new"
      /\ Adding("lock") \/ (Doing("lock", "publish") /\ Attached(new["lock"]))
  BY DEF NewInv, Has, Todo, Ctx
<1>2. /\ Adding("lock")' <=> Adding("lock")
      /\ Doing("lock", "publish")' <=> Doing("lock", "publish")
  BY DEF Adding, Has, Todo, Doing, Busy, Locked
<1>3. PICK s \in Sta : s = new["lock"]
  BY <1>1
<1>4. Adding("lock") => mac_id'[s] = BssId
  <2> SUFFICES ASSUME Adding("lock") PROVE mac_id'[s] = BssId
    OBVIOUS
  <2>1. life[s] = "new" /\ mac_id[s] = BssId
    BY <1>1, <1>3
  <2> QED BY <2>1, LifeMoves
<1>5. ~Adding("lock") => Attached(s)'
  <2>1. ~del_unlink("lock")
    BY DEF Work, sta_del
  <2> QED BY <1>1, <1>3, <2>1, AttachedKept
<1>6. Attached(s)' => Attached(new["lock"])'
  BY <1>3
<1> QED BY <1>1, <1>2, <1>3, <1>4, <1>5, <1>6

\* ... and is listed by the time it is published.
LEMMA PublishNext ==
  ASSUME TypeOK, ProgInv, FoundInv, ListInv, NewInv, [Next]_vars
  PROVE  PublishInv'
<1>0. /\ "lock" \in Ctx /\ "tail" \in Ctx /\ "event" \in Ctx /\ BssId \in Ids
      /\ \A c \in Ctx : c = "lock" \/ c = "tail" \/ c = "event"
  BY StaTableAssumption DEF Ctx, Ids
<1>a. new \in [Ctx -> Sta \cup {NoSta}] /\ life \in [Sta -> Life] /\ want \in Bss \cup {NoBss}
  BY DEF TypeOK
<1>1. CASE sta_add("lock")
  <2>1. /\ Doing("lock", "publish")' /\ ~Adding("lock")' /\ Adding("lock") /\ Len(prog["lock"]) = 3
    BY <1>0, <1>1, WorkMoves DEF Work
  <2>2. Has(Locked, "publish")
    BY <2>1, LockStatic DEF ProgInv, Adding, Locked
  <2>3. /\ new["lock"] \in Sta /\ want \in Bss /\ mac_id[new["lock"]] = BssId
    BY <2>1, <2>2 DEF NewInv
  <2>4. new' = new /\ want' = want /\ mac_id' = mac_id /\ life'[new["lock"]] = "listed"
    BY <1>a, <1>1, <2>1, <2>3 DEF sta_add, bss
  <2>5. Attached(new["lock"])'
    BY <2>3, <2>4 DEF Attached
  <2> QED BY <2>1, <2>3, <2>4, <2>5 DEF PublishInv
<1>2. CASE Work("lock") /\ ~sta_add("lock")
  <2>1. new' = new /\ want' = want /\ mac_id' = mac_id
    BY <1>2 DEF Work, sta_del, del_lookup, del_unlink, del_call_rcu, bss, table
  <2>2. Adding("lock")' <=> Adding("lock")
    BY <1>0, <1>2, WorkMoves
  <2>3. Has(Locked, "publish")' => Has(Locked, "publish")
    <3>1. \A o : o.op = "publish" => (o \in Todo(prog'["lock"]) <=> o \in Todo(prog["lock"]))
      BY <1>0, <1>2, WorkMoves
    <3> QED BY <3>1 DEF Has, Todo, Locked
  <2>4. ~Doing("lock", "publish")
    BY <1>2, WorkFrame DEF Doing
  <2> QED BY <2>1, <2>2, <2>3, <2>4 DEF PublishInv, NewInv
<1>3. ASSUME NEW c \in Ctx, Work(c), c # "lock" PROVE PublishInv'
  <2>1. Locked' = Locked /\ want' = want
    BY <1>0, <1>3, WorkMoves, WorkFrame DEF Locked, bss
  <2>2. new'["lock"] = new["lock"]
    BY <1>0, <1>a, <1>3 DEF Work, sta_del, del_lookup, del_unlink, del_call_rcu, sta_add
  <2>3. CASE ~Work("lock")
    BY <2>1, <2>2, <2>3, PublishKept
  <2> QED BY <1>1, <1>2, <2>3
<1>4. CASE LockWork
  <2>1. ~Has(Locked, "publish")'
    BY <1>4, LockTodo
  <2> QED BY <2>1 DEF PublishInv
<1>5. CASE Begin
  <2>1. ASSUME NEW s \in Sta, connect_work(s), Has(Locked, "publish")',
               Todo(Locked') = {Del(BssId), Do("add"), Do("publish"), Set("CONNECTED")}
        PROVE  PublishInv'
    <3>1. Adding("lock")'
      <4>1. Do("add") \in Todo(Locked') /\ Do("add").op = "add"
        BY <2>1, OpFacts
      <4> QED BY <4>1 DEF Adding, Has, Todo, Locked
    <3>2. Fresh("lock", s, BssId) /\ want # NoBss /\ want' = want
      BY <2>1 DEF connect_work, Alloc, bss
    <3>3. new'["lock"] = s /\ mac_id'[s] = BssId
      BY <1>0, <3>2, FreshFacts
    <3> QED BY <1>a, <3>1, <3>2, <3>3 DEF PublishInv
  <2>2. CASE Todo(Locked') = {Do("free_connected")} \/ Todo(Locked') = {Set("OPEN")}
              \/ (\A o \in Todo(Locked') :
                    o.op \in {"free_connected", "stop_state", "stop_want", "del", "sync", "return"})
              \/ Locked' = <<>>
    <3>1. \A o \in Todo(Locked') : o.op # "publish"
      BY <2>2, OpFacts, EmptyProg
    <3> QED BY <3>1 DEF PublishInv, Has, Todo
  <2>3. CASE ~Has(Locked, "publish")'
    BY <2>3 DEF PublishInv
  <2> QED BY <1>5, <2>1, <2>2, <2>3, BeginMoves DEF Locked
<1>6. CASE Events
  <2>1. Locked' = Locked /\ want' = want
    BY <1>0, <1>6, EventMoves, EventFrame DEF Locked, bss
  <2>2. new'["lock"] = new["lock"]
    <3>1. CASE UNCHANGED new
      BY <3>1
    <3>2. CASE \E p \in Peer, s \in Sta : Fresh("event", s, p)
      <4>1. PICK p \in Peer, s \in Sta : Fresh("event", s, p)
        BY <3>2
      <4>2. p \in Ids
        BY DEF Ids
      <4>3. \A d \in Ctx \ {"event"} : new'[d] = new[d]
        BY <1>0, <4>1, <4>2, FreshFacts
      <4> QED BY <1>0, <4>3
    <3> QED BY <1>6, <3>1, <3>2, EventMoves
  <2>3. CASE ~Work("lock")
    BY <2>1, <2>2, <2>3, PublishKept
  <2> QED BY <1>1, <1>2, <2>3
<1>7. CASE mark_dead \/ (\E s \in Sta : free_sta_rcu(s)) \/ (\E r \in Reader : Read(r))
           \/ UNCHANGED vars
  <2>1. UNCHANGED <<prog, new, want>>
    BY <1>7, ReadFrame DEF mark_dead, free_sta_rcu, vars, ctl, bss
  <2>2. CASE ~Work("lock")
    BY <2>1, <2>2, PublishKept DEF Locked
  <2> QED BY <1>1, <1>2, <2>2
<1> QED BY <1>1, <1>2, <1>3, <1>4, <1>5, <1>6, <1>7, Steps

\* The stations that are not listed yet stay in one pair of hands.
LEMMA NewNext ==
  ASSUME TypeOK, ProgInv, FoundInv, ListInv, NewInv, [Next]_vars
  PROVE  NewInv'
<1>1. NewHands' /\ PublishInv'
  BY HandsNext, PublishNext
<1>2. ASSUME NEW s \in Sta, lost'[s] # "nobody"
      PROVE  life'[s] \in {"unlinked", "dying", "free"}
  <2>1. lost[s] # "nobody" => life[s] \in {"unlinked", "dying", "free"}
    BY DEF NewInv
  <2> QED BY <1>2, <2>1, LifeMoves
<1> QED BY <1>1, <1>2 DEF NewInv, NewHands, PublishInv

-----------------------------------------------------------------------------
(* The connection *)

\* Who took a named station from its connection stays on record.
LEMMA LostKept ==
  ASSUME TypeOK, ProgInv, FoundInv, ListInv, NewInv, [Next]_vars, NEW s \in Sta,
         Named(s), lost[s] # "nobody"
  PROVE  lost'[s] = lost[s]
<1>1. life[s] \in {"unlinked", "dying", "free"}
  BY DEF NewInv
<1> QED BY <1>1, LifeMoves

\* The station of a connection is attached to it, or just replaced.
Linked(s) == Attached(s) \/ (lost[s] = "lock" /\ Has(Locked, "publish"))

\* ... it stays so while others are at work, ...
LEMMA LinkedKept ==
  ASSUME TypeOK, ProgInv, FoundInv, ListInv, NewInv, [Next]_vars,
         NEW b \in Bss, NEW s \in Sta, bss_sta[b] = s, Linked(s),
         Has(Locked, "publish") => Has(Locked, "publish")',
         del_unlink("lock") => Has(Locked, "publish")
  PROVE  Linked(s)'
<1>0. Named(s)
  BY DEF Named
<1>1. CASE Attached(s)
  <2>1. Attached(s)' \/ (del_unlink("lock") /\ (lost'[s] = "lock" \/ new["lock"] = NoSta))
    BY <1>1, AttachedKept
  <2>2. del_unlink("lock") => Has(Locked, "publish")' /\ new["lock"] # NoSta
    BY StaTableAssumption DEF NewInv
  <2> QED BY <2>1, <2>2 DEF Linked
<1>2. CASE lost[s] = "lock" /\ Has(Locked, "publish")
  BY <1>0, <1>2, LostKept DEF Linked
<1> QED BY <1>1, <1>2 DEF Linked

\* ConnInv by parts: when the device may be connected, what that means, and what
\* the holder of the lock does before it sets the state.
ConnWhen == state = "CONNECTED" => \/ Idle("lock") \/ Doing("lock", "free_connected")
                                   \/ Doing("lock", "set") \/ Has(Locked, "publish")
\* ... the bss and the station ...
ConnHas == state = "CONNECTED" \/ (Busy("lock") /\ Head(Locked) = Set("CONNECTED")) =>
               connect_bss \in Bss /\ bss_sta[connect_bss] \in Sta /\ Linked(bss_sta[connect_bss])
\* ... and the order.
ConnSet == Set("CONNECTED") \in Todo(Locked) =>
               Has(Locked, "publish") \/ Head(Locked) = Set("CONNECTED")

\* The parts make the whole.
LEMMA ConnParts == ConnInv <=> ConnWhen /\ ConnHas /\ ConnSet
  BY DEF ConnInv, ConnWhen, ConnHas, ConnSet, Linked

\* ... and with it the connection.
LEMMA ConnKept ==
  ASSUME TypeOK, ProgInv, FoundInv, ListInv, NewInv, ConnInv, [Next]_vars, Locked' = Locked,
         UNCHANGED <<connect_bss, bss_sta>>, state' = "CONNECTED" => state = "CONNECTED",
         ~Work("lock")
  PROVE  ConnWhen' /\ ConnHas' /\ ConnSet'
<1>1. ConnWhen /\ ConnHas /\ ConnSet
  BY ConnParts
<1>2. /\ Has(Locked, "publish")' <=> Has(Locked, "publish")
      /\ Doing("lock", "free_connected")' <=> Doing("lock", "free_connected")
      /\ Doing("lock", "set")' <=> Doing("lock", "set")
      /\ Idle("lock")' <=> Idle("lock")
      /\ Busy("lock")' <=> Busy("lock")
  BY DEF Has, Todo, Doing, Busy, Idle, Locked
<1>3. ConnWhen'
  BY <1>1, <1>2 DEF ConnWhen
<1>4. ConnSet'
  BY <1>1, <1>2 DEF ConnSet, Todo
<1>5. ConnHas'
  <2> SUFFICES ASSUME state' = "CONNECTED" \/ (Busy("lock")' /\ Head(Locked') = Set("CONNECTED"))
               PROVE  /\ connect_bss' \in Bss /\ bss_sta'[connect_bss'] \in Sta
                      /\ Linked(bss_sta[connect_bss])'
    BY DEF ConnHas
  <2>1. connect_bss \in Bss /\ bss_sta[connect_bss] \in Sta /\ Linked(bss_sta[connect_bss])
    BY <1>1, <1>2 DEF ConnHas
  <2>2. PICK s \in Sta : s = bss_sta[connect_bss]
    BY <2>1
  <2>3. ~del_unlink("lock")
    BY DEF Work, sta_del
  <2>4. Linked(s)'
    BY <1>2, <2>1, <2>2, <2>3, LinkedKept
  <2> QED BY <2>1, <2>2, <2>4
<1> QED BY <1>3, <1>4, <1>5

\* The holder of the lock removes a station of a connection only to replace it.
LEMMA ConnWork ==
  ASSUME TypeOK, ProgInv, FoundInv, ListInv, NewInv, ConnInv, [Next]_vars, Work("lock")
  PROVE  ConnWhen' /\ ConnHas' /\ ConnSet'
<1>0. "lock" \in Ctx
  BY DEF Ctx
<1>1. ConnWhen /\ ConnHas /\ ConnSet
  BY ConnParts
<1>2. /\ UNCHANGED <<state, connect_bss, bss_sta>> /\ Busy("lock")
      /\ Head(Locked).op \in {"del", "unlink", "call_rcu", "add"}
  BY WorkFrame DEF bss, Locked
<1>3. Has(Locked, "publish") <=> Has(Locked, "publish")'
  <2>1. \A o : o.op = "publish" => (o \in Todo(prog'["lock"]) <=> o \in Todo(prog["lock"]))
    BY <1>0, WorkMoves
  <2> QED BY <2>1 DEF Has, Todo, Locked
<1>4. Head(Locked) # Set("CONNECTED") /\ ~Idle("lock")
      /\ ~Doing("lock", "free_connected") /\ ~Doing("lock", "set")
  BY <1>2, OpFacts DEF Idle, Busy, Doing, Locked
<1>5. ConnWhen'
  BY <1>1, <1>2, <1>3, <1>4 DEF ConnWhen
<1>6. Set("CONNECTED") \in Todo(Locked)' => Has(Locked, "publish")'
  <2>1. Set("CONNECTED") \in Todo(prog'["lock"]) => Set("CONNECTED") \in Todo(prog["lock"])
    BY <1>0, OpFacts, WorkMoves
  <2> QED BY <1>1, <1>3, <1>4, <2>1 DEF ConnSet, Todo, Locked
<1>7. ~(Busy("lock")' /\ Head(Locked') = Set("CONNECTED"))
  <2> SUFFICES ASSUME Busy("lock")', Head(Locked') = Set("CONNECTED") PROVE FALSE
    OBVIOUS
  <2>1. PICK q : q = Locked'
    OBVIOUS
  <2>2. LockShape(q) /\ q # <<>> /\ q \in Seq(Ops)
    BY <1>0, <2>1, WorkMoves DEF ProgInv, Busy, Locked
  <2>3. Head(q) \in Todo(q)
    BY <2>2, TailProg
  <2>4. Has(q, "publish")
    BY <1>6, <2>1, <2>3 DEF Has, Todo
  <2> QED BY <2>1, <2>2, <2>4, LockStatic
<1>8. ConnHas'
  <2> SUFFICES ASSUME state' = "CONNECTED"
               PROVE  /\ connect_bss' \in Bss /\ bss_sta'[connect_bss'] \in Sta
                      /\ Linked(bss_sta[connect_bss])'
    BY <1>7 DEF ConnHas
  <2>1. connect_bss \in Bss /\ bss_sta[connect_bss] \in Sta /\ Linked(bss_sta[connect_bss])
    BY <1>1, <1>2 DEF ConnHas
  <2>2. PICK s \in Sta : s = bss_sta[connect_bss]
    BY <2>1
  <2>3. Has(Locked, "publish")
    BY <1>1, <1>2, <1>4 DEF ConnWhen
  <2>4. Linked(s)'
    BY <1>3, <2>1, <2>2, <2>3, LinkedKept
  <2> QED BY <1>2, <2>1, <2>2, <2>4
<1> QED BY <1>5, <1>6, <1>8 DEF ConnSet

\* A connection is published before the state says so, and the state goes before
\* the connection does.
LEMMA ConnLock ==
  ASSUME TypeOK, ProgInv, FoundInv, ListInv, NewInv, ConnInv, [Next]_vars, LockWork
  PROVE  ConnWhen' /\ ConnHas' /\ ConnSet'
<1>0. "lock" \in Ctx /\ bss_sta \in [Bss -> Sta \cup {NoSta}] /\ state \in State
  BY DEF Ctx, TypeOK
<1>1. ConnWhen /\ ConnHas /\ ConnSet
  BY ConnParts
<1>2. /\ Busy("lock") /\ LockShape(Locked) /\ Locked # <<>> /\ Locked \in Seq(Ops)
      /\ Head(Locked).op \in {"publish", "set", "free_connected", "unpublish", "stop_state",
                              "stop_want", "sync", "return"}
  BY <1>0, LockFrame DEF ProgInv, Busy, Locked, TypeOK
<1>3. ~Work("lock")
  BY <1>2, WorkFrame DEF Locked
<1>4. ~del_unlink("lock")
  BY <1>3 DEF Work, sta_del
<1>5. ASSUME ~publish PROVE ~Has(Locked, "publish")
  BY <1>5, LockTodo
<1>6. ASSUME NEW b \in Bss, NEW s \in Sta, bss_sta[b] = s, Attached(s) PROVE Attached(s)'
  BY <1>4, <1>6, AttachedKept
<1>7. CASE publish
  <2>1. Locked' # <<>> /\ Head(Locked') = Set("CONNECTED")
    BY <1>7, LockMoves
  <2>2. ConnWhen'
    BY <2>1, OpFacts DEF ConnWhen, Doing, Busy, Locked
  <2>3. ConnSet'
    BY <2>1 DEF ConnSet
  <2>4. Has(Locked, "publish") /\ ~Adding("lock")
    <3>1. Head(Locked) \in Todo(Locked) /\ Head(Locked).op = "publish"
      BY <1>2, <1>7, TailProg DEF publish, Doing, Locked
    <3> QED BY <1>7, <3>1, LockMoves DEF Has
  <2>5. new["lock"] \in Sta /\ want \in Bss /\ Attached(new["lock"])
    BY <2>4 DEF NewInv
  <2>6. PICK s \in Sta : s = new["lock"]
    BY <2>5
  <2>7. Attached(s)'
    BY <1>4, <2>5, <2>6, AttachedKept
  <2>8. connect_bss' = want /\ bss_sta'[connect_bss'] = s
    BY <1>0, <1>7, <2>5, <2>6 DEF publish
  <2> QED BY <2>2, <2>3, <2>5, <2>7, <2>8 DEF ConnHas, Linked
<1>8. CASE ~publish
  <2>1. Set("CONNECTED") \notin Todo(Locked')
    <3> SUFFICES ASSUME Set("CONNECTED") \in Todo(Locked') PROVE FALSE
      OBVIOUS
    <3>1. Set("CONNECTED") \in Todo(Tail(Locked))
      BY LockTodo, OpFacts
    <3>2. Set("CONNECTED") \in Todo(Locked)
      BY <3>1, LockMoves
    <3>3. Head(Locked) = Set("CONNECTED")
      BY <1>1, <1>5, <1>8, <3>2 DEF ConnSet
    <3>4. set_state
      BY <3>3, OpFacts DEF LockWork, Doing, publish, free_connected, unpublish, stop_state,
         stop_want, synchronize_rcu, stop_return, Locked
    <3>5. Locked' = <<>>
      BY <3>3, <3>4, LockMoves
    <3> QED BY <3>5, EmptyProg
  <2>2. ~(Busy("lock")' /\ Head(Locked') = Set("CONNECTED"))
    <3> SUFFICES ASSUME Busy("lock")', Head(Locked') = Set("CONNECTED") PROVE FALSE
      OBVIOUS
    <3>1. PICK q : q = Locked'
      OBVIOUS
    <3>2. q # <<>> /\ q \in Seq(Ops)
      BY <1>0, <3>1, LockMoves DEF Busy, Locked
    <3> QED BY <2>1, <3>1, <3>2, TailProg
  <2>3. ConnSet'
    BY <2>1 DEF ConnSet, Todo
  <2>4. CASE set_state /\ Head(Locked) = Set("CONNECTED")
    <3>1. Todo(Locked) = {Set("CONNECTED")} /\ Locked' = <<>>
      BY <1>2, <2>4, LockStatic, LockMoves
    <3>2. /\ connect_bss \in Bss /\ bss_sta[connect_bss] \in Sta
          /\ Attached(bss_sta[connect_bss])
      BY <1>1, <1>2, <1>5, <1>8, <2>4 DEF ConnHas, Linked
    <3>3. PICK s \in Sta : s = bss_sta[connect_bss]
      BY <3>2
    <3>4. Attached(s)'
      BY <1>6, <3>2, <3>3
    <3>5. UNCHANGED <<connect_bss, bss_sta>>
      BY <2>4 DEF set_state, bss
    <3>6. ConnHas'
      BY <3>2, <3>3, <3>4, <3>5 DEF ConnHas, Linked
    <3> QED BY <2>3, <3>1, <3>6 DEF ConnWhen, Idle, Locked
  <2>5. CASE set_state /\ Head(Locked) # Set("CONNECTED")
    <3>1. state' # "CONNECTED"
      <4>1. Head(Locked) \in Ops /\ Head(Locked).op = "set" /\ state' = Head(Locked).to
        BY <1>2, <2>5, TailProg DEF set_state, Doing, Locked
      <4> QED BY <2>5, <4>1, OpForms
    <3> QED BY <2>2, <2>3, <3>1 DEF ConnWhen, ConnHas
  <2>6. CASE free_connected
    <3>1. UNCHANGED <<state, connect_bss, bss_sta>> /\ Locked' # <<>>
          /\ (state = "CONNECTED" => Head(Locked') = Set("OPEN"))
      BY <2>6, LockEffect DEF free_connected, bss
    <3>2. ConnWhen'
      BY <3>1, OpFacts DEF ConnWhen, Doing, Busy, Locked
    <3>3. ASSUME state' = "CONNECTED"
          PROVE  /\ connect_bss' \in Bss /\ bss_sta'[connect_bss'] \in Sta
                 /\ Linked(bss_sta[connect_bss])'
      <4>1. /\ connect_bss \in Bss /\ bss_sta[connect_bss] \in Sta
            /\ Attached(bss_sta[connect_bss])
        BY <1>1, <1>5, <1>8, <3>1, <3>3 DEF ConnHas, Linked
      <4>2. PICK s \in Sta : s = bss_sta[connect_bss]
        BY <4>1
      <4>3. Attached(s)'
        BY <1>6, <4>1, <4>2
      <4> QED BY <3>1, <4>1, <4>2, <4>3 DEF Linked
    <3> QED BY <2>2, <2>3, <3>2, <3>3 DEF ConnHas
  <2>7. CASE unpublish \/ stop_state \/ stop_want \/ synchronize_rcu \/ stop_return
    <3>1. state' = state
      BY <2>7 DEF unpublish, stop_state, stop_want, synchronize_rcu, stop_return
    <3>2. ~Idle("lock") /\ ~Doing("lock", "free_connected") /\ ~Doing("lock", "set")
      BY <2>7 DEF unpublish, stop_state, stop_want, synchronize_rcu, stop_return, Doing, Idle, Busy
    <3>3. state' # "CONNECTED"
      BY <1>1, <1>5, <1>8, <3>1, <3>2 DEF ConnWhen
    <3> QED BY <2>2, <2>3, <3>3 DEF ConnWhen, ConnHas
  <2> QED BY <1>8, <2>4, <2>5, <2>6, <2>7 DEF LockWork
<1> QED BY <1>7, <1>8

\* Whatever is begun leaves the connection alone at first.
LEMMA ConnBegin ==
  ASSUME TypeOK, ProgInv, FoundInv, ListInv, NewInv, ConnInv, [Next]_vars, Begin
  PROVE  ConnWhen' /\ ConnHas' /\ ConnSet'
<1>1. ConnWhen /\ ConnHas /\ ConnSet
  BY ConnParts
<1>2. UNCHANGED <<state, connect_bss, bss_sta>> /\ Idle("lock")
  BY BeginFrame
<1>3. ~Work("lock") /\ ~del_unlink("lock")
  BY <1>2, WorkFrame DEF Idle, Busy, Work, sta_del
<1>4. ~Has(Locked, "publish")
  BY <1>2, EmptyProg DEF Has, Idle, Locked
<1>5. CASE Locked' = Locked
  BY <1>2, <1>3, <1>5, ConnKept
<1>6. CASE Locked' # Locked
  <2>1. ASSUME state' = "CONNECTED"
        PROVE  /\ connect_bss' \in Bss /\ bss_sta'[connect_bss'] \in Sta
               /\ Linked(bss_sta[connect_bss])'
    <3>1. /\ connect_bss \in Bss /\ bss_sta[connect_bss] \in Sta
          /\ Attached(bss_sta[connect_bss])
      BY <1>1, <1>2, <1>4, <2>1 DEF ConnHas, Linked
    <3>2. PICK s \in Sta : s = bss_sta[connect_bss]
      BY <3>1
    <3>3. Attached(s)'
      BY <1>3, <3>1, <3>2, AttachedKept
    <3> QED BY <1>2, <3>1, <3>2, <3>3 DEF Linked
  <2>2. \/ Head(Locked') = Do("free_connected") /\ Todo(Locked') = {Do("free_connected")}
        \/ open /\ Head(Locked') = Set("OPEN") /\ Todo(Locked') = {Set("OPEN")}
        \/ /\ Head(Locked') = IF state = "CONNECTED" THEN Do("free_connected")
                              ELSE Do("stop_state")
           /\ \A o \in Todo(Locked') :
                o.op \in {"free_connected", "stop_state", "stop_want", "del", "sync", "return"}
        \/ /\ Head(Locked') = Del(BssId)
           /\ Todo(Locked') = {Del(BssId), Do("add"), Do("publish"), Set("CONNECTED")}
    BY <1>6, BeginMoves DEF Locked
  <2>3. Locked' # <<>> /\ Locked = <<>>
    BY <1>6, BeginMoves DEF Locked
  <2>4. Head(Locked') # Set("CONNECTED")
    BY <2>2, OpFacts
  <2>5. Set("CONNECTED") \in Todo(Locked') => Has(Locked, "publish")'
    <3>1. Do("publish").op = "publish"
      BY OpFacts
    <3>2. Set("CONNECTED") \in Todo(Locked') => Do("publish") \in Todo(Locked')
      BY <2>2, OpFacts
    <3> QED BY <3>1, <3>2 DEF Has, Todo
  <2>6. ConnWhen'
    <3>1. CASE Head(Locked') = Do("free_connected")
      BY <2>3, <3>1, OpFacts DEF ConnWhen, Doing, Busy, Locked
    <3>2. CASE state # "CONNECTED"
      BY <1>2, <3>2 DEF ConnWhen
    <3>3. CASE Todo(Locked') = {Del(BssId), Do("add"), Do("publish"), Set("CONNECTED")}
      BY <2>5, <3>3 DEF ConnWhen
    <3>4. open => state # "CONNECTED"
      BY DEF open
    <3> QED BY <2>2, <3>1, <3>2, <3>3, <3>4
  <2> QED BY <2>1, <2>4, <2>5, <2>6 DEF ConnHas, ConnSet, Todo
<1> QED BY <1>5, <1>6

\* Every step keeps the connection.
LEMMA ConnNext ==
  ASSUME TypeOK, ProgInv, FoundInv, ListInv, NewInv, ConnInv, [Next]_vars
  PROVE  ConnInv'
<1>0. /\ "lock" \in Ctx /\ "tail" \in Ctx /\ "event" \in Ctx
  BY DEF Ctx
<1>a. ConnWhen' /\ ConnHas' /\ ConnSet' => ConnInv'
  BY DEF ConnInv, ConnWhen, ConnHas, ConnSet, Linked
<1>1. CASE Work("lock")
  BY <1>1, ConnWork, <1>a
<1>2. CASE LockWork
  BY <1>2, ConnLock, <1>a
<1>3. CASE Begin
  BY <1>3, ConnBegin, <1>a
<1>4. ASSUME ~Work("lock"), Locked' = Locked, UNCHANGED <<connect_bss, bss_sta>>,
             state' = "CONNECTED" => state = "CONNECTED"
      PROVE  ConnInv'
  BY <1>4, ConnKept, <1>a
<1>5. ASSUME NEW c \in Ctx, Work(c), c # "lock", ~Work("lock") PROVE ConnInv'
  BY <1>0, <1>4, <1>5, WorkMoves, WorkFrame DEF Locked, bss
<1>6. CASE Events /\ ~Work("lock")
  BY <1>0, <1>4, <1>6, EventMoves, EventFrame DEF Locked, bss
<1>7. CASE ~Work("lock") /\ (mark_dead \/ (\E s \in Sta : free_sta_rcu(s))
           \/ (\E r \in Reader : Read(r)) \/ UNCHANGED vars)
  <2>1. UNCHANGED <<prog, connect_bss, bss_sta>> /\ (state' = "CONNECTED" => state = "CONNECTED")
    BY <1>7, ReadFrame DEF mark_dead, free_sta_rcu, vars, ctl, bss
  <2> QED BY <1>4, <1>7, <2>1 DEF Locked
<1> QED BY <1>1, <1>2, <1>3, <1>5, <1>6, <1>7, Steps

-----------------------------------------------------------------------------
(* The readers *)

\* What a reader may use it may go on using until it leaves its section.
LEMMA KeptKept ==
  ASSUME TypeOK, ProgInv, FoundInv, ListInv, NewInv, [Next]_vars, NEW s \in Sta,
         NEW r \in Reader, rcu[r] # "out", ~read_unlock(r), Kept(r, s), Named(s)
  PROVE  Kept(r, s)'
<1>1. r \in Inside /\ r \notin Ctx
  BY StaTableAssumption DEF Inside, Ctx
<1>2. CASE Safe(r, s)
  BY <1>1, <1>2, SafeKept DEF Kept
<1>3. CASE lost[s] # "nobody"
  BY <1>3, LostKept DEF Kept
<1> QED BY <1>2, <1>3 DEF Kept

\* The part of RcuInv about reader r.
ReaderInv(r) ==
    /\ rcu[r] = "connected" /\ connect_bss # NoBss => Kept(r, bss_sta[connect_bss])
    /\ rcu[r] = "bss" => seen[r] \in Bss /\ Kept(r, bss_sta[seen[r]])
    /\ rcu[r] = "use" => Safe(r, held[r])
    /\ rcu[r] = "bss_use" => Kept(r, held[r])

\* Only publish and unpublish change what a reader finds.
LEMMA BssMoves ==
  ASSUME [Next]_vars
  PROVE  \/ UNCHANGED <<connect_bss, bss_sta>> \/ publish
         \/ connect_bss' = NoBss /\ bss_sta' = bss_sta
<1>1. CASE \E c \in Ctx : Work(c)
  BY <1>1, WorkFrame DEF bss
<1>2. CASE LockWork
  BY <1>2 DEF LockWork, set_state, free_connected, unpublish, stop_state, stop_want,
     synchronize_rcu, stop_return, bss
<1>3. CASE Begin \/ Events
  BY <1>3, BeginFrame, EventFrame DEF bss
<1>4. CASE mark_dead \/ (\E u \in Sta : free_sta_rcu(u)) \/ (\E x \in Reader : Read(x))
           \/ UNCHANGED vars
  BY <1>4, ReadFrame DEF mark_dead, free_sta_rcu, vars, bss
<1> QED BY <1>1, <1>2, <1>3, <1>4, Steps

\* The station that is published can be used by every reader.
LEMMA PublishUse ==
  ASSUME TypeOK, ProgInv, FoundInv, ListInv, NewInv, [Next]_vars, publish
  PROVE  /\ want \in Bss /\ connect_bss' = want
         /\ \E u \in Sta : /\ \A b \in Bss : bss_sta'[b] = IF b = want THEN u ELSE bss_sta[b]
                          /\ \A r \in Reader : Kept(r, u)'
<1>1. Has(Locked, "publish") /\ ~Adding("lock")
  <2>1. Busy("lock") /\ Head(Locked).op = "publish" /\ Locked \in Seq(Ops) /\ Locked # <<>>
    BY DEF publish, Doing, Locked, TypeOK, Ctx, Busy
  <2>2. Head(Locked) \in Todo(Locked)
    BY <2>1, TailProg
  <2> QED BY <2>1, <2>2, LockMoves DEF Has, LockWork
<1>2. new["lock"] \in Sta /\ want \in Bss /\ Attached(new["lock"])
  BY <1>1 DEF NewInv
<1>3. PICK u \in Sta : u = new["lock"]
  BY <1>2
<1>4. ~del_unlink("lock")
  BY DEF publish, del_unlink, Doing
<1>5. Attached(u)'
  BY <1>2, <1>3, <1>4, AttachedKept
<1>6. \A r \in Reader : Kept(r, u)'
  BY <1>5 DEF Attached, Kept, Safe
<1>7. \A b \in Bss : bss_sta'[b] = IF b = want THEN u ELSE bss_sta[b]
  BY <1>2, <1>3 DEF publish, TypeOK
<1>8. connect_bss' = want
  BY DEF publish
<1> QED BY <1>2, <1>6, <1>7, <1>8

\* A reader in its section does not mind what the others do, ...
LEMMA ReaderKept ==
  ASSUME TypeOK, ProgInv, FoundInv, ListInv, NewInv, ConnInv, RcuInv, [Next]_vars,
         NEW r \in Reader, rcu'[r] = rcu[r], seen'[r] = seen[r], held'[r] = held[r],
         ~read_unlock(r)
  PROVE  ReaderInv(r)'
<1>0. ReaderInv(r) /\ r \notin Ctx /\ bss_sta \in [Bss -> Sta \cup {NoSta}]
  BY StaTableAssumption DEF RcuInv, ReaderInv, Ctx, TypeOK
<1>1. ASSUME rcu[r] # "out", NEW b \in Bss, Kept(r, bss_sta[b]) PROVE Kept(r, bss_sta[b])'
  <2>1. PICK s \in Sta : s = bss_sta[b]
    BY <1>1 DEF Kept
  <2>2. Named(s) /\ Kept(r, s)
    BY <1>1, <2>1 DEF Named
  <2>3. Kept(r, s)'
    BY <1>1, <2>2, KeptKept
  <2>4. CASE bss_sta' = bss_sta
    BY <2>1, <2>3, <2>4
  <2>5. CASE publish
    <3>1. PICK u \in Sta : /\ \A d \in Bss : bss_sta'[d] = IF d = want THEN u ELSE bss_sta[d]
                           /\ \A x \in Reader : Kept(x, u)'
      BY <2>5, PublishUse
    <3>2. bss_sta'[b] = u \/ bss_sta'[b] = s
      BY <2>1, <3>1
    <3> QED BY <2>3, <3>1, <3>2
  <2> QED BY <2>4, <2>5, BssMoves
<1>2. rcu[r] = "use" => Safe(r, held[r])'
  <2> SUFFICES ASSUME rcu[r] = "use" PROVE Safe(r, held[r])'
    OBVIOUS
  <2>1. PICK s : s = held[r]
    OBVIOUS
  <2>2. Safe(r, s) /\ r \in Inside
    BY <1>0, <2>1 DEF ReaderInv, Inside
  <2>3. Safe(r, s)'
    BY <1>0, <2>2, SafeKept
  <2> QED BY <2>1, <2>3
<1>3. rcu[r] = "bss_use" => Kept(r, held[r])'
  <2> SUFFICES ASSUME rcu[r] = "bss_use" PROVE Kept(r, held[r])'
    OBVIOUS
  <2>1. Kept(r, held[r])
    BY <1>0 DEF ReaderInv
  <2>2. PICK s \in Sta : s = held[r]
    BY <2>1 DEF Kept
  <2>3. Named(s)
    BY <2>2 DEF Named
  <2>4. Kept(r, s)'
    BY <2>1, <2>2, <2>3, KeptKept
  <2> QED BY <2>2, <2>4
<1>4. rcu[r] = "bss" => seen[r] \in Bss /\ Kept(r, bss_sta[seen[r]])'
  <2> SUFFICES ASSUME rcu[r] = "bss" PROVE seen[r] \in Bss /\ Kept(r, bss_sta[seen[r]])'
    OBVIOUS
  <2>1. PICK b \in Bss : b = seen[r] /\ Kept(r, bss_sta[b])
    BY <1>0 DEF ReaderInv
  <2>2. Kept(r, bss_sta[b])'
    BY <1>1, <2>1
  <2> QED BY <2>1, <2>2
<1>5. rcu[r] = "connected" /\ connect_bss' # NoBss => Kept(r, bss_sta[connect_bss])'
  <2> SUFFICES ASSUME rcu[r] = "connected", connect_bss' # NoBss
               PROVE  Kept(r, bss_sta[connect_bss])'
    OBVIOUS
  <2>1. CASE publish
    <3>1. PICK u \in Sta : /\ \A d \in Bss : bss_sta'[d] = IF d = want THEN u ELSE bss_sta[d]
                           /\ \A x \in Reader : Kept(x, u)'
      BY <2>1, PublishUse
    <3>2. bss_sta'[connect_bss'] = u
      BY <2>1, <3>1, PublishUse
    <3> QED BY <3>1, <3>2
  <2>2. CASE connect_bss' = connect_bss
    <3>1. PICK b \in Bss : b = connect_bss
      BY <2>2 DEF TypeOK
    <3>2. Kept(r, bss_sta[b])
      BY <1>0, <2>2, <3>1 DEF ReaderInv
    <3>3. Kept(r, bss_sta[b])'
      BY <1>1, <3>2
    <3> QED BY <2>2, <3>1, <3>3
  <2> QED BY <2>1, <2>2, BssMoves
<1> QED BY <1>2, <1>3, <1>4, <1>5 DEF ReaderInv

\* ... and in each of its own steps it comes to a station it can use.
LEMMA ReaderStep ==
  ASSUME TypeOK, ListInv, ConnInv, RcuInv, NEW r \in Reader, Read(r)
  PROVE  ReaderInv(r)'
<1>0. /\ rcu \in [Reader -> RcuPC] /\ seen \in [Reader -> Bss \cup {NoBss}]
      /\ held \in [Reader -> Sta \cup {NoSta}] /\ connect_bss \in Bss \cup {NoBss}
      /\ sta_list \in Seq(Sta)
  BY DEF TypeOK
<1>1. UNCHANGED <<life, lost, connect_bss, bss_sta>>
  BY ReadFrame DEF table, hist, bss
<1>2. ASSUME ~read_unlock(r), NEW s
      PROVE  (Safe(r, s)' <=> Safe(r, s)) /\ (Kept(r, s)' <=> Kept(r, s))
  <2>1. grace' = grace
    BY <1>2 DEF Read, read_lock, read_state, read_bss, read_find, read_bss_sta, read_list,
       reorder_tid_timer
  <2> QED BY <1>1, <2>1 DEF Safe, Kept
<1>3. ASSUME NEW n \in DOMAIN sta_list PROVE sta_list[n] \in Sta /\ Safe(r, sta_list[n])
  <2>1. sta_list[n] \in Sta
    BY <1>0
  <2> QED BY <2>1 DEF ListInv, Safe
<1>4. CASE read_lock(r) \/ reorder_tid_timer(r) \/ read_unlock(r)
  BY <1>0, <1>4 DEF read_lock, reorder_tid_timer, read_unlock, Goto, ReaderInv
<1>5. CASE read_state(r)
  <2>1. rcu'[r] = "connected" /\ state = "CONNECTED" /\ ~read_unlock(r)
    BY <1>0, <1>5 DEF read_state, read_unlock, Goto
  <2>2. PICK s \in Sta : s = bss_sta[connect_bss] /\ (Attached(s) \/ lost[s] = "lock")
    BY <2>1 DEF ConnInv
  <2>3. Kept(r, s)
    BY <2>2 DEF Kept, Attached, Safe
  <2>4. Kept(r, s)'
    BY <1>2, <2>1, <2>3
  <2>5. Kept(r, bss_sta[connect_bss])'
    BY <1>1, <2>2, <2>4
  <2> QED BY <2>1, <2>5 DEF ReaderInv
<1>6. CASE read_bss(r)
  <2>1. /\ rcu[r] = "connected" /\ rcu'[r] = "bss" /\ connect_bss \in Bss
        /\ seen'[r] = connect_bss /\ ~read_unlock(r)
    BY <1>0, <1>6 DEF read_bss, read_unlock, Goto, See
  <2>2. PICK s : s = bss_sta[connect_bss] /\ Kept(r, s)
    BY <1>6 DEF RcuInv, read_bss
  <2>3. Kept(r, s)'
    BY <1>2, <2>1, <2>2
  <2> QED BY <1>1, <2>1, <2>2, <2>3 DEF ReaderInv
<1>7. CASE read_find(r) \/ read_list(r)
  <2>1. PICK n \in DOMAIN sta_list : Hold(r, sta_list[n])
    BY <1>7 DEF read_find, read_list
  <2>2. rcu'[r] = "use" /\ ~read_unlock(r)
    BY <1>0, <1>7 DEF read_find, read_list, read_unlock, Goto
  <2>3. PICK s : s = sta_list[n] /\ Safe(r, s)
    BY <1>3
  <2>4. Safe(r, s)'
    BY <1>2, <2>2, <2>3
  <2>5. held'[r] = s
    BY <1>0, <2>1, <2>3 DEF Hold
  <2> QED BY <2>2, <2>4, <2>5 DEF ReaderInv
<1>8. CASE read_bss_sta(r)
  <2>1. rcu[r] = "bss" /\ rcu'[r] = "bss_use" /\ held'[r] = bss_sta[seen[r]] /\ ~read_unlock(r)
    BY <1>0, <1>8 DEF read_bss_sta, read_unlock, Goto, Hold
  <2>2. PICK s : s = bss_sta[seen[r]] /\ Kept(r, s)
    BY <2>1 DEF RcuInv
  <2>3. Kept(r, s)'
    BY <1>2, <2>1, <2>2
  <2> QED BY <2>1, <2>2, <2>3 DEF ReaderInv
<1> QED BY <1>4, <1>5, <1>6, <1>7, <1>8 DEF Read

\* A callback waits only for those who are inside a section.
LEMMA GraceNext ==
  ASSUME TypeOK, ProgInv, FoundInv, ListInv, NewInv, RcuInv, [Next]_vars, NEW s \in Sta
  PROVE  grace'[s] \subseteq Inside'
<1>0. /\ rcu \in [Reader -> RcuPC] /\ found \in [Ctx -> Sta \cup {NoSta}]
      /\ Reader \cap Ctx = {} /\ grace[s] \subseteq Inside
  BY StaTableAssumption DEF TypeOK, Ctx, RcuInv
<1>1. ASSUME Inside \subseteq Inside', grace'[s] = grace[s] PROVE grace'[s] \subseteq Inside'
  BY <1>0, <1>1
<1>2. ASSUME UNCHANGED <<rcu, found>> PROVE Inside' = Inside
  BY <1>2 DEF Inside
<1>3. ASSUME NEW c \in Ctx, Work(c) PROVE grace'[s] \subseteq Inside'
  <2>0. rcu' = rcu
    BY <1>3, WorkFrame DEF reader
  <2>1. CASE del_lookup(c)
    <3>1. found[c] = NoSta
      BY <2>1, InHand DEF del_lookup, Removing, Doing
    <3>2. found' = found \/ \E u : found' = [found EXCEPT ![c] = u]
      BY <2>1 DEF del_lookup
    <3>3. \A d \in Ctx : found[d] # NoSta => found'[d] = found[d]
      BY <1>0, <3>1, <3>2
    <3>4. Inside \subseteq Inside'
      BY <2>0, <3>3 DEF Inside
    <3>5. grace' = grace
      BY <2>1 DEF del_lookup
    <3> QED BY <1>1, <3>4, <3>5
  <2>2. CASE del_unlink(c) \/ sta_add(c)
    BY <1>1, <1>2, <2>0, <2>2 DEF del_unlink, sta_add
  <2>3. CASE del_call_rcu(c)
    <3>1. \A d \in Ctx \ {c} : found'[d] = found[d]
      BY <1>0, <2>3 DEF del_call_rcu
    <3>2. Inside \ {c} \subseteq Inside'
      BY <1>0, <2>0, <3>1 DEF Inside
    <3>3. grace'[s] \subseteq Inside \ {c}
      BY <1>0, <2>3 DEF del_call_rcu
    <3> QED BY <3>2, <3>3
  <2> QED BY <1>3, <2>1, <2>2, <2>3 DEF Work, sta_del
<1>4. CASE LockWork
  BY <1>1, <1>2, <1>4, LockFrame DEF reader
<1>5. CASE Begin
  BY <1>1, <1>2, <1>5, BeginFrame DEF reader
<1>6. CASE Events
  BY <1>1, <1>2, <1>6, EventFrame DEF reader
<1>7. CASE mark_dead \/ (\E u \in Sta : free_sta_rcu(u)) \/ UNCHANGED vars
  BY <1>1, <1>2, <1>7 DEF mark_dead, free_sta_rcu, vars, ctl, reader
<1>8. ASSUME NEW r \in Reader, Read(r) PROVE grace'[s] \subseteq Inside'
  <2>0. found' = found
    BY <1>8, ReadFrame DEF ctl
  <2>1. CASE read_unlock(r)
    <3>1. \A x \in Reader \ {r} : rcu'[x] = rcu[x]
      BY <1>0, <2>1 DEF read_unlock, Goto
    <3>2. Inside \ {r} \subseteq Inside'
      BY <1>0, <2>0, <3>1 DEF Inside
    <3>3. grace'[s] = grace[s] \ {r}
      BY <2>1 DEF read_unlock
    <3> QED BY <1>0, <3>2, <3>3
  <2>2. CASE ~read_unlock(r)
    <3>1. grace' = grace /\ \E l : Goto(r, l) /\ l # "out"
      BY <1>8, <2>2 DEF Read, read_lock, read_state, read_bss, read_find, read_bss_sta,
         read_list, reorder_tid_timer
    <3>2. \A x \in Reader : rcu[x] # "out" => rcu'[x] # "out"
      BY <1>0, <3>1 DEF Goto
    <3>3. Inside \subseteq Inside'
      BY <2>0, <3>2 DEF Inside
    <3> QED BY <1>1, <3>1, <3>3
  <2> QED BY <2>1, <2>2
<1> QED BY <1>3, <1>4, <1>5, <1>6, <1>7, <1>8, Steps

\* Every step keeps the readers' stations.
LEMMA RcuNext ==
  ASSUME TypeOK, ProgInv, FoundInv, ListInv, NewInv, ConnInv, RcuInv, [Next]_vars
  PROVE  RcuInv'
<1>0. /\ rcu \in [Reader -> RcuPC] /\ seen \in [Reader -> Bss \cup {NoBss}]
      /\ held \in [Reader -> Sta \cup {NoSta}]
  BY DEF TypeOK
<1>1. ASSUME NEW r \in Reader PROVE ReaderInv(r)'
  <2>1. CASE Read(r)
    BY <2>1, ReaderStep
  <2>2. CASE ~Read(r)
    <3>1. rcu'[r] = rcu[r] /\ seen'[r] = seen[r] /\ held'[r] = held[r]
      <4>1. CASE \E c \in Ctx : Work(c)
        BY <4>1, WorkFrame DEF reader
      <4>2. CASE LockWork \/ Begin \/ Events
        BY <4>2, LockFrame, BeginFrame, EventFrame DEF reader
      <4>3. CASE mark_dead \/ (\E u \in Sta : free_sta_rcu(u)) \/ UNCHANGED vars
        BY <4>3 DEF mark_dead, free_sta_rcu, vars, reader
      <4>4. ASSUME NEW x \in Reader, Read(x), x # r
            PROVE  rcu'[r] = rcu[r] /\ seen'[r] = seen[r] /\ held'[r] = held[r]
        <5>1. \E l : rcu' = [rcu EXCEPT ![x] = l]
          BY <4>4 DEF Read, read_lock, read_state, read_bss, read_find, read_bss_sta,
             read_list, reorder_tid_timer, read_unlock, Goto
        <5>2. seen' = seen \/ \E b : seen' = [seen EXCEPT ![x] = b]
          BY <4>4 DEF Read, read_lock, read_state, read_bss, read_find, read_bss_sta,
             read_list, reorder_tid_timer, read_unlock, See
        <5>3. held' = held \/ \E s : held' = [held EXCEPT ![x] = s]
          BY <4>4 DEF Read, read_lock, read_state, read_bss, read_find, read_bss_sta,
             read_list, reorder_tid_timer, read_unlock, Hold
        <5> QED BY <1>0, <4>4, <5>1, <5>2, <5>3
      <4> QED BY <2>2, <4>1, <4>2, <4>3, <4>4, Steps
    <3>2. ~read_unlock(r)
      BY <2>2 DEF Read
    <3> QED BY <3>1, <3>2, ReaderKept
  <2> QED BY <2>1, <2>2
<1> QED BY <1>1, GraceNext DEF RcuInv, ReaderInv

-----------------------------------------------------------------------------
(* r92su_stop *)

\* StopInv by parts: what r92su_stop has left to do ...
StopLeft == Has(Locked, "return") =>
    /\ ~down
    /\ Has(Locked, "stop_state") \/ Has(Locked, "set") \/ ~IsOpen
    /\ Has(Locked, "stop_state") \/ ~Has(Locked, "free_connected")
    /\ Set("OPEN") \in Todo(Locked) => Has(Locked, "stop_state")
    /\ Has(Locked, "sync") \/ Doing("lock", "return")
\* ... and what may be done when it returned.
StopDown == down =>
    /\ ~IsOpen
    /\ \A o \in Todo(Locked) :
          o.op \in {"del", "unlink", "call_rcu", "free_connected", "unpublish"} \/ o = Set("OPEN")

\* Nothing changes for r92su_stop while others are at work.
LEMMA StopKept ==
  ASSUME StopInv, Locked' = Locked, down' = down, IsOpen' => IsOpen,
         Synced => prog'["tail"] = prog["tail"]
  PROVE  StopInv'
<1>1. /\ \A n : Has(Locked, n)' <=> Has(Locked, n)
      /\ Doing("lock", "return")' <=> Doing("lock", "return")
      /\ Synced' <=> Synced
      /\ Todo(Locked)' = Todo(Locked)
  BY DEF Has, Todo, Doing, Busy, Locked, Synced
<1>2. Synced' => Idle("tail")'
  BY <1>1 DEF StopInv, Idle
<1> QED BY <1>1, <1>2 DEF StopInv

\* The holder of the lock removes or lists a station.
LEMMA StopWork ==
  ASSUME TypeOK, ProgInv, ListInv, StopInv, Work("lock")
  PROVE  StopInv'
<1>0. "lock" \in Ctx /\ "tail" \in Ctx
  BY DEF Ctx
<1>1. /\ UNCHANGED <<state, down>> /\ Busy("lock") /\ prog'["tail"] = prog["tail"]
      /\ Head(Locked).op \in {"del", "unlink", "call_rcu", "add"}
  BY <1>0, WorkFrame, WorkMoves DEF Locked
<1>2. /\ \A o : o.op \notin {"del", "unlink", "call_rcu", "add"} =>
              (o \in Todo(Locked') <=> o \in Todo(Locked))
      /\ Has(Locked, "add")' => Has(Locked, "add")
  <2>1. \A o : o.op \notin {"del", "unlink", "call_rcu", "add"} =>
              (o \in Todo(prog'["lock"]) <=> o \in Todo(prog["lock"]))
    BY <1>0, WorkMoves
  <2>2. Adding("lock")' => Adding("lock")
    BY <1>0, WorkMoves
  <2> QED BY <2>1, <2>2 DEF Locked, Adding
<1>3. \A n \in {"return", "stop_state", "set", "free_connected", "sync"} :
         Has(Locked, n)' <=> Has(Locked, n)
  <2> TAKE n \in {"return", "stop_state", "set", "free_connected", "sync"}
  <2>1. \A o : o.op = n => (o \in Todo(Locked') <=> o \in Todo(Locked))
    BY <1>2
  <2>2. Todo(Locked)' = Todo(Locked')
    BY DEF Todo
  <2> QED BY <2>1, <2>2 DEF Has
<1>4. Set("OPEN") \in Todo(Locked') <=> Set("OPEN") \in Todo(Locked)
  BY <1>2, OpFacts
<1>5. Has(Locked, "return") => Has(Locked, "sync")
  BY <1>1 DEF StopInv, Doing, Locked
<1>6. ~Doing("lock", "return")'
  <2> SUFFICES ASSUME Doing("lock", "return")' PROVE FALSE
    OBVIOUS
  <2>1. PICK q : q = Locked'
    OBVIOUS
  <2>2. LockShape(q) /\ q \in Seq(Ops) /\ q # <<>> /\ Head(q).op = "return"
    BY <1>0, <2>1, WorkMoves DEF ProgInv, Doing, Busy, Locked
  <2>3. Head(q) \in Todo(q)
    BY <2>2, TailProg
  <2>4. Has(Locked, "return")'
    BY <2>1, <2>2, <2>3 DEF Has, Todo
  <2>5. Has(q, "sync")
    BY <1>3, <1>5, <2>1, <2>4 DEF Has, Todo
  <2> QED BY <2>2, <2>5, LockStatic
<1>7. StopLeft'
  BY <1>1, <1>3, <1>4, <1>5 DEF StopLeft, StopInv, IsOpen, Todo
<1>8. StopDown'
  <2> SUFFICES ASSUME down
               PROVE  /\ ~IsOpen'
                      /\ \A o \in Todo(Locked') :
                           \/ o.op \in {"del", "unlink", "call_rcu",
                                        "free_connected", "unpublish"}
                           \/ o = Set("OPEN")
    BY <1>1 DEF StopDown, Todo
  <2>1. ~IsOpen'
    BY <1>1 DEF StopInv, IsOpen
  <2>2. ~Has(Locked, "add")
    BY OpFacts DEF StopInv, Has
  <2>3. ASSUME NEW o \in Todo(Locked')
        PROVE  \/ o.op \in {"del", "unlink", "call_rcu", "free_connected", "unpublish"}
               \/ o = Set("OPEN")
    <3>1. o.op # "add"
      BY <1>2, <2>2 DEF Has, Todo
    <3> QED BY <1>2, <3>1 DEF StopInv
  <2> QED BY <2>1, <2>3
<1>9. Synced' => Idle("tail")'
  BY <1>1, <1>6 DEF Synced, StopInv, Idle
<1> QED BY <1>7, <1>8, <1>9 DEF StopInv, StopLeft, StopDown

\* r92su_stop goes on to its end, where the tail of connect_bss_work is over.
LEMMA StopLock ==
  ASSUME TypeOK, ProgInv, NewInv, ConnInv, StopInv, LockWork
  PROVE  StopInv'
<1>0. "lock" \in Ctx /\ "tail" \in Ctx /\ Locked \in Seq(Ops)
  BY DEF Ctx, TypeOK, Locked
<1>1. /\ Busy("lock") /\ Locked # <<>> /\ LockShape(Locked) /\ prog'["tail"] = prog["tail"]
      /\ Todo(Locked) = {Head(Locked)} \cup Todo(Tail(Locked)) /\ Plain(Tail(Locked))
  BY LockFrame, LockEffect, LockMoves DEF Busy, Locked, ProgInv
<1>2. /\ Todo(Tail(Locked)) \subseteq Todo(Locked')
      /\ Todo(Locked') \subseteq Todo(Tail(Locked)) \cup
                          {Set("OPEN"), Set("STOP"), Do("unpublish"), Del(BssId)}
  BY LockTodo
<1>3. Todo(Locked)' = Todo(Locked')
  BY DEF Todo
<1>4. Head(Locked) \in Todo(Locked) /\ Head(Locked) \in Ops
  BY <1>0, <1>1, TailProg
<1>5. \A n \in {"return", "stop_state", "sync"} :
         /\ Has(Locked, n)' => Has(Locked, n)
         /\ Has(Locked, n) => Has(Locked, n)' \/ Head(Locked).op = n
  <2> TAKE n \in {"return", "stop_state", "sync"}
  <2>1. \A o \in Todo(Locked') : o.op = n => o \in Todo(Locked)
    BY <1>1, <1>2, OpFacts
  <2>2. \A o \in Todo(Locked) : o = Head(Locked) \/ o \in Todo(Locked')
    BY <1>1, <1>2
  <2> QED BY <1>3, <2>1, <2>2 DEF Has
<1>6. ASSUME Has(Locked, "return"), Head(Locked).op # "return" PROVE Has(Locked, "sync")
  BY <1>6 DEF StopInv, Doing, Locked
<1>7. ASSUME Has(Locked, "sync")' PROVE ~Doing("lock", "return")'
  <2>1. PICK q : q = Locked'
    OBVIOUS
  <2>2. LockShape(q) /\ Has(q, "sync")
    BY <1>3, <1>7, <2>1, LockMoves DEF ProgInv, Locked, Has
  <2>3. q # <<>> /\ Head(q).op # "return"
    BY <2>2, LockStatic
  <2> QED BY <2>1, <2>3 DEF Doing, Locked
<1>8. CASE stop_return
  <2>1. Locked' = <<>> /\ down' = TRUE /\ state' = state /\ Head(Locked).op = "return"
    BY <1>8, LockMoves DEF stop_return, Doing, Locked
  <2>2. Todo(Locked) = {Head(Locked)}
    BY <1>1, <2>1, LockStatic
  <2>3. Has(Locked, "return") /\ ~Has(Locked, "stop_state") /\ ~Has(Locked, "set")
    BY <2>1, <2>2 DEF Has
  <2>4. ~IsOpen' /\ Todo(Locked') = {}
    BY <2>1, <2>3, EmptyProg DEF StopInv, IsOpen
  <2>5. Idle("tail")
    BY <1>1, <2>1 DEF StopInv, Synced, Doing, Locked
  <2> QED BY <1>1, <1>3, <2>4, <2>5 DEF StopInv, Has, Idle
<1>9. CASE ~stop_return
  <2>1. Head(Locked).op # "return"
    BY <1>9, <1>1 DEF LockWork, stop_return, publish, set_state, free_connected, unpublish,
       stop_state, stop_want, synchronize_rcu, Doing, Locked
  <2>2. down' => down
    BY <1>9 DEF LockWork, publish, set_state, free_connected, unpublish,
       stop_state, stop_want, synchronize_rcu
  <2>3. Doing("lock", "return")' => synchronize_rcu
    <3> SUFFICES ASSUME Doing("lock", "return")', ~synchronize_rcu PROVE FALSE
      OBVIOUS
    <3>1. PICK q : q = Locked'
      OBVIOUS
    <3>2. q \in Seq(Ops) /\ q # <<>> /\ Head(q).op = "return"
      BY <1>0, <3>1, LockMoves DEF Doing, Busy, Locked
    <3>3. Has(Locked, "return")'
      BY <1>3, <3>1, <3>2, TailProg DEF Has
    <3>4. Has(Locked, "sync")
      BY <1>5, <1>6, <2>1, <3>3
    <3>5. Head(Locked).op # "sync"
      BY <1>1, <1>9 DEF LockWork, stop_return, publish, set_state, free_connected, unpublish,
         stop_state, stop_want, synchronize_rcu, Doing, Locked
    <3> QED BY <1>5, <1>7, <3>4, <3>5
  <2>4. Synced' => Idle("tail")'
    <3>1. synchronize_rcu => Idle("tail")
      BY DEF synchronize_rcu
    <3> QED BY <1>1, <2>2, <2>3, <3>1 DEF Synced, StopInv, Idle
  <2>5. StopLeft'
    <3> SUFFICES ASSUME Has(Locked, "return")'
                 PROVE  /\ ~down'
                        /\ Has(Locked, "stop_state")' \/ Has(Locked, "set")' \/ ~IsOpen'
                        /\ Has(Locked, "stop_state")' \/ ~Has(Locked, "free_connected")'
                        /\ Set("OPEN") \in Todo(Locked') => Has(Locked, "stop_state")'
                        /\ Has(Locked, "sync")' \/ Doing("lock", "return")'
      BY <1>3 DEF StopLeft
    <3>1. Has(Locked, "return") /\ Has(Locked, "sync")
      BY <1>5, <1>6, <2>1
    <3>2. ~down'
      BY <2>2, <3>1 DEF StopInv
    <3>3. Has(Locked, "sync")' \/ Doing("lock", "return")'
      <4>1. CASE Head(Locked).op = "sync"
        <5>1. synchronize_rcu
          BY <4>1 DEF LockWork, stop_return, publish, set_state, free_connected, unpublish,
             stop_state, stop_want, synchronize_rcu, Doing, Locked
        <5> QED BY <5>1, LockMoves
      <4> QED BY <1>5, <3>1, <4>1
    <3>4. \A o \in Todo(Locked') : o.op # "free_connected"
      BY <1>1, <1>2, OpFacts DEF Plain
    <3>5. ~Has(Locked, "free_connected")'
      BY <1>3, <3>4 DEF Has
    <3>6. Set("OPEN") \in Todo(Locked') => Has(Locked, "stop_state")'
      <4> SUFFICES ASSUME Set("OPEN") \in Todo(Locked') PROVE Has(Locked, "stop_state")'
        OBVIOUS
      <4>1. Set("OPEN") \notin Todo(Tail(Locked))
        BY <1>1, OpFacts DEF Plain
      <4>2. free_connected
        <5>1. CASE publish \/ set_state \/ synchronize_rcu
          BY <4>1, <5>1, LockEffect
        <5>2. CASE unpublish
          BY <4>1, <5>2, LockEffect, OpFacts
        <5>3. CASE stop_state
          <6>1. Set("OPEN") # Set("STOP")
            BY OpFacts
          <6>2. Todo(Locked') = {Set("STOP")} \cup Todo(Tail(Locked)) \/ Locked' = Tail(Locked)
            BY <5>3, LockEffect
          <6> QED BY <4>1, <6>1, <6>2
        <5>4. CASE stop_want
          BY <4>1, <5>4, LockEffect, OpFacts
        <5> QED BY <1>9, <5>1, <5>2, <5>3, <5>4 DEF LockWork
      <4>3. Head(Locked).op = "free_connected"
        BY <4>2 DEF free_connected, Doing, Locked
      <4>4. Has(Locked, "stop_state")
        BY <1>4, <3>1, <4>3 DEF StopInv, Has
      <4> QED BY <1>5, <4>3, <4>4
    <3>7. Has(Locked, "stop_state")' \/ Has(Locked, "set")' \/ ~IsOpen'
      <4>1. CASE stop_state
        <5>1. state' = state
          BY <4>1 DEF stop_state
        <5>2. IsOpen => Set("STOP") \in Todo(Locked')
          BY <4>1, LockEffect
        <5>3. Set("STOP").op = "set"
          BY OpFacts
        <5> QED BY <1>3, <5>1, <5>2, <5>3 DEF Has, IsOpen
      <4>2. CASE Has(Locked, "stop_state") /\ ~stop_state
        <5>1. Head(Locked).op # "stop_state"
          BY <4>2 DEF LockWork, stop_return, publish, set_state, free_connected, unpublish,
             stop_state, stop_want, synchronize_rcu, Doing, Locked
        <5> QED BY <1>5, <4>2, <5>1
      <4>3. CASE set_state /\ ~Has(Locked, "stop_state")
        <5>1. Head(Locked).op = "set" /\ state' = Head(Locked).to
          BY <4>3 DEF set_state, Doing, Locked
        <5>2. Head(Locked) = Set(Head(Locked).to) /\ Head(Locked).to \in State
          BY <1>4, <5>1, OpForms
        <5>3. Head(Locked) # Set("OPEN")
          BY <1>4, <3>1, <4>3 DEF StopInv
        <5>4. Head(Locked) # Set("CONNECTED")
          <6> SUFFICES ASSUME Head(Locked) = Set("CONNECTED") PROVE FALSE
            OBVIOUS
          <6>1. Todo(Locked) = {Head(Locked)}
            BY <1>1, LockStatic
          <6> QED BY <2>1, <3>1, <6>1 DEF Has
        <5> QED BY <5>1, <5>2, <5>3, <5>4 DEF IsOpen
      <4>4. CASE ~set_state /\ ~stop_state /\ ~Has(Locked, "stop_state")
        <5>1. state' = state
          BY <4>4 DEF LockWork, stop_return, publish, free_connected, unpublish, stop_want,
             synchronize_rcu
        <5>2. Has(Locked, "set") => Has(Locked, "set")'
          <6>1. Head(Locked).op # "set"
            BY <4>4 DEF LockWork, stop_return, publish, set_state, free_connected, unpublish,
               stop_state, stop_want, synchronize_rcu, Doing, Locked
          <6>2. \A o \in Todo(Locked) : o.op = "set" => o \in Todo(Locked')
            BY <1>1, <1>2, <6>1
          <6> QED BY <1>3, <6>2 DEF Has
        <5> QED BY <3>1, <4>4, <5>1, <5>2 DEF StopInv, IsOpen
      <4> QED BY <4>1, <4>2, <4>3, <4>4
    <3> QED BY <3>2, <3>3, <3>5, <3>6, <3>7
  <2>6. StopDown'
    <3> SUFFICES ASSUME down, down'
                 PROVE  /\ ~IsOpen'
                        /\ \A o \in Todo(Locked') :
                             \/ o.op \in {"del", "unlink", "call_rcu",
                                          "free_connected", "unpublish"}
                             \/ o = Set("OPEN")
      BY <1>3, <2>2 DEF StopDown
    <3>1. /\ ~IsOpen
          /\ \A o \in Todo(Locked) :
               \/ o.op \in {"del", "unlink", "call_rcu",
                            "free_connected", "unpublish"}
               \/ o = Set("OPEN")
      BY DEF StopInv
    <3>2. ~set_state
      <4> SUFFICES ASSUME set_state PROVE FALSE
        OBVIOUS
      <4>1. Head(Locked).op = "set" /\ state' = Head(Locked).to /\ (down' => state' # "OPEN")
        BY DEF set_state, Doing, Locked
      <4>2. Head(Locked) = Set("OPEN")
        BY <1>4, <3>1, <4>1
      <4> QED BY <4>1, <4>2, OpFacts
    <3>3. free_connected \/ unpublish
      BY <1>4, <1>9, <3>1, <3>2, OpFacts DEF LockWork, publish, stop_state, stop_want,
         synchronize_rcu, Doing, Locked
    <3>4. state' = state
      BY <3>3 DEF free_connected, unpublish
    <3>5. Todo(Locked') \subseteq Todo(Tail(Locked)) \cup {Set("OPEN"), Do("unpublish"), Del(BssId)}
      <4>1. CASE free_connected
        BY <4>1, LockEffect
      <4>2. CASE unpublish
        BY <4>2, LockEffect
      <4> QED BY <3>3, <4>1, <4>2
    <3>6. \A o \in Todo(Locked') :
             \/ o.op \in {"del", "unlink", "call_rcu",
                          "free_connected", "unpublish"}
             \/ o = Set("OPEN")
      BY <1>1, <3>1, <3>5, OpFacts
    <3> QED BY <3>1, <3>4, <3>6 DEF IsOpen
  <2> QED BY <2>4, <2>5, <2>6 DEF StopInv, StopLeft, StopDown
<1> QED BY <1>8, <1>9

\* The holder of the lock begins something.
LEMMA StopBegin ==
  ASSUME TypeOK, ProgInv, StopInv, Begin
  PROVE  StopInv'
<1>0. "lock" \in Ctx /\ "tail" \in Ctx
  BY DEF Ctx
<1>1. UNCHANGED <<state, down>> /\ Idle("lock") /\ Locked = <<>>
  BY BeginFrame, BeginMoves
<1>2. (IsOpen' <=> IsOpen) /\ (down => ~IsOpen) /\ Todo(Locked)' = Todo(Locked')
      /\ (Synced <=> down) /\ (down => Idle("tail"))
  BY <1>1 DEF IsOpen, StopInv, Todo, Synced, Doing, Busy, Idle
<1>3. ASSUME ~Synced', NEW n \in {"stop", "connect"},
             n = "stop" => /\ ~down
                           /\ {Do("sync"), Do("return"), Do("stop_state")} \subseteq Todo(Locked'),
             n = "connect" => \A o \in Todo(Locked') : o.op # "return"
      PROVE  StopInv'
  <2>1. ~down
    BY <1>1, <1>3 DEF Synced
  <2>2. n = "stop" => Has(Locked, "sync")' /\ Has(Locked, "stop_state")'
    BY <1>2, <1>3, OpFacts DEF Has
  <2>3. n = "connect" => ~Has(Locked, "return")'
    BY <1>2, <1>3 DEF Has
  <2> QED BY <1>1, <1>3, <2>1, <2>2, <2>3 DEF StopInv
<1>4. CASE Locked' = Locked /\ prog'["tail"] = prog["tail"]
  BY <1>1, <1>2, <1>4, StopKept
<1>5. CASE connect_work_failed /\ Locked' = Locked
  <2>1. ~Synced' /\ Locked' = <<>>
    BY <1>1, <1>2, <1>5 DEF connect_work_failed, Synced, Doing, Busy, Locked
  <2> QED BY <1>3, <2>1, EmptyProg
<1>6. CASE disconnect /\ Head(Locked') = Do("free_connected")
           /\ Todo(Locked') = {Do("free_connected")} /\ prog'["tail"] = prog["tail"]
  <2>1. Do("free_connected").op = "free_connected" /\ Do("free_connected") # Set("OPEN")
    BY OpFacts
  <2>2. ~Has(Locked, "return")' /\ ~Doing("lock", "return")'
    BY <1>2, <1>6, <2>1 DEF Has, Doing, Locked
  <2>3. \A o \in Todo(Locked)' : o.op = "free_connected"
    BY <1>2, <1>6, <2>1
  <2> QED BY <1>1, <1>2, <1>6, <2>2, <2>3 DEF StopInv, Synced, Idle
<1>7. CASE open /\ Head(Locked') = Set("OPEN") /\ Todo(Locked') = {Set("OPEN")}
           /\ prog'["tail"] = prog["tail"]
  <2>1. Set("OPEN").op = "set"
    BY OpFacts
  <2>2. ~Has(Locked, "return")' /\ ~Doing("lock", "return")'
    BY <1>2, <1>7, <2>1 DEF Has, Doing, Locked
  <2> QED BY <1>1, <1>2, <1>7, <2>2 DEF StopInv, Synced, Idle
<1>8. CASE /\ stop /\ Head(Locked').op # "return"
           /\ {Do("sync"), Do("return"), Do("stop_state")} \subseteq Todo(Locked')
  <2>1. ~Synced' /\ ~down
    BY <1>1, <1>8 DEF stop, Synced, Doing, Locked
  <2> QED BY <1>3, <1>8, <2>1
<1>9. CASE \E s \in Sta : connect_work(s) /\ Head(Locked') = Del(BssId)
              /\ Todo(Locked') = {Del(BssId), Do("add"), Do("publish"), Set("CONNECTED")}
  <2>1. ~down'
    BY <1>1, <1>2, <1>9 DEF connect_work
  <2>2. ~Synced' /\ \A o \in Todo(Locked') : o.op # "return"
    BY <1>9, <2>1, OpFacts DEF Synced, Doing, Locked
  <2> QED BY <1>3, <2>2
<1>10. CASE /\ stop
            /\ Head(Locked') = IF state = "CONNECTED" THEN Do("free_connected")
                               ELSE Do("stop_state")
            /\ {Do("sync"), Do("return"), Do("stop_state")} \subseteq Todo(Locked')
  BY <1>8, <1>10, OpFacts
<1> QED BY <1>1, <1>4, <1>5, <1>6, <1>7, <1>9, <1>10, BeginMoves DEF Locked

\* Every step keeps what r92su_stop has left to do.
LEMMA StopNext ==
  ASSUME TypeOK, ProgInv, FoundInv, ListInv, NewInv, ConnInv, StopInv, [Next]_vars
  PROVE  StopInv'
<1>0. "lock" \in Ctx /\ "tail" \in Ctx /\ "event" \in Ctx
  BY DEF Ctx
<1>1. CASE Work("lock")
  BY <1>1, StopWork
<1>2. ASSUME NEW c \in Ctx, Work(c), c # "lock" PROVE StopInv'
  <2>1. Locked' = Locked /\ UNCHANGED <<state, down>> /\ Busy(c)
        /\ (c # "tail" => prog'["tail"] = prog["tail"])
    BY <1>0, <1>2, WorkMoves, WorkFrame DEF Locked
  <2>2. Synced => prog'["tail"] = prog["tail"]
    BY <2>1 DEF StopInv, Idle, Busy
  <2> QED BY <2>1, <2>2, StopKept DEF IsOpen
<1>3. CASE LockWork
  BY <1>3, StopLock
<1>4. CASE Begin
  BY <1>4, StopBegin
<1>5. CASE Events
  <2>1. Locked' = Locked /\ UNCHANGED <<state, down>> /\ prog'["tail"] = prog["tail"]
    BY <1>0, <1>5, EventMoves, EventFrame DEF Locked
  <2> QED BY <2>1, StopKept DEF IsOpen
<1>6. CASE mark_dead \/ (\E s \in Sta : free_sta_rcu(s)) \/ (\E r \in Reader : Read(r))
           \/ UNCHANGED vars
  <2>1. prog' = prog /\ down' = down /\ (state' = state \/ state' = "DEAD")
    BY <1>6, ReadFrame DEF mark_dead, free_sta_rcu, vars, ctl
  <2> QED BY <2>1, StopKept DEF IsOpen, Locked
<1> QED BY <1>1, <1>2, <1>3, <1>4, <1>5, <1>6, Steps

-----------------------------------------------------------------------------
(* Until two contexts meet *)

\* Two contexts that have met have met for good.
LEMMA RacedStays ==
  ASSUME [Next]_vars, ~raced'
  PROVE  ~raced
<1>1. CASE \E c \in Ctx : Work(c)
  BY <1>1 DEF Work, sta_del, del_lookup, del_unlink, del_call_rcu, sta_add
<1>2. CASE LockWork
  BY <1>2, LockFrame
<1>3. CASE Begin
  BY <1>3 DEF Begin, connect, connect_work, Alloc, Fresh, connect_work_failed, disconnect,
     open, stop, hist
<1>4. CASE Events
  BY <1>4 DEF Events, c2h_add_sta_event, Alloc, Fresh, c2h_del_sta_event, hist
<1>5. CASE mark_dead \/ (\E s \in Sta : free_sta_rcu(s)) \/ (\E r \in Reader : Read(r))
           \/ UNCHANGED vars
  BY <1>5, ReadFrame DEF mark_dead, free_sta_rcu, vars, hist
<1> QED BY <1>1, <1>2, <1>3, <1>4, <1>5, Steps

\* Outside r92su_sta_del and the list_add_rcu, a context that has a station to list
\* had it before, or has just allocated it.
LEMMA AddMoves ==
  ASSUME TypeOK, ProgInv, ProgInv', [Next]_vars, ~(\E c \in Ctx : Work(c)), NEW c \in Ctx,
         Adding(c)'
  PROVE  \/ Adding(c) /\ prog'[c] = prog[c] /\ new'[c] = new[c]
         \/ \E u \in Sta, i \in Ids : Fresh(c, u, i) /\ Doing(c, "del")' /\ Arg(c)' = i
<1>0. /\ "lock" \in Ctx /\ "tail" \in Ctx /\ "event" \in Ctx /\ BssId \in Ids
      /\ c = "lock" \/ c = "tail" \/ c = "event"
  BY StaTableAssumption DEF Ctx, Ids
<1>1. c # "tail"
  BY DEF ProgInv
<1>2. ASSUME prog'[c] = prog[c] PROVE Adding(c)
  BY <1>2 DEF Adding, Has, Todo
<1>a. ASSUME NEW d \in Ctx, NEW u \in Sta, NEW i \in Ids, Fresh(d, u, i), d # c
      PROVE  new'[c] = new[c]
  BY <1>a, FreshFacts
<1>3. CASE LockWork
  <2>1. c # "lock" /\ prog'[c] = prog[c]
    BY <1>3, LockMoves
  <2>2. new'[c] = new[c]
    BY <1>3, <2>1 DEF LockWork, publish, set_state, free_connected, unpublish, stop_state,
       stop_want, synchronize_rcu, stop_return, ctl, TypeOK
  <2> QED BY <1>2, <2>1, <2>2
<1>4. CASE Begin
  <2>1. CASE c = "event"
    <3>1. prog'[c] = prog[c]
      BY <1>4, <2>1, BeginMoves
    <3>2. new'[c] = new[c]
      <4>1. CASE \E s \in Sta : connect_work(s)
        BY <1>0, <1>a, <2>1, <4>1 DEF connect_work, Alloc
      <4>2. CASE ~(\E s \in Sta : connect_work(s))
        BY <1>4, <4>2 DEF Begin, connect, connect_work_failed, disconnect, open, stop, ctl
      <4> QED BY <4>1, <4>2
    <3> QED BY <1>2, <3>1, <3>2
  <2>2. CASE c = "lock"
    <3>1. \E o \in Todo(Locked') : o.op = "add"
      BY <2>2 DEF Adding, Has, Todo, Locked
    <3>2. ~(\A o \in Todo(Locked') : o.op \in {"free_connected", "stop_state", "stop_want",
                                               "set", "del", "sync", "return"})
      BY <3>1
    <3>3. Locked = <<>> /\ Locked' # <<>>
      BY <1>4, <3>1, EmptyProg, BeginMoves
    <3>4. Locked' # Locked
      BY <3>3
    <3>5. PICK s \in Sta : connect_work(s) /\ Locked' # <<>> /\ Head(Locked') = Del(BssId)
      <4>1. Todo(Locked') # {Do("free_connected")} /\ Todo(Locked') # {Set("OPEN")}
        BY <3>1, OpFacts
      <4> QED BY <1>4, <3>1, <3>4, <4>1, BeginMoves DEF Locked
    <3>6. Fresh(c, s, BssId)
      BY <2>2, <3>5 DEF connect_work, Alloc
    <3>7. Doing(c, "del")' /\ Arg(c)' = BssId
      BY <2>2, <3>5, OpFacts DEF Doing, Arg, Busy, Locked
    <3> QED BY <1>0, <3>6, <3>7
  <2> QED BY <1>0, <1>1, <2>1, <2>2
<1>5. CASE Events
  <2>0. \A p \in Peer : p \in Ids
    BY DEF Ids
  <2>1. CASE c = "event"
    BY <1>5, <2>0, <2>1, EventMoves
  <2>2. CASE c # "event"
    <3>1. prog'[c] = prog[c]
      BY <1>5, <2>2, EventMoves
    <3>2. CASE UNCHANGED new
      BY <1>2, <3>1, <3>2
    <3>3. CASE \E p \in Peer, s \in Sta : Fresh("event", s, p)
      BY <1>0, <1>a, <1>2, <2>0, <2>2, <3>1, <3>3
    <3> QED BY <1>5, <3>2, <3>3, EventMoves
  <2> QED BY <2>1, <2>2
<1>6. CASE mark_dead \/ (\E s \in Sta : free_sta_rcu(s)) \/ (\E r \in Reader : Read(r))
           \/ UNCHANGED vars
  <2>1. UNCHANGED <<prog, new>>
    BY <1>6, ReadFrame DEF mark_dead, free_sta_rcu, vars, ctl
  <2> QED BY <1>2, <2>1
<1> QED BY <1>3, <1>4, <1>5, <1>6, Steps

\* ExactInv by parts: the table ...
TableInv ==
    /\ sta_num = Len(sta_list)
    /\ \A s, u \in Sta : life[s] = "listed" /\ u \in Listed(mac_id[s]) => s = u
    /\ \A c \in Ctx : /\ Doing(c, "unlink") => life[found[c]] = "listed"
                      /\ Doing(c, "call_rcu") => life[found[c]] = "unlinked"
    /\ \A c, d \in Ctx : found[c] # NoSta /\ found[c] = found[d] => c = d
    /\ \A s \in Sta : life[s] = "unlinked" => \E c \in Ctx : found[c] = s
\* ... what context c that lists a station knows of its mac id ...
AddInv(c) == Adding(c) =>
    /\ Doing(c, "del") => Arg(c) = mac_id[new[c]]
    /\ Doing(c, "unlink") => mac_id[found[c]] = mac_id[new[c]]
    /\ Doing(c, "call_rcu") \/ Doing(c, "add") => Listed(mac_id[new[c]]) = {}
\* ... and that nobody else lists one there.
AloneInv == \A c, d \in Ctx : Adding(c) /\ Adding(d) /\ mac_id[new[d]] = mac_id[new[c]] => c = d

\* The parts make the whole.
LEMMA ExactParts == ExactInv <=> TableInv /\ (\A c \in Ctx : AddInv(c)) /\ AloneInv
  BY DEF ExactInv, TableInv, AddInv, AloneInv

\* Outside r92su_sta_del and the list_add_rcu the table stays as it is.
LEMMA StillLife ==
  ASSUME TypeOK, ProgInv, FoundInv, ListInv, NewInv, [Next]_vars, ~(\E c \in Ctx : Work(c)),
         NEW s \in Sta
  PROVE  /\ life[s] \in {"listed", "unlinked", "new"} =>
               life'[s] = life[s] /\ mac_id'[s] = mac_id[s]
         /\ life'[s] \in {"listed", "unlinked"} => life'[s] = life[s] /\ mac_id'[s] = mac_id[s]
         /\ life'[s] = "dying" => life[s] = "dying" /\ mac_id'[s] = mac_id[s]
<1>1. \A c \in Ctx : ~sta_add(c) /\ ~del_unlink(c) /\ ~del_call_rcu(c)
  BY DEF Work, sta_del
<1> QED BY <1>1, LifeMoves

\* ... as does its list.
LEMMA StillList ==
  ASSUME [Next]_vars, ~(\E c \in Ctx : Work(c))
  PROVE  UNCHANGED <<sta_list, sta_num>>
<1>1. CASE LockWork \/ Begin \/ Events
  BY <1>1, LockFrame, BeginFrame, EventFrame DEF table
<1>2. CASE mark_dead \/ (\E s \in Sta : free_sta_rcu(s)) \/ (\E r \in Reader : Read(r))
           \/ UNCHANGED vars
  BY <1>2, ReadFrame DEF mark_dead, free_sta_rcu, vars, table
<1> QED BY <1>1, <1>2, Steps

\* So the steps outside r92su_sta_del and the list_add_rcu keep the table exact.
LEMMA ExactOther ==
  ASSUME TypeOK, ProgInv, ProgInv', FoundInv, ListInv, NewInv, [Next]_vars,
         ~(\E c \in Ctx : Work(c)), ExactInv, ~raced'
  PROVE  TableInv' /\ (\A c \in Ctx : AddInv(c)') /\ AloneInv'
<1>0. TableInv /\ (\A c \in Ctx : AddInv(c)) /\ AloneInv
  BY ExactParts
<1>1. /\ found' = found
      /\ \A c \in Ctx : (Removing(c)' <=> Removing(c)) /\ (Removing(c) => prog'[c] = prog[c])
  BY OtherMoves
<1>2. \A c \in Ctx : /\ Doing(c, "unlink")' => Doing(c, "unlink")
                     /\ Doing(c, "call_rcu")' => Doing(c, "call_rcu")
  BY <1>1 DEF Removing, Doing, Busy
<1>3. \A s \in Sta :
         /\ life[s] \in {"listed", "unlinked", "new"} =>
               life'[s] = life[s] /\ mac_id'[s] = mac_id[s]
         /\ life'[s] \in {"listed", "unlinked"} => life'[s] = life[s] /\ mac_id'[s] = mac_id[s]
  BY StillLife
<1>4. \A i : Listed(i)' = Listed(i)
  BY <1>3 DEF Listed
<1>5. \A c \in Ctx : Removing(c) => found[c] \in Sta
  BY InHand
<1>6. TableInv'
  <2>1. sta_num' = Len(sta_list')
    BY <1>0, StillList DEF TableInv
  <2>2. \A s, u \in Sta : life'[s] = "listed" /\ u \in Listed(mac_id[s])' => s = u
    <3>1. \A s \in Sta : life'[s] = "listed" => life[s] = "listed" /\ mac_id'[s] = mac_id[s]
      BY <1>3
    <3>2. \A s, u \in Sta :
             u \in Listed(mac_id[s])' => life'[u] = "listed" /\ mac_id'[u] = mac_id'[s]
      BY DEF Listed
    <3>3. \A s, u \in Sta :
             life[s] = "listed" /\ life[u] = "listed" /\ mac_id[u] = mac_id[s] => s = u
      BY <1>0 DEF TableInv, Listed
    <3> QED BY <3>1, <3>2, <3>3
  <2>3. \A c \in Ctx : /\ Doing(c, "unlink")' => life'[found'[c]] = "listed"
                       /\ Doing(c, "call_rcu")' => life'[found'[c]] = "unlinked"
    BY <1>0, <1>1, <1>2, <1>3, <1>5 DEF TableInv, Removing
  <2>4. \A c, d \in Ctx : found'[c] # NoSta /\ found'[c] = found'[d] => c = d
    BY <1>0, <1>1 DEF TableInv
  <2>5. \A s \in Sta : life'[s] = "unlinked" => \E c \in Ctx : found'[c] = s
    BY <1>0, <1>1, <1>3 DEF TableInv
  <2> QED BY <2>1, <2>2, <2>3, <2>4, <2>5 DEF TableInv
<1>7. ASSUME NEW c \in Ctx, Adding(c)', Adding(c), prog'[c] = prog[c], new'[c] = new[c]
      PROVE  /\ AddInv(c)' /\ new[c] \in Sta /\ life[new[c]] = "new"
             /\ mac_id'[new'[c]] = mac_id[new[c]]
  <2>1. new[c] \in Sta /\ life[new[c]] = "new"
    BY <1>7 DEF NewInv
  <2>2. mac_id'[new'[c]] = mac_id[new[c]]
    BY <1>3, <1>7, <2>1
  <2>3. \A n : Doing(c, n)' <=> Doing(c, n)
    BY <1>7 DEF Doing, Busy
  <2>4. Arg(c)' = Arg(c)
    BY <1>7 DEF Arg
  <2>5. Doing(c, "unlink") => mac_id'[found'[c]] = mac_id[found[c]]
    BY <1>0, <1>1, <1>3, <1>5 DEF TableInv, Removing
  <2>6. Listed(mac_id[new[c]])' = Listed(mac_id[new[c]])
    <3>1. PICK i : i = mac_id[new[c]]
      OBVIOUS
    <3>2. Listed(i)' = Listed(i) /\ mac_id'[new'[c]] = i
      BY <1>4, <2>2, <3>1
    <3> QED BY <3>1, <3>2 DEF Listed
  <2>7. AddInv(c)'
    BY <1>0, <1>7, <2>2, <2>3, <2>4, <2>5, <2>6 DEF AddInv
  <2> QED BY <2>1, <2>2, <2>7
<1>8. ASSUME NEW c \in Ctx, NEW u \in Sta, NEW i \in Ids, Fresh(c, u, i), Doing(c, "del")',
             Arg(c)' = i
      PROVE  AddInv(c)' /\ mac_id'[new'[c]] = i
  <2>1. mac_id'[new'[c]] = i
    BY <1>8, FreshFacts
  <2> QED BY <1>8, <2>1 DEF AddInv, Doing
<1>9. \A c \in Ctx : AddInv(c)'
  <2> TAKE c \in Ctx
  <2>1. CASE ~Adding(c)'
    BY <2>1 DEF AddInv
  <2>2. CASE Adding(c)'
    BY <1>7, <1>8, <2>2, AddMoves
  <2> QED BY <2>1, <2>2
<1>10. ASSUME NEW c \in Ctx, NEW d \in Ctx, NEW u \in Sta, NEW i \in Ids, Fresh(c, u, i),
              c # d, Adding(d)'
       PROVE  mac_id'[new'[d]] # i
  <2>1. new'[d] = new[d]
    BY <1>10, FreshFacts
  <2>2. Adding(d) /\ prog'[d] = prog[d]
    <3>1. \A w \in Sta, j \in Ids : ~Fresh(d, w, j)
      <4> SUFFICES ASSUME NEW w \in Sta, NEW j \in Ids, Fresh(d, w, j) PROVE FALSE
        OBVIOUS
      <4>1. new'[d] = w /\ ~Named(w)
        BY FreshFacts
      <4> QED BY <2>1, <4>1 DEF Named
    <3> QED BY <1>10, <3>1, AddMoves
  <2>3. new[d] \in Sta /\ life[new[d]] = "new" /\ mac_id'[new'[d]] = mac_id[new[d]]
    BY <1>7, <1>10, <2>1, <2>2
  <2> QED BY <1>10, <2>3, StaTableAssumption DEF Fresh
<1>11. AloneInv'
  <2> SUFFICES ASSUME NEW c \in Ctx, NEW d \in Ctx, Adding(c)', Adding(d)',
                      mac_id'[new'[d]] = mac_id'[new'[c]], c # d
               PROVE  FALSE
    BY DEF AloneInv
  <2>1. CASE \E u \in Sta, i \in Ids : Fresh(c, u, i) /\ Doing(c, "del")' /\ Arg(c)' = i
    BY <1>8, <1>10, <2>1
  <2>2. CASE \E u \in Sta, i \in Ids : Fresh(d, u, i) /\ Doing(d, "del")' /\ Arg(d)' = i
    BY <1>8, <1>10, <2>2
  <2>3. CASE /\ Adding(c) /\ prog'[c] = prog[c] /\ new'[c] = new[c]
             /\ Adding(d) /\ prog'[d] = prog[d] /\ new'[d] = new[d]
    BY <1>0, <1>7, <2>3 DEF AloneInv
  <2> QED BY <2>1, <2>2, <2>3, AddMoves
<1> QED BY <1>6, <1>9, <1>11

\* What context d knows of its mac id does not change when another context takes a
\* step that lists no station there.
LEMMA AddKept ==
  ASSUME TypeOK, NewInv, NEW d \in Ctx, AddInv(d), prog'[d] = prog[d],
         new'[d] = new[d], found'[d] = found[d], mac_id' = mac_id,
         Adding(d) => \A s \in Sta : life'[s] = "listed" /\ mac_id[s] = mac_id[new[d]] =>
                          life[s] = "listed"
  PROVE  AddInv(d)'
<1>1. /\ Adding(d)' <=> Adding(d)
      /\ \A n : Doing(d, n)' <=> Doing(d, n)
      /\ Arg(d)' = Arg(d)
  BY DEF Adding, Has, Todo, Doing, Busy, Arg
<1>2. Adding(d) => Listed(mac_id[new[d]])' \subseteq Listed(mac_id[new[d]])
  BY DEF Listed
<1> QED BY <1>1, <1>2 DEF AddInv

\* r92su_sta_del and the list_add_rcu keep the table exact.
LEMMA ExactWork ==
  ASSUME TypeOK, ProgInv, FoundInv, ListInv, NewInv, [Next]_vars,
         NEW c \in Ctx, Work(c), ExactInv, ~raced'
  PROVE  TableInv' /\ (\A d \in Ctx : AddInv(d)') /\ AloneInv'
<1>0. TableInv /\ (\A d \in Ctx : AddInv(d)) /\ AloneInv
  BY ExactParts
<1>a. /\ new \in [Ctx -> Sta \cup {NoSta}] /\ found \in [Ctx -> Sta \cup {NoSta}]
      /\ life \in [Sta -> Life] /\ NoSta \notin Sta /\ sta_num \in Int /\ sta_list \in Seq(Sta)
  BY StaTableAssumption DEF TypeOK
<1>1. /\ \A d \in Ctx \ {c} : prog'[d] = prog[d]
      /\ mac_id' = mac_id
  BY WorkMoves, WorkFrame
<1>2. \A d \in Ctx \ {c} : /\ Adding(d)' <=> Adding(d)
                           /\ \A n : Doing(d, n)' <=> Doing(d, n)
  BY <1>1 DEF Adding, Has, Todo, Doing, Busy
<1>3. \A d \in Ctx : Removing(d) => found[d] \in Sta /\ found[d] # NoSta
  BY InHand
<1>4. \A d \in Ctx : (Doing(d, "unlink") \/ Doing(d, "call_rcu")) <=> found[d] # NoSta
  BY DEF FoundInv, Removing
<1>5. ASSUME new' = new, \A d \in Ctx : Adding(d)' => Adding(d) PROVE AloneInv'
  BY <1>0, <1>1, <1>5 DEF AloneInv
<1>6. CASE del_lookup(c)
  <2>1. /\ UNCHANGED <<sta_list, sta_num, life, new>> /\ Doing(c, "del") /\ found[c] = NoSta
        /\ Head(prog[c]) = Del(Arg(c))
    BY <1>4, <1>6, WorkMoves DEF del_lookup, table, Doing
  <2>2. Adding(c)' <=> Adding(c)
    BY <1>6, WorkMoves DEF del_lookup, sta_add, Doing
  <2>3. AloneInv'
    BY <1>2, <1>5, <2>1, <2>2
  <2>4. \A i : Listed(i)' = Listed(i)
    BY <1>1, <2>1 DEF Listed
  <2>5. \A s \in Sta : Listed(mac_id[s])' = Listed(mac_id[s])
    BY <1>1, <2>1 DEF Listed
  <2>6. /\ sta_num' = Len(sta_list')
        /\ \A s, u \in Sta : life'[s] = "listed" /\ u \in Listed(mac_id[s])' => s = u
    BY <1>0, <2>1, <2>5 DEF TableInv
  <2>7. Adding(c) => Arg(c) = mac_id[new[c]]
    BY <1>0, <2>1 DEF AddInv
  <2>8. CASE Listed(Arg(c)) = {} /\ UNCHANGED found /\ Through(c)'
    <3>1. \A d \in Ctx : AddInv(d)'
      <4> TAKE d \in Ctx
      <4>1. CASE d = c
        <5>1. Adding(c)' => Listed(mac_id[new[c]])' = {}
          <6> SUFFICES ASSUME Adding(c)' PROVE Listed(mac_id[new[c]])' = {}
            OBVIOUS
          <6>1. PICK i : i = mac_id[new[c]]
            OBVIOUS
          <6>2. Listed(i) = {} /\ Listed(i)' = {} /\ mac_id'[new'[c]] = i
            BY <1>1, <2>1, <2>2, <2>4, <2>7, <2>8, <6>1
          <6> QED BY <6>2 DEF Listed
        <5>2. Adding(c)' => Doing(c, "add")'
          BY <2>8 DEF Through
        <5>3. Adding(c)' => ~Doing(c, "del")' /\ ~Doing(c, "unlink")'
          BY <5>2 DEF Doing
        <5> QED BY <4>1, <5>1, <5>3 DEF AddInv
      <4>2. CASE d # c
        BY <1>0, <1>1, <2>1, <2>8, <4>2, AddKept
      <4> QED BY <4>1, <4>2
    <3>2. \A d \in Ctx : /\ Doing(d, "unlink")' => life'[found'[d]] = "listed"
                         /\ Doing(d, "call_rcu")' => life'[found'[d]] = "unlinked"
      <4> TAKE d \in Ctx
      <4>1. CASE d = c
        BY <2>8, <4>1 DEF Through, Removing
      <4> QED BY <1>0, <1>2, <2>1, <2>8, <4>1 DEF TableInv
    <3>3. /\ \A d, e \in Ctx : found'[d] # NoSta /\ found'[d] = found'[e] => d = e
          /\ \A s \in Sta : life'[s] = "unlinked" => \E d \in Ctx : found'[d] = s
      BY <1>0, <2>1, <2>8 DEF TableInv
    <3> QED BY <2>3, <2>6, <3>1, <3>2, <3>3 DEF TableInv
  <2>9. ASSUME NEW s \in Listed(Arg(c)), Doing(c, "unlink")',
               found' = [found EXCEPT ![c] = s], raced' = (raced \/ \E d \in Ctx : found[d] = s)
        PROVE  TableInv' /\ (\A d \in Ctx : AddInv(d)') /\ AloneInv'
    <3>1. s \in Sta /\ life[s] = "listed" /\ mac_id[s] = Arg(c)
      BY DEF Listed
    <3>2. /\ found'[c] = s /\ \A d \in Ctx \ {c} : found'[d] = found[d]
          /\ \A d \in Ctx : found[d] # s
      BY <1>a, <2>9
    <3>3. \A d \in Ctx : AddInv(d)'
      <4> TAKE d \in Ctx
      <4>1. CASE d = c
        <5>1. Adding(c)' => mac_id'[found'[c]] = mac_id'[new'[c]]
          BY <1>1, <2>1, <2>2, <2>7, <3>1, <3>2
        <5>2. ~Doing(c, "del")' /\ ~Doing(c, "call_rcu")' /\ ~Doing(c, "add")'
          BY <2>9 DEF Doing
        <5> QED BY <4>1, <5>1, <5>2 DEF AddInv
      <4>2. CASE d # c
        BY <1>0, <1>1, <2>1, <3>2, <4>2, AddKept
      <4> QED BY <4>1, <4>2
    <3>4. \A d \in Ctx : /\ Doing(d, "unlink")' => life'[found'[d]] = "listed"
                         /\ Doing(d, "call_rcu")' => life'[found'[d]] = "unlinked"
      <4> TAKE d \in Ctx
      <4>1. CASE d = c
        BY <2>1, <2>9, <3>1, <3>2, <4>1 DEF Doing
      <4> QED BY <1>0, <1>2, <2>1, <3>2, <4>1 DEF TableInv
    <3>5. \A d, e \in Ctx : found'[d] # NoSta /\ found'[d] = found'[e] => d = e
      BY <1>0, <3>2 DEF TableInv
    <3>6. ASSUME NEW u \in Sta, life'[u] = "unlinked" PROVE \E d \in Ctx : found'[d] = u
      <4>1. PICK d \in Ctx : found[d] = u
        BY <1>0, <2>1, <3>6 DEF TableInv
      <4>2. d # c
        BY <1>a, <2>1, <4>1
      <4> QED BY <3>2, <4>1, <4>2
    <3> QED BY <2>3, <2>6, <3>3, <3>4, <3>5, <3>6 DEF TableInv
  <2> QED BY <1>6, <2>8, <2>9, WorkMoves
<1>7. CASE del_unlink(c)
  <2>1. PICK s \in Sta : s = found[c] /\ life[s] = "listed"
    BY <1>0, <1>3, <1>7 DEF del_unlink, TableInv, Removing
  <2>2. /\ UNCHANGED <<new, found>> /\ sta_num' = sta_num - 1 /\ sta_list' = Unlinked(s)
        /\ Doing(c, "unlink")
        /\ \A u \in Sta : life'[u] = IF u = s THEN "unlinked" ELSE life[u]
    BY <1>a, <1>7, <2>1 DEF del_unlink
  <2>3. (Adding(c)' <=> Adding(c)) /\ Doing(c, "call_rcu")'
    BY <1>7, <2>2, WorkMoves DEF sta_add, Doing
  <2>4. AloneInv'
    BY <1>2, <1>5, <2>2, <2>3
  <2>5. sta_num' = Len(sta_list')
    BY <1>0, <2>1, <2>2, UnlinkedFacts DEF TableInv
  <2>6. \A u, w \in Sta : life'[u] = "listed" /\ w \in Listed(mac_id[u])' => u = w
    <3>1. \A u \in Sta : Listed(mac_id[u])' \subseteq Listed(mac_id[u])
      BY <1>1, <2>2 DEF Listed
    <3>2. \A u \in Sta : life'[u] = "listed" => life[u] = "listed"
      BY <2>2
    <3> QED BY <1>0, <3>1, <3>2 DEF TableInv
  <2>7. \A d \in Ctx : /\ Doing(d, "unlink")' => life'[found'[d]] = "listed"
                       /\ Doing(d, "call_rcu")' => life'[found'[d]] = "unlinked"
    <3> TAKE d \in Ctx
    <3>1. CASE d = c
      BY <2>1, <2>2, <2>3, <3>1 DEF Doing
    <3>2. CASE d # c
      <4>1. found[d] # NoSta => found[d] # s
        BY <1>0, <2>1, <3>2 DEF TableInv
      <4>2. Removing(d) => found[d] \in Sta \ {s}
        BY <1>3, <4>1
      <4> QED BY <1>0, <1>2, <2>2, <3>2, <4>2 DEF TableInv, Removing
    <3> QED BY <3>1, <3>2
  <2>8. /\ \A d, e \in Ctx : found'[d] # NoSta /\ found'[d] = found'[e] => d = e
        /\ \A u \in Sta : life'[u] = "unlinked" => \E d \in Ctx : found'[d] = u
    BY <1>0, <2>1, <2>2 DEF TableInv
  <2>9. \A d \in Ctx : AddInv(d)'
    <3> TAKE d \in Ctx
    <3>1. CASE d = c
      <4>1. Adding(c)' => Listed(mac_id[new[c]])' = {}
        <5> SUFFICES ASSUME Adding(c)', NEW w \in Sta, life'[w] = "listed",
                            mac_id'[w] = mac_id'[new'[c]]
                     PROVE  FALSE
          BY DEF Listed
        <5>1. mac_id[s] = mac_id[new[c]]
          BY <1>0, <2>1, <2>2, <2>3 DEF AddInv
        <5>2. life[w] = "listed" /\ w # s /\ mac_id[w] = mac_id[s]
          BY <1>1, <2>2, <5>1
        <5> QED BY <1>0, <2>1, <5>2 DEF TableInv, Listed
      <4>2. ~Doing(c, "del")' /\ ~Doing(c, "unlink")'
        BY <2>3 DEF Doing
      <4> QED BY <3>1, <4>1, <4>2 DEF AddInv
    <3>2. CASE d # c
      BY <1>0, <1>1, <2>2, <3>2, AddKept
    <3> QED BY <3>1, <3>2
  <2> QED BY <2>4, <2>5, <2>6, <2>7, <2>8, <2>9 DEF TableInv
<1>8. CASE del_call_rcu(c)
  <2>1. PICK s \in Sta : s = found[c] /\ life[s] = "unlinked"
    BY <1>0, <1>3, <1>8 DEF del_call_rcu, TableInv, Removing
  <2>2. /\ UNCHANGED <<new, sta_num, sta_list>> /\ Doing(c, "call_rcu")
        /\ found'[c] = NoSta /\ \A d \in Ctx \ {c} : found'[d] = found[d]
        /\ \A u \in Sta : life'[u] = IF u = s THEN "dying" ELSE life[u]
    BY <1>a, <1>8, <2>1 DEF del_call_rcu
  <2>3. (Adding(c)' <=> Adding(c)) /\ Through(c)'
    BY <1>8, <2>2, WorkMoves DEF sta_add, Doing
  <2>4. AloneInv'
    BY <1>2, <1>5, <2>2, <2>3
  <2>5. \A u \in Sta : life'[u] = "listed" <=> life[u] = "listed"
    BY <2>1, <2>2
  <2>6. \A u \in Sta : Listed(mac_id[u])' = Listed(mac_id[u])
    BY <1>1, <2>5 DEF Listed
  <2>7. /\ sta_num' = Len(sta_list')
        /\ \A u, w \in Sta : life'[u] = "listed" /\ w \in Listed(mac_id[u])' => u = w
    BY <1>0, <2>2, <2>5, <2>6 DEF TableInv
  <2>8. \A d \in Ctx : /\ Doing(d, "unlink")' => life'[found'[d]] = "listed"
                       /\ Doing(d, "call_rcu")' => life'[found'[d]] = "unlinked"
    <3> TAKE d \in Ctx
    <3>1. CASE d = c
      BY <2>3, <3>1 DEF Through, Removing
    <3>2. CASE d # c
      <4>1. Removing(d) => found[d] \in Sta \ {s}
        BY <1>0, <1>3, <2>1, <3>2 DEF TableInv
      <4> QED BY <1>0, <1>2, <2>2, <3>2, <4>1 DEF TableInv, Removing
    <3> QED BY <3>1, <3>2
  <2>9. \A d, e \in Ctx : found'[d] # NoSta /\ found'[d] = found'[e] => d = e
    BY <1>0, <2>2 DEF TableInv
  <2>10. ASSUME NEW u \in Sta, life'[u] = "unlinked" PROVE \E d \in Ctx : found'[d] = u
    <3>1. u # s /\ life[u] = "unlinked"
      BY <2>2, <2>10
    <3>2. PICK d \in Ctx : found[d] = u
      BY <1>0, <3>1 DEF TableInv
    <3> QED BY <2>1, <2>2, <3>1, <3>2
  <2>11. \A d \in Ctx : AddInv(d)'
    <3> TAKE d \in Ctx
    <3>1. CASE d = c
      <4>1. Adding(c)' => Listed(mac_id[new[c]])' = {}
        <5>1. Adding(c)' => Listed(mac_id[new[c]]) = {} /\ new[c] \in Sta
          BY <1>0, <2>2, <2>3 DEF AddInv, NewInv
        <5> QED BY <2>2, <2>6, <5>1
      <4>2. Adding(c)' => Doing(c, "add")'
        BY <2>3 DEF Through
      <4>3. Adding(c)' => ~Doing(c, "del")' /\ ~Doing(c, "unlink")'
        BY <4>2 DEF Doing
      <4> QED BY <3>1, <4>1, <4>3 DEF AddInv
    <3>2. CASE d # c
      BY <1>0, <1>1, <2>2, <2>5, <3>2, AddKept
    <3> QED BY <3>1, <3>2
  <2> QED BY <2>4, <2>7, <2>8, <2>9, <2>10, <2>11 DEF TableInv
<1>9. CASE sta_add(c)
  <2>1. Adding(c) /\ ~Adding(c)' /\ ~Removing(c)' /\ Doing(c, "add")
    BY <1>9, WorkMoves DEF sta_add
  <2>2. PICK s \in Sta : s = new[c] /\ life[s] = "new"
    BY <2>1 DEF NewInv
  <2>3. /\ UNCHANGED found /\ sta_num' = sta_num + 1 /\ sta_list' = <<s>> \o sta_list
        /\ \A d \in Ctx \ {c} : new'[d] = new[d]
        /\ \A u \in Sta : life'[u] = IF u = s THEN "listed" ELSE life[u]
    BY <1>a, <1>9, <2>2 DEF sta_add
  <2>4. Listed(mac_id[s]) = {}
    BY <1>0, <2>1, <2>2 DEF AddInv
  <2>5. sta_num' = Len(sta_list')
    BY <1>0, <2>2, <2>3, AddFacts DEF TableInv
  <2>6. \A u, w \in Sta : life'[u] = "listed" /\ w \in Listed(mac_id[u])' => u = w
    <3> SUFFICES ASSUME NEW u \in Sta, NEW w \in Sta, life'[u] = "listed", life'[w] = "listed",
                        mac_id[u] = mac_id[w]
                 PROVE  u = w
      BY <1>1 DEF Listed
    <3>1. \A x \in Sta : life[x] = "listed" => mac_id[x] # mac_id[s]
      BY <2>4 DEF Listed
    <3>2. life[u] = "listed" /\ life[w] = "listed" => u = w
      BY <1>0 DEF TableInv, Listed
    <3> QED BY <2>3, <3>1, <3>2
  <2>7. \A d \in Ctx : /\ Doing(d, "unlink")' => life'[found'[d]] = "listed"
                       /\ Doing(d, "call_rcu")' => life'[found'[d]] = "unlinked"
    <3> TAKE d \in Ctx
    <3>1. CASE d = c
      BY <2>1, <3>1 DEF Removing
    <3>2. CASE d # c
      <4>1. Removing(d) => found[d] \in Sta \ {s}
        BY <1>0, <1>3, <2>2 DEF TableInv, Removing
      <4> QED BY <1>0, <1>2, <2>3, <3>2, <4>1 DEF TableInv, Removing
    <3> QED BY <3>1, <3>2
  <2>8. /\ \A d, e \in Ctx : found'[d] # NoSta /\ found'[d] = found'[e] => d = e
        /\ \A u \in Sta : life'[u] = "unlinked" => \E d \in Ctx : found'[d] = u
    BY <1>0, <2>3 DEF TableInv
  <2>9. \A d \in Ctx : AddInv(d)'
    <3> TAKE d \in Ctx
    <3>1. CASE d = c
      BY <2>1, <3>1 DEF AddInv
    <3>2. CASE d # c
      <4>1. Adding(d) => mac_id[new[d]] # mac_id[s]
        BY <1>0, <2>1, <2>2, <3>2 DEF AloneInv
      <4> QED BY <1>0, <1>1, <2>3, <3>2, <4>1, AddKept
    <3> QED BY <3>1, <3>2
  <2>10. AloneInv'
    BY <1>0, <1>1, <1>2, <2>1, <2>3 DEF AloneInv
  <2> QED BY <2>5, <2>6, <2>7, <2>8, <2>9, <2>10 DEF TableInv
<1> QED BY <1>6, <1>7, <1>8, <1>9 DEF Work, sta_del

\* Every step keeps the table exact until two contexts meet.
LEMMA ExactNext ==
  ASSUME TypeOK, ProgInv, ProgInv', FoundInv, ListInv, NewInv, [Next]_vars, ExactInv, ~raced'
  PROVE  ExactInv'
<1>1. TableInv' /\ (\A c \in Ctx : AddInv(c)') /\ AloneInv'
  BY ExactWork, ExactOther
<1>2. TableInv' /\ (\A c \in Ctx : AddInv(c)') /\ AloneInv' => ExactInv'
  BY DEF ExactInv, TableInv, AddInv, AloneInv
<1> QED BY <1>1, <1>2

-----------------------------------------------------------------------------
(* What r92su_stop leaves *)

\* What the stations of a step outside r92su_sta_del and the list_add_rcu were
\* r92su_stop's business before.
LEMMA LateMoves ==
  ASSUME TypeOK, [Next]_vars, NEW s \in Sta
  PROVE  \/ s \in late => s \in late'
         \/ free_sta_rcu(s)
         \/ set_state /\ down /\ ~down'
<1>1. CASE \E c \in Ctx : Work(c)
  BY <1>1 DEF Work, sta_del, del_lookup, del_unlink, del_call_rcu, sta_add
<1>2. CASE LockWork
  BY <1>2 DEF LockWork, publish, set_state, free_connected, unpublish, stop_state, stop_want,
     synchronize_rcu, stop_return, hist
<1>3. CASE Begin \/ Events
  BY <1>3, BeginFrame, EventFrame
<1>4. CASE mark_dead \/ (\E u \in Sta : free_sta_rcu(u)) \/ (\E r \in Reader : Read(r))
           \/ UNCHANGED vars
  BY <1>4, ReadFrame DEF mark_dead, free_sta_rcu, vars, hist
<1> QED BY <1>1, <1>2, <1>3, <1>4, Steps

\* A sweep in progress has not been begun by this step, or was begun by it.
LEMMA ReturnMoves ==
  ASSUME TypeOK, ProgInv, ListInv, NewInv, [Next]_vars, Has(Locked, "return")'
  PROVE  Has(Locked, "return") \/ (stop /\ \A i \in 0 .. MaxSta - 1 : Del(i) \in Todo(Locked'))
<1>0. /\ "lock" \in Ctx /\ "tail" \in Ctx /\ "event" \in Ctx
      /\ \E o \in Todo(Locked') : o.op = "return"
  BY DEF Ctx, Has, Todo
<1>1. ASSUME Locked' = Locked PROVE Has(Locked, "return")
  BY <1>1 DEF Has, Todo
<1>2. CASE Work("lock")
  <2>1. \A o : o.op = "return" => (o \in Todo(prog'["lock"]) <=> o \in Todo(prog["lock"]))
    BY <1>0, <1>2, WorkMoves
  <2> QED BY <1>0, <2>1 DEF Has, Locked
<1>3. CASE \E c \in Ctx : Work(c) /\ c # "lock"
  BY <1>0, <1>1, <1>3, WorkMoves DEF Locked
<1>4. CASE LockWork
  <2>1. \A o \in Todo(Locked') : o.op = "return" => o \in Todo(Locked)
    BY <1>4, LockTodo, LockMoves, OpFacts
  <2> QED BY <1>0, <2>1 DEF Has
<1>5. CASE Begin
  <2>1. PICK o \in Todo(Locked') : o.op = "return"
    BY <1>0
  <2>2. o # Do("free_connected") /\ o # Set("OPEN")
        /\ o \notin {Del(BssId), Do("add"), Do("publish"), Set("CONNECTED")}
    BY <2>1, OpFacts
  <2>3. Locked = <<>>
    BY <1>5, BeginMoves
  <2>4. Locked' # Locked
    BY <2>1, <2>3, EmptyProg
  <2> QED BY <1>5, <2>1, <2>2, <2>4, BeginMoves DEF Locked
<1>6. CASE Events
  BY <1>0, <1>1, <1>6, EventMoves DEF Locked
<1>7. CASE mark_dead \/ (\E s \in Sta : free_sta_rcu(s)) \/ (\E r \in Reader : Read(r))
           \/ UNCHANGED vars
  <2>1. prog' = prog
    BY <1>7, ReadFrame DEF mark_dead, free_sta_rcu, vars, ctl
  <2> QED BY <1>1, <2>1 DEF Locked
<1> QED BY <1>2, <1>3, <1>4, <1>5, <1>6, <1>7, Steps

\* What a context other than the holder of the lock lists behind the sweep is late.
LEMMA LateAdd ==
  ASSUME TypeOK, ProgInv, NewInv, NEW c \in Ctx, c # "lock", sta_add(c),
         Has(Locked, "return") \/ down
  PROVE  /\ c = "event" /\ new[c] \in Sta
         /\ new[c] \in late' \/ (~down /\ Del(mac_id[new[c]]) \in Todo(Locked))
<1>1. Adding(c) /\ new[c] \in Sta
  <2>1. Doing(c, "add") /\ prog[c] \in Seq(Ops) /\ prog[c] # <<>>
    BY DEF sta_add, Doing, Busy, TypeOK
  <2>2. Head(prog[c]) \in Todo(prog[c]) /\ Head(prog[c]).op = "add"
    BY <2>1, TailProg DEF Doing
  <2> QED BY <2>2 DEF Adding, Has, NewInv
<1>2. c = "event"
  BY <1>1 DEF ProgInv, Ctx
<1>3. ToSet(Locked) = Todo(Locked)
  BY DEF ToSet, Todo
<1>4. Has(Locked, "return") => Do("return") \in Todo(Locked)
  <2> SUFFICES ASSUME NEW o \in Todo(Locked), o.op = "return" PROVE o = Do("return")
    BY DEF Has
  <2>1. o \in Ops
    BY DEF Todo, Locked, TypeOK, Ctx
  <2> QED BY <2>1, OpForms
<1>5. Swept(mac_id[new[c]]) => new[c] \in late'
  BY <1>2 DEF sta_add
<1>6. ~Swept(mac_id[new[c]]) => ~down /\ Del(mac_id[new[c]]) \in Todo(Locked)
  BY <1>3, <1>4 DEF Swept, Locked
<1> QED BY <1>1, <1>2, <1>5, <1>6

\* Every step keeps r92su_stop on the way to every station until two contexts meet.
LEMMA SweepNext ==
  ASSUME TypeOK, ProgInv, FoundInv, ListInv, NewInv, StopInv, [Next]_vars, ExactInv, SweepInv
  PROVE  SweepInv'
<1> SUFFICES ASSUME Has(Locked, "return")', NEW s \in Sta, life'[s] = "listed",
                    mac_id'[s] < MaxSta, s \notin late'
             PROVE  Del(mac_id'[s]) \in Todo(Locked')
                    \/ (Doing("lock", "unlink")' /\ found'["lock"] = s)
  BY DEF SweepInv, Todo
<1>0. /\ "lock" \in Ctx /\ "tail" \in Ctx /\ "event" \in Ctx
      /\ life \in [Sta -> Life] /\ found \in [Ctx -> Sta \cup {NoSta}] /\ NoSta \notin Sta
  BY StaTableAssumption DEF Ctx, TypeOK
<1>1. CASE Has(Locked, "return") /\ life[s] = "listed" /\ mac_id[s] = mac_id'[s] /\ s \notin late
  <2>1. \/ Del(mac_id[s]) \in Todo(Locked)
        \/ Doing("lock", "unlink") /\ found["lock"] = s
    BY <1>1 DEF SweepInv
  <2>2. ASSUME Locked' = Locked, found'["lock"] = found["lock"]
        PROVE  Del(mac_id'[s]) \in Todo(Locked')
               \/ (Doing("lock", "unlink")' /\ found'["lock"] = s)
    BY <1>1, <2>1, <2>2 DEF Doing, Busy, Locked
  <2>3. CASE del_lookup("lock")
    <3>1. /\ \A o \in Todo(Locked) \ Todo(Locked') : o = Del(Arg("lock"))
          /\ \/ Listed(Arg("lock")) = {}
             \/ /\ Doing("lock", "unlink")'
                /\ \E u \in Listed(Arg("lock")) : found' = [found EXCEPT !["lock"] = u]
      BY <1>0, <2>3, WorkMoves DEF Work, sta_del, Locked
    <3>2. Del(mac_id[s]) \in Todo(Locked)
      BY <2>1, <2>3 DEF del_lookup, Doing
    <3>3. CASE Del(mac_id[s]) \notin Todo(Locked')
      <4>1. mac_id[s] = Arg("lock")
        BY <3>1, <3>2, <3>3, OpFacts
      <4>2. s \in Listed(Arg("lock"))
        BY <1>1, <4>1 DEF Listed
      <4>3. PICK u \in Listed(Arg("lock")) : found' = [found EXCEPT !["lock"] = u]
        BY <3>1, <4>2
      <4>4. u = s
        BY <1>1, <4>1 DEF ExactInv, Listed
      <4> QED BY <1>0, <3>1, <4>2, <4>3, <4>4
    <3> QED BY <1>1, <3>2, <3>3
  <2>4. CASE del_unlink("lock") \/ del_call_rcu("lock")
    <3>1. Doing("lock", "unlink") => s # found["lock"]
      <4> SUFFICES ASSUME Doing("lock", "unlink"), s = found["lock"] PROVE FALSE
        OBVIOUS
      <4>1. del_unlink("lock")
        BY <2>4 DEF del_call_rcu, Doing
      <4>2. life'[s] = "unlinked"
        BY <1>0, <1>1, <4>1 DEF del_unlink
      <4> QED BY <4>2
    <3>2. Del(mac_id[s]) \in Todo(Locked) /\ Head(Locked) # Del(mac_id[s])
      BY <2>1, <2>4, <3>1, OpFacts DEF del_unlink, del_call_rcu, Doing, Locked
    <3>3. \A o \in Todo(Locked) \ Todo(Locked') : o = Head(Locked)
      BY <1>0, <2>4, WorkMoves DEF Work, sta_del, Locked
    <3> QED BY <1>1, <3>2, <3>3
  <2>5. CASE sta_add("lock")
    <3>1. Adding("lock")
      BY <1>0, <2>5, WorkMoves DEF Work
    <3>2. LockShape(Locked) /\ Has(Locked, "add")
      BY <3>1 DEF ProgInv, Adding, Locked
    <3>3. ~Has(Locked, "return")
      BY <3>2, LockStatic
    <3> QED BY <1>1, <3>3
  <2>6. ASSUME NEW c \in Ctx, Work(c), c # "lock"
        PROVE  Del(mac_id'[s]) \in Todo(Locked')
               \/ (Doing("lock", "unlink")' /\ found'["lock"] = s)
    <3>1. Locked' = Locked
      BY <1>0, <2>6, WorkMoves DEF Locked
    <3>2. found'["lock"] = found["lock"]
      BY <1>0, <2>6 DEF Work, sta_del, del_lookup, del_unlink, del_call_rcu, sta_add
    <3> QED BY <2>2, <3>1, <3>2
  <2>7. CASE LockWork
    <3>1. /\ Todo(Locked) = {Head(Locked)} \cup Todo(Tail(Locked))
          /\ Todo(Tail(Locked)) \subseteq Todo(Locked') /\ Head(Locked).op # "del"
          /\ ~Doing("lock", "unlink")
      BY <2>7, LockMoves, LockTodo, LockFrame DEF Doing, Locked
    <3>2. Head(Locked) # Del(mac_id[s])
      BY <3>1, OpFacts
    <3> QED BY <1>1, <2>1, <3>1, <3>2
  <2>8. CASE Begin
    BY <1>0, <1>1, <2>8, BeginMoves, EmptyProg DEF Has
  <2>9. CASE Events
    BY <1>0, <2>2, <2>9, EventMoves, EventFrame DEF Locked
  <2>10. CASE mark_dead \/ (\E u \in Sta : free_sta_rcu(u)) \/ (\E r \in Reader : Read(r))
           \/ UNCHANGED vars
    <3>1. prog' = prog /\ found' = found
      BY <2>10, ReadFrame DEF mark_dead, free_sta_rcu, vars, ctl
    <3> QED BY <2>2, <3>1 DEF Locked
  <2> QED BY <2>3, <2>4, <2>5, <2>6, <2>7, <2>8, <2>9, <2>10, Steps DEF Work, sta_del
<1>2. CASE stop /\ \A i \in 0 .. MaxSta - 1 : Del(i) \in Todo(Locked')
  <2>1. mac_id'[s] = mac_id[s]
    BY <1>2 DEF stop, table
  <2>2. mac_id[s] \in Nat
    <3>1. mac_id[s] \in Ids
      BY DEF TypeOK
    <3>2. Peer \subseteq Nat /\ MaxSta \in Nat
      BY StaTableAssumption
    <3>3. \A i \in 0 .. MaxSta - 1 : i \in Nat
      BY <3>2
    <3> QED BY <3>1, <3>2, <3>3 DEF Ids
  <2>3. mac_id[s] \in 0 .. MaxSta - 1
    BY <2>1, <2>2, StaTableAssumption
  <2> QED BY <1>2, <2>1, <2>3
<1>3. CASE Has(Locked, "return") /\ life[s] # "listed"
  <2>1. PICK c \in Ctx : sta_add(c) /\ s = new[c] /\ mac_id'[s] = mac_id[s] /\ Adding(c)
    BY <1>3, LifeMoves
  <2>2. c # "lock"
    <3> SUFFICES ASSUME c = "lock" PROVE FALSE
      OBVIOUS
    <3>1. LockShape(Locked) /\ Has(Locked, "add")
      BY <2>1 DEF ProgInv, Adding, Locked
    <3> QED BY <1>3, <3>1, LockStatic
  <2>3. Locked' = Locked
    BY <1>0, <2>1, <2>2, WorkMoves DEF Work, Locked
  <2> QED BY <1>3, <2>1, <2>2, <2>3, LateAdd
<1>4. CASE Has(Locked, "return") /\ life[s] = "listed"
  <2>1. mac_id'[s] = mac_id[s]
    BY <1>4, LifeMoves
  <2>2. ~free_sta_rcu(s)
    BY <1>4 DEF free_sta_rcu
  <2>3. ~down
    BY <1>4 DEF StopInv
  <2>4. s \notin late
    BY <2>2, <2>3, LateMoves
  <2> QED BY <1>1, <1>4, <2>1, <2>4
<1> QED BY <1>2, <1>3, <1>4, ReturnMoves

\* r92su_stop comes to its end by waiting for the open sections, and only then.
LEMMA SyncedMoves ==
  ASSUME TypeOK, ProgInv, ProgInv', ListInv, NewInv, StopInv, [Next]_vars, Synced'
  PROVE  Synced \/ synchronize_rcu
<1>0. "lock" \in Ctx /\ "tail" \in Ctx /\ "event" \in Ctx
  BY DEF Ctx
<1>1. down' => down \/ stop_return
  <2>1. CASE \E c \in Ctx : Work(c)
    BY <2>1, WorkFrame
  <2>2. CASE LockWork
    BY <2>2 DEF LockWork, publish, set_state, free_connected, unpublish, stop_state, stop_want,
       synchronize_rcu
  <2>3. CASE Begin \/ Events
    BY <2>3, BeginFrame, EventFrame
  <2>4. CASE mark_dead \/ (\E u \in Sta : free_sta_rcu(u)) \/ (\E r \in Reader : Read(r))
             \/ UNCHANGED vars
    BY <2>4, ReadFrame DEF mark_dead, free_sta_rcu, vars
  <2> QED BY <2>1, <2>2, <2>3, <2>4, Steps
<1>2. stop_return => Synced
  BY DEF stop_return, Synced
<1>3. CASE Doing("lock", "return")'
  <2>1. PICK q : q = Locked'
    OBVIOUS
  <2>2. LockShape(q) /\ q # <<>> /\ q \in Seq(Ops) /\ Head(q).op = "return"
    BY <1>3, <2>1 DEF ProgInv, Doing, Busy, Locked, LockShape, WorkShape
  <2>3. ~Has(q, "sync") /\ Has(q, "return") /\ Todo(q) = {Head(q)}
    BY <2>2, LockStatic, TailProg DEF Has
  <2>4. CASE Has(Locked, "return")
    <3> SUFFICES ASSUME ~Doing("lock", "return"), ~synchronize_rcu PROVE FALSE
      BY DEF Synced
    <3>1. PICK o \in Todo(Locked) : o.op = "sync"
      BY <2>4 DEF StopInv, Has
    <3>2. o \notin Todo(Locked')
      BY <2>1, <2>3, <3>1 DEF Has
    <3>3. CASE Work("lock")
      <4>1. o \in Todo(prog'["lock"]) <=> o \in Todo(prog["lock"])
        BY <1>0, <3>1, <3>3, WorkMoves
      <4> QED BY <3>1, <3>2, <4>1 DEF Locked
    <3>4. CASE LockWork
      <4>1. o = Head(Locked)
        BY <3>1, <3>2, <3>4, LockMoves, LockTodo
      <4>2. Head(Locked).op # "sync"
        BY <3>4 DEF LockWork, stop_return, publish, set_state, free_connected, unpublish,
           stop_state, stop_want, synchronize_rcu, Doing, Locked
      <4> QED BY <3>1, <4>1, <4>2
    <3>5. Locked' # Locked
      BY <3>1, <3>2
    <3>6. CASE Begin
      BY <3>1, <3>6, BeginMoves, EmptyProg
    <3>7. CASE \E c \in Ctx : Work(c) /\ c # "lock"
      BY <1>0, <3>5, <3>7, WorkMoves DEF Locked
    <3>8. CASE Events
      BY <1>0, <3>5, <3>8, EventMoves DEF Locked
    <3>9. CASE mark_dead \/ (\E u \in Sta : free_sta_rcu(u)) \/ (\E r \in Reader : Read(r))
               \/ UNCHANGED vars
      BY <3>5, <3>9, ReadFrame DEF mark_dead, free_sta_rcu, vars, ctl, Locked
    <3> QED BY <3>3, <3>4, <3>6, <3>7, <3>8, <3>9, Steps
  <2>5. CASE ~Has(Locked, "return")
    <3>1. Has(Locked, "return")'
      BY <2>1, <2>3 DEF Has, Todo
    <3>2. stop
      BY <2>5, <3>1, ReturnMoves
    <3>3. Head(Locked') = Do("free_connected") \/ Head(Locked') = Do("stop_state")
      <4>1. PICK p : p = When(state = "CONNECTED", <<Do("free_connected")>>)
                         \o <<Do("stop_state"), Do("stop_want")>> \o Sweep
                         \o <<Do("sync"), Do("return")>>
        OBVIOUS
      <4>2. Head(p) = Do("free_connected") \/ Head(p) = Do("stop_state")
        BY <4>1, StopProg
      <4>3. Start("lock", p)
        BY <3>2, <4>1 DEF stop
      <4>4. Locked' = p
        BY <1>0, <4>3, CtxFacts DEF Locked
      <4> QED BY <4>2, <4>4
    <3> QED BY <2>1, <2>2, <3>3, OpFacts
  <2> QED BY <2>4, <2>5
<1> QED BY <1>1, <1>2, <1>3 DEF Synced

\* Which sections r92su_stop waits for.
Waits == IF down THEN {} ELSE sync
\* What station s may be when r92su_stop has swept it.
QuietSta(s) ==
    /\ life[s] # "listed"
    /\ life[s] = "unlinked" => found["event"] = s /\ "event" \in Waits
    /\ life[s] = "dying" => grace[s] \subseteq Waits

\* The end of the sweep.
LEMMA QuietSync ==
  ASSUME TypeOK, ProgInv, FoundInv, RcuInv, StopInv, ExactInv, SweepInv, synchronize_rcu,
         NEW s \in Sta, mac_id'[s] < MaxSta, s \notin late'
  PROVE  QuietSta(s)'
<1>0. "lock" \in Ctx /\ "tail" \in Ctx /\ NoSta \notin Sta
      /\ \A c \in Ctx : c = "lock" \/ c = "tail" \/ c = "event"
  BY StaTableAssumption DEF Ctx
<1>1. /\ UNCHANGED <<life, mac_id, grace, found, down, late>> /\ sync' = Inside
      /\ Doing("lock", "sync") /\ Idle("tail")
  BY DEF synchronize_rcu, table, ctl, hist
<1>2. /\ \A o \in Todo(Locked) : o.op \in {"sync", "return"}
      /\ Has(Locked, "return")
  <2>1. LockShape(Locked) /\ Locked # <<>> /\ Locked \in Seq(Ops) /\ Head(Locked).op = "sync"
    BY <1>0, <1>1 DEF ProgInv, Doing, Busy, Locked, TypeOK
  <2>2. Tail(Locked) # <<>> /\ Head(Tail(Locked)).op = "return"
    BY <2>1, ShapeTail
  <2>3. Tail(Locked) \in Seq(Ops) /\ Todo(Locked) = {Head(Locked)} \cup Todo(Tail(Locked))
    BY <2>1, TailProg
  <2>4. Head(Tail(Locked)) \in Todo(Tail(Locked))
    BY <2>2, <2>3, TailProg
  <2>5. Has(Locked, "return")
    BY <2>2, <2>3, <2>4 DEF Has
  <2> QED BY <2>1, <2>5, LockStatic
<1>3. ~down
  BY <1>2 DEF StopInv
<1>4. Waits' = Inside
  BY <1>1, <1>3 DEF Waits
<1>5. life[s] # "listed"
  <2>1. Del(mac_id[s]) \notin Todo(Locked)
    BY <1>2, OpFacts
  <2>2. ~Doing("lock", "unlink")
    BY <1>1 DEF Doing
  <2> QED BY <1>1, <1>2, <2>1, <2>2 DEF SweepInv
<1>6. ASSUME life[s] = "unlinked" PROVE found["event"] = s /\ "event" \in Inside
  <2>1. PICK c \in Ctx : found[c] = s
    BY <1>6 DEF ExactInv
  <2>2. Removing(c)
    BY <1>0, <2>1 DEF FoundInv
  <2>3. c = "event"
    BY <1>0, <1>1, <2>2 DEF Removing, Doing, Idle, Busy
  <2> QED BY <1>0, <2>1, <2>3 DEF Inside, Ctx
<1>7. grace[s] \subseteq Inside
  BY DEF RcuInv
<1> QED BY <1>1, <1>4, <1>5, <1>6, <1>7 DEF QuietSta

\* Who removes or lists a station behind the sweep.
LEMMA QuietWork ==
  ASSUME TypeOK, ProgInv, FoundInv, ListInv, NewInv, StopInv, ExactInv, Synced,
         NEW c \in Ctx, Work(c), NEW s \in Sta, s \notin late', s \notin late => QuietSta(s)
  PROVE  QuietSta(s)'
<1>0. "lock" \in Ctx /\ "event" \in Ctx /\ life \in [Sta -> Life]
      /\ found \in [Ctx -> Sta \cup {NoSta}] /\ NoSta \notin Sta
  BY StaTableAssumption DEF Ctx, TypeOK
<1>1. late \subseteq late' /\ down' = down
  BY WorkFrame DEF Work, sta_del, del_lookup, del_unlink, del_call_rcu, sta_add
<1>2. QuietSta(s)
  BY <1>1
<1>3. \A d \in Ctx : found[d] # NoSta <=> Doing(d, "unlink") \/ Doing(d, "call_rcu")
  BY DEF FoundInv, Removing
<1>4. CASE del_lookup(c)
  <2>1. UNCHANGED <<life, grace, sync>> /\ Waits' = Waits
    BY <1>1, <1>4 DEF del_lookup, table, Waits
  <2>2. found["event"] = s => c # "event"
    BY <1>0, <1>3, <1>4 DEF del_lookup, Doing
  <2>3. found["event"] = s => found'["event"] = s
    BY <1>0, <1>4, <2>2 DEF del_lookup
  <2> QED BY <1>2, <2>1, <2>3 DEF QuietSta
<1>5. CASE del_unlink(c)
  <2>1. life[found[c]] = "listed" /\ found[c] # s
    BY <1>2, <1>5 DEF del_unlink, ExactInv, QuietSta
  <2>2. life'[s] = life[s] /\ UNCHANGED <<grace, sync, found>>
    BY <1>0, <1>5, <2>1 DEF del_unlink
  <2>3. Waits' = Waits
    BY <1>1, <2>2 DEF Waits
  <2> QED BY <1>2, <2>2, <2>3 DEF QuietSta
<1>6. CASE del_call_rcu(c)
  <2>1. life[found[c]] = "unlinked" /\ found[c] # NoSta
    BY <1>3, <1>6 DEF del_call_rcu, ExactInv
  <2>2. found[c] # s
    <3> SUFFICES ASSUME found[c] = s PROVE FALSE
      OBVIOUS
    <3>1. found["event"] = s
      BY <1>2, <2>1 DEF QuietSta
    <3>2. c = "event"
      BY <1>0, <2>1, <3>1 DEF ExactInv
    <3> QED BY <1>6, <3>2 DEF del_call_rcu
  <2>3. life'[s] = life[s] /\ grace'[s] = grace[s] \ {c} /\ Waits' = Waits \ {c}
    BY <1>0, <1>1, <1>6, <2>2 DEF del_call_rcu, Waits
  <2>4. found["event"] = s => c # "event" /\ found'["event"] = s
    BY <1>0, <1>6, <2>2 DEF del_call_rcu
  <2> QED BY <1>2, <2>3, <2>4 DEF QuietSta
<1>7. CASE sta_add(c)
  <2>1. c # "lock"
    <3> SUFFICES ASSUME c = "lock" PROVE FALSE
      OBVIOUS
    <3>1. Doing("lock", "add") /\ Locked \in Seq(Ops) /\ Locked # <<>>
      BY <1>0, <1>7 DEF sta_add, Doing, Busy, Locked, TypeOK
    <3>2. Head(Locked) \in Todo(Locked) /\ Head(Locked).op = "add"
      BY <3>1, TailProg DEF Doing, Locked
    <3>3. down
      BY <3>1 DEF Synced, Doing
    <3> QED BY <3>2, <3>3, OpFacts DEF StopInv
  <2>2. new[c] # s
    <3>1. CASE down
      BY <1>7, <2>1, <3>1, LateAdd
    <3>2. CASE Doing("lock", "return")
      <4>1. LockShape(Locked) /\ Locked \in Seq(Ops) /\ Locked # <<>> /\ Head(Locked).op = "return"
        BY <1>0, <3>2 DEF ProgInv, Doing, Busy, Locked, TypeOK
      <4>2. Todo(Locked) = {Head(Locked)}
        BY <4>1, LockStatic
      <4>3. Has(Locked, "return") /\ \A i : Del(i) \notin Todo(Locked)
        BY <4>1, <4>2, OpFacts DEF Has
      <4> QED BY <1>7, <2>1, <4>3, LateAdd
    <3> QED BY <3>1, <3>2 DEF Synced
  <2>3. life'[s] = life[s] /\ UNCHANGED <<grace, sync, found>>
    BY <1>0, <1>7, <2>2 DEF sta_add
  <2>4. Waits' = Waits
    BY <1>1, <2>3 DEF Waits
  <2> QED BY <1>2, <2>3, <2>4 DEF QuietSta
<1> QED BY <1>4, <1>5, <1>6, <1>7 DEF Work, sta_del

\* What the other steps do behind the sweep.
LEMMA QuietOther ==
  ASSUME TypeOK, ProgInv, ProgInv', FoundInv, ListInv, NewInv, StopInv, Synced, Synced',
         [Next]_vars, ~(\E c \in Ctx : Work(c)), ~synchronize_rcu,
         NEW s \in Sta, s \notin late', mac_id'[s] < MaxSta,
         s \notin late /\ mac_id[s] < MaxSta => QuietSta(s)
  PROVE  QuietSta(s)'
<1>0. "lock" \in Ctx /\ "event" \in Ctx /\ "event" \notin Reader /\ found' = found
  BY OtherMoves, StaTableAssumption DEF Ctx
<1>1. ~(set_state /\ down /\ ~down')
  <2> SUFFICES ASSUME set_state, down, ~down' PROVE FALSE
    OBVIOUS
  <2>1. PICK q : q = Tail(Locked)
    OBVIOUS
  <2>2. Locked' = q /\ Todo(Locked) = {Head(Locked)} \cup Todo(q)
    BY <2>1, LockEffect, LockMoves DEF LockWork
  <2>3. q # <<>> /\ q \in Seq(Ops) /\ Head(q).op = "return"
    BY <1>0, <2>2 DEF Synced, Doing, Busy, Locked, ProgInv, LockShape, WorkShape
  <2>4. Head(q) \in Todo(Locked)
    BY <2>2, <2>3, TailProg
  <2> QED BY <2>3, <2>4, OpFacts DEF StopInv
<1>2. CASE free_sta_rcu(s)
  <2>1. life'[s] = "free"
    BY <1>2 DEF free_sta_rcu, TypeOK
  <2> QED BY <2>1 DEF QuietSta
<1>3. CASE ~free_sta_rcu(s)
  <2>1. s \notin late
    BY <1>1, <1>3, LateMoves
  <2>2. /\ life'[s] \in {"listed", "unlinked"} => life'[s] = life[s] /\ mac_id'[s] = mac_id[s]
        /\ life'[s] = "dying" => life[s] = "dying" /\ mac_id'[s] = mac_id[s]
    BY StillLife
  <2>3. ASSUME grace[s] \subseteq Waits => grace'[s] \subseteq Waits',
               "event" \in Waits => "event" \in Waits'
        PROVE  QuietSta(s)'
    BY <1>0, <2>1, <2>2, <2>3 DEF QuietSta
  <2>4. CASE UNCHANGED <<grace, sync, down>>
    BY <2>3, <2>4 DEF Waits
  <2>5. CASE LockWork
    <3>1. UNCHANGED <<grace, sync>>
      BY <2>5 DEF LockWork, publish, set_state, free_connected, unpublish, stop_state, stop_want,
         synchronize_rcu, stop_return
    <3>2. CASE stop_return
      <4>1. sync = {} /\ down' = TRUE
        BY <3>2 DEF stop_return
      <4> QED BY <2>3, <3>1, <4>1 DEF Waits
    <3>3. CASE ~stop_return
      <4>1. down' = down
        <5>1. down \in BOOLEAN
          BY DEF TypeOK
        <5> QED BY <1>1, <2>5, <3>3, <5>1 DEF LockWork, publish, set_state,
                   free_connected, unpublish,
               stop_state, stop_want, synchronize_rcu
      <4> QED BY <2>4, <3>1, <4>1
    <3> QED BY <3>2, <3>3
  <2>6. CASE Begin \/ Events
    BY <2>4, <2>6, BeginFrame, EventFrame
  <2>7. CASE mark_dead \/ (\E u \in Sta : free_sta_rcu(u)) \/ UNCHANGED vars
    BY <2>4, <2>7 DEF mark_dead, free_sta_rcu, vars
  <2>8. ASSUME NEW r \in Reader, Read(r) PROVE QuietSta(s)'
    <3>1. down' = down
      BY <2>8, ReadFrame
    <3>2. CASE read_unlock(r)
      <4>1. grace'[s] = grace[s] \ {r} /\ Waits' = Waits \ {r}
        BY <3>1, <3>2 DEF read_unlock, Waits
      <4> QED BY <1>0, <2>3, <4>1
    <3>3. CASE ~read_unlock(r)
      <4>1. UNCHANGED <<grace, sync>>
        BY <2>8, <3>3 DEF Read, read_lock, read_state, read_bss, read_find, read_bss_sta,
           read_list, reorder_tid_timer
      <4> QED BY <2>4, <3>1, <4>1
    <3> QED BY <3>2, <3>3
  <2> QED BY <2>5, <2>6, <2>7, <2>8, Steps
<1> QED BY <1>2, <1>3

\* Every step keeps quiet what is quiet until two contexts meet.
LEMMA QuietNext ==
  ASSUME TypeOK, ProgInv, ProgInv', FoundInv, ListInv, NewInv, RcuInv, StopInv, [Next]_vars,
         ExactInv, SweepInv, QuietInv
  PROVE  QuietInv'
<1> SUFFICES ASSUME Synced', NEW s \in Sta, mac_id'[s] < MaxSta, s \notin late'
             PROVE  QuietSta(s)'
  BY DEF QuietInv, QuietSta, Waits
<1>1. CASE synchronize_rcu
  BY <1>1, QuietSync
<1>2. CASE ~synchronize_rcu
  <2>1. Synced
    BY <1>2, SyncedMoves
  <2>2. s \notin late /\ mac_id[s] < MaxSta => QuietSta(s)
    BY <2>1 DEF QuietInv, QuietSta, Waits
  <2>3. CASE \E c \in Ctx : Work(c)
    <3>1. PICK c \in Ctx : Work(c)
      BY <2>3
    <3>2. mac_id' = mac_id
      BY <3>1, WorkFrame
    <3>3. s \notin late => QuietSta(s)
      BY <2>2, <3>2
    <3> QED BY <2>1, <3>1, <3>3, QuietWork
  <2>4. CASE ~(\E c \in Ctx : Work(c))
    BY <1>2, <2>1, <2>2, <2>4, QuietOther
  <2> QED BY <2>3, <2>4
<1> QED BY <1>1, <1>2

-----------------------------------------------------------------------------
(* The invariant *)

\* The invariant holds initially.
LEMMA InductiveInit == Init => Inductive
<1> SUFFICES ASSUME Init PROVE Inductive
  OBVIOUS
<1>0. /\ "lock" \in Ctx /\ "tail" \in Ctx /\ "event" \in Ctx /\ NoSta \notin Sta
      /\ \A c \in Ctx : c = "lock" \/ c = "tail" \/ c = "event"
  BY StaTableAssumption DEF Ctx
<1>1. \A c \in Ctx : prog[c] = <<>>
  BY DEF Init
<1>2. /\ \A c \in Ctx : Idle(c) /\ ~Busy(c) /\ (\A n : ~Doing(c, n)) /\ ~Removing(c) /\ ~Adding(c)
      /\ Locked = <<>> /\ Todo(Locked) = {} /\ \A n : ~Has(Locked, n)
  BY <1>0, <1>1, EmptyProg DEF Idle, Busy, Doing, Removing, Adding, Has, Locked
<1>3. LockShape(<<>>) /\ SideShape(<<>>)
  BY EmptyProg DEF LockShape, SideShape, WorkShape
<1>4. TypeOK
  <2>1. 0 \in Ids
    BY StaTableAssumption DEF Ids
  <2>2. <<>> \in Seq(Sta) /\ <<>> \in Seq(Ops)
    BY EmptyProg
  <2>3. prog \in [Ctx -> Seq(Ops)]
    BY <2>2 DEF Init
  <2>4. mac_id \in [Sta -> Ids] /\ life \in [Sta -> Life]
    BY <2>1 DEF Init, Life
  <2>5. /\ state \in State /\ down \in BOOLEAN
        /\ want \in Bss \cup {NoBss} /\ connect_bss \in Bss \cup {NoBss}
        /\ bss_sta \in [Bss -> Sta \cup {NoSta}] /\ sta_list \in Seq(Sta) /\ sta_num \in Int
        /\ grace \in [Sta -> SUBSET (Reader \cup Ctx)] /\ sync \subseteq Reader \cup Ctx
    BY <2>2 DEF Init, State
  <2>6. /\ new \in [Ctx -> Sta \cup {NoSta}] /\ found \in [Ctx -> Sta \cup {NoSta}]
        /\ rcu \in [Reader -> RcuPC] /\ seen \in [Reader -> Bss \cup {NoBss}]
        /\ held \in [Reader -> Sta \cup {NoSta}]
    BY DEF Init, RcuPC
  <2>7. raced \in BOOLEAN /\ lost \in [Sta -> Ctx \cup {"nobody"}] /\ late \subseteq Sta
    BY DEF Init
  <2> QED BY <2>3, <2>4, <2>5, <2>6, <2>7 DEF TypeOK
<1>5. ProgInv
  BY <1>0, <1>1, <1>2, <1>3 DEF ProgInv
<1>6. FoundInv
  BY <1>2 DEF Init, FoundInv
<1>7. ListInv
  BY DEF Init, ListInv
<1>8. NewInv
  BY <1>2 DEF Init, NewInv
<1>9. ConnInv
  BY <1>0, <1>2 DEF Init, ConnInv
<1>10. RcuInv
  BY DEF Init, RcuInv
<1>11. StopInv
  BY <1>0, <1>2 DEF Init, StopInv, IsOpen
<1>12. ExactInv
  BY <1>2 DEF Init, ExactInv, Listed
<1>13. SweepInv
  BY <1>2 DEF SweepInv
<1>14. QuietInv
  BY DEF Init, QuietInv
<1> QED BY <1>4, <1>5, <1>6, <1>7, <1>8, <1>9, <1>10, <1>11, <1>12, <1>13, <1>14 DEF Inductive

\* Every step preserves it.
LEMMA InductiveNext == Inductive /\ [Next]_vars => Inductive'
<1> SUFFICES ASSUME Inductive, [Next]_vars PROVE Inductive'
  OBVIOUS
<1>1. /\ TypeOK /\ ProgInv /\ FoundInv /\ ListInv /\ NewInv /\ ConnInv /\ RcuInv /\ StopInv
      /\ ~raced => ExactInv /\ SweepInv /\ QuietInv
  BY DEF Inductive
<1>2. TypeOK' /\ ProgInv'
  BY <1>1, TypeNext
<1>3. FoundInv'
  BY <1>1, FoundNext
<1>4. ListInv'
  BY <1>1, ListNext
<1>5. NewInv'
  BY <1>1, NewNext
<1>6. ConnInv'
  BY <1>1, ConnNext
<1>7. RcuInv'
  BY <1>1, RcuNext
<1>8. StopInv'
  BY <1>1, StopNext
<1>9. ASSUME ~raced' PROVE ExactInv' /\ SweepInv' /\ QuietInv'
  <2>1. ~raced /\ ExactInv /\ SweepInv /\ QuietInv
    BY <1>1, <1>9, RacedStays
  <2>2. ExactInv'
    BY <1>1, <1>2, <1>9, <2>1, ExactNext
  <2>3. SweepInv'
    BY <1>1, <2>1, SweepNext
  <2>4. QuietInv'
    BY <1>1, <1>2, <2>1, QuietNext
  <2> QED BY <2>2, <2>3, <2>4
<1> QED BY <1>2, <1>3, <1>4, <1>5, <1>6, <1>7, <1>8, <1>9 DEF Inductive

\* The invariant holds in every state of every run of r92su's station table.
THEOREM InductiveHolds == Spec => []Inductive
BY InductiveInit, InductiveNext, PTL DEF Spec

-----------------------------------------------------------------------------
(* What follows from it *)

\* Until two contexts meet on one mac id, sta_list and sta_num are what their
\* writers believe, and nobody unlinks a station twice.
THEOREM TableIsExact == Spec => []TableExact
<1>1. ASSUME Inductive PROVE TableExact
  <2>0. TypeOK /\ ListInv /\ (~raced => ExactInv)
    BY <1>1 DEF Inductive
  <2> SUFFICES ASSUME ~raced
               PROVE  /\ \A c \in Ctx : Doing(c, "unlink") => life[found[c]] = "listed"
                      /\ sta_num = Len(sta_list)
                      /\ {sta_list[n] : n \in DOMAIN sta_list} = {s \in Sta : life[s] = "listed"}
                      /\ \A m, n \in DOMAIN sta_list :
                           mac_id[sta_list[m]] = mac_id[sta_list[n]] => m = n
    BY <2>0 DEF TableExact
  <2>1. ExactInv /\ \A n \in DOMAIN sta_list : sta_list[n] \in Sta
    BY <2>0 DEF TypeOK
  <2>2. {sta_list[n] : n \in DOMAIN sta_list} = {s \in Sta : life[s] = "listed"}
    BY <2>0, <2>1 DEF ListInv
  <2>3. ASSUME NEW m \in DOMAIN sta_list, NEW n \in DOMAIN sta_list,
               mac_id[sta_list[m]] = mac_id[sta_list[n]]
        PROVE  m = n
    <3>1. life[sta_list[m]] = "listed" /\ life[sta_list[n]] = "listed"
      BY <2>0 DEF ListInv
    <3>2. sta_list[n] \in Listed(mac_id[sta_list[m]])
      BY <2>1, <2>3, <3>1 DEF Listed
    <3>3. sta_list[m] = sta_list[n]
      BY <2>1, <3>1, <3>2 DEF ExactInv
    <3> QED BY <2>0, <3>3 DEF ListInv
  <2> QED BY <2>1, <2>2, <2>3 DEF ExactInv
<1> QED BY <1>1, InductiveHolds, PTL

\* No reader of sta_list, no reader of bss_priv->sta whose station is still its
\* connection's, and no writer has a station that was freed.
THEOREM NoFreedStationUsed == Spec => []NoFreedInUse
<1>1. ASSUME Inductive PROVE NoFreedInUse
  <2>0. RcuInv /\ FoundInv /\ NoSta \notin Sta
    BY <1>1, StaTableAssumption DEF Inductive
  <2>1. \A r \in Reader : rcu[r] = "use" => held[r] # NoSta /\ life[held[r]] # "free"
    BY <2>0 DEF RcuInv, Safe
  <2>2. \A r \in Reader : rcu[r] = "bss_use" =>
           held[r] # NoSta /\ (life[held[r]] = "free" => lost[held[r]] # "nobody")
    BY <2>0 DEF RcuInv, Kept, Safe
  <2>3. \A c \in Ctx : found[c] # NoSta => life[found[c]] # "free"
    BY <2>0 DEF FoundInv, Safe
  <2> QED BY <2>1, <2>2, <2>3 DEF NoFreedInUse
<1> QED BY <1>1, InductiveHolds, PTL

\* The station of a connection that stands is listed under BSS_MACID, unless a
\* failed join or a station event took it, or connect_bss_work is replacing it.
THEOREM ConnectedStationListed == Spec => []ConnectedStaListed
<1>1. ASSUME Inductive PROVE ConnectedStaListed
  <2>0. ConnInv /\ NewInv /\ NoSta \notin Sta /\ NoBss \notin Bss
    BY <1>1, StaTableAssumption DEF Inductive
  <2> QED BY <2>0 DEF ConnectedStaListed, ConnInv, Attached, NewInv
<1> QED BY <1>1, InductiveHolds, PTL

\* When r92su_stop has returned and no two contexts met, at most the RCU callbacks
\* of the stations it swept are outstanding.
THEOREM StopLeavesNothing == Spec => []StopQuiet
<1>1. ASSUME Inductive PROVE StopQuiet
  <2> SUFFICES ASSUME down, ~raced, NEW s \in Sta, life[s] # "free", mac_id[s] < MaxSta,
                      s \notin late, s # new["event"]
               PROVE  life[s] = "dying" /\ grace[s] = {}
    BY DEF StopQuiet
  <2>0. TypeOK /\ ProgInv /\ NewInv /\ StopInv /\ QuietInv
    BY <1>1 DEF Inductive
  <2>1. /\ life[s] # "listed" /\ life[s] # "unlinked"
        /\ life[s] = "dying" => grace[s] \subseteq {}
    BY <2>0 DEF QuietInv, Synced
  <2>2. life[s] # "new"
    <3> SUFFICES ASSUME life[s] = "new" PROVE FALSE
      OBVIOUS
    <3>1. PICK c \in Ctx : new[c] = s /\ Adding(c)
      BY <2>0 DEF NewInv
    <3>2. c = "lock"
      BY <2>0, <3>1 DEF ProgInv, Ctx
    <3> QED BY <2>0, <3>1, <3>2, OpFacts DEF StopInv, Adding, Has, Locked
  <2>3. life[s] \in Life
    BY <2>0 DEF TypeOK
  <2> QED BY <2>1, <2>2, <2>3 DEF Life
<1> QED BY <1>1, InductiveHolds, PTL
=============================================================================
