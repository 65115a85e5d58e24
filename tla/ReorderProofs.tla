--------------------------- MODULE ReorderProofs ---------------------------
(***************************************************************************)
(* The reorder buffer, for every size of the sequence space, of the window *)
(* and of the timeout: proofs of the invariants of Reorder, and that the   *)
(* loops of ReorderLoop do what ReorderWindow computes in one step.        *)
(***************************************************************************)
EXTENDS Reorder, ReorderLoop, FiniteSetTheorems, WellFoundedInduction, TLAPS

-----------------------------------------------------------------------------
(* Remainders *)

\* Division with remainder, of integers too.
LEMMA DivMod ==
  ASSUME NEW a \in Int, NEW n \in Nat, n > 0
  PROVE  /\ a \div n \in Int /\ a % n \in 0 .. n - 1
         /\ a = n * (a \div n) + (a % n)
<1>1. a \div n \in Int
  OBVIOUS
<1>2. a % n \in 0 .. n - 1
  OBVIOUS
<1>3. a = n * (a \div n) + (a % n)
  OBVIOUS
<1> QED BY <1>1, <1>2, <1>3

\* Multiples of n that are less than n apart are the same.
LEMMA SmallMultiple ==
  ASSUME NEW n \in Nat, n > 0, NEW q \in Int, NEW p \in Int,
         n * q - n * p < n, n * p - n * q < n
  PROVE  q = p
<1>1. \A x, y \in Int : x < y => n * y - n * x >= n
  <2> SUFFICES ASSUME NEW x \in Int, NEW y \in Int, x < y PROVE n * y - n * x >= n
    OBVIOUS
  <2>1. PICK z \in Nat : y = x + 1 + z
    <3> WITNESS y - x - 1 \in Nat
    <3> QED OBVIOUS
  <2>2. n * y = n * x + n + n * z /\ n * z \in Nat
    BY <2>1
  <2>3. n * x \in Int /\ n * y \in Int
    OBVIOUS
  <2> QED BY <2>2, <2>3
<1>2. n * q \in Int /\ n * p \in Int
  OBVIOUS
<1>3. ~(q < p)
  BY <1>1, <1>2
<1>4. ~(p < q)
  BY <1>1, <1>2
<1> QED BY <1>3, <1>4

\* The remainder is the only number below n with which the division works out.
LEMMA ModUnique ==
  ASSUME NEW a \in Int, NEW n \in Nat, n > 0, NEW q \in Int, NEW r \in 0 .. n - 1,
         a = n * q + r
  PROVE  a % n = r
<1> DEFINE p == a \div n
           s == a % n
<1>1. p \in Int /\ s \in 0 .. n - 1 /\ a = n * p + s
  BY DivMod
<1> HIDE DEF p, s
<1>2. n * p \in Int /\ n * q \in Int
  BY <1>1
<1>3. n * q - n * p < n /\ n * p - n * q < n
  BY <1>1, <1>2
<1>4. q = p
  BY <1>1, <1>3, SmallMultiple
<1>5. s = r
  BY <1>1, <1>2, <1>4
<1> QED BY <1>5 DEF s

\* Numbers less than n apart with the same remainder are the same.
LEMMA ModNear ==
  ASSUME NEW a \in Int, NEW b \in Int, NEW n \in Nat, n > 0, a % n = b % n,
         a - b < n, b - a < n
  PROVE  a = b
<1> DEFINE p == a \div n
           q == b \div n
           s == a % n
<1>1. p \in Int /\ s \in 0 .. n - 1 /\ a = n * p + s
  BY DivMod
<1>2. q \in Int /\ b = n * q + s
  BY DivMod
<1> HIDE DEF p, q, s
<1>3. n * p \in Int /\ n * q \in Int
  BY <1>1, <1>2
<1>4. n * q - n * p < n /\ n * p - n * q < n
  BY <1>1, <1>2, <1>3
<1>5. q = p
  BY <1>1, <1>2, <1>4, SmallMultiple
<1> QED BY <1>1, <1>2, <1>5

\* A remainder may be taken before or after an addition or a subtraction.
LEMMA ModSum ==
  ASSUME NEW a \in Int, NEW b \in Int, NEW n \in Nat, n > 0
  PROVE  /\ ((a % n) + b) % n = (a + b) % n
         /\ (b - (a % n)) % n = (b - a) % n
<1> DEFINE p == a \div n
           s == a % n
<1>1. p \in Int /\ s \in 0 .. n - 1 /\ a = n * p + s
  BY DivMod
<1> HIDE DEF p, s
<1>2. n * p \in Int
  BY <1>1
<1>3. (a + b) % n = (s + b) % n
  <2> DEFINE c == s + b
             q == c \div n
             r == c % n
             e == a + b
  <2>1. c \in Int /\ e \in Int /\ e = c + n * p
    BY <1>1, <1>2
  <2>2. q \in Int /\ r \in 0 .. n - 1 /\ c = n * q + r
    <3> HIDE DEF c
    <3> QED BY <2>1, DivMod
  <2> HIDE DEF c, q, r, e
  <2>3. e = n * (p + q) + r /\ p + q \in Int
    <3>1. n * (p + q) = n * p + n * q /\ n * q \in Int
      BY <1>1, <2>2
    <3> QED BY <1>1, <1>2, <2>1, <2>2, <3>1
  <2> DEFINE k == p + q
  <2>4. e = n * k + r /\ k \in Int /\ e \in Int /\ r \in 0 .. n - 1
    BY <2>1, <2>2, <2>3
  <2> HIDE DEF k
  <2>5. e % n = r
    BY <2>4, ModUnique
  <2> QED BY <2>5 DEF c, e, r
<1>4. (b - a) % n = (b - s) % n
  <2> DEFINE c == b - s
             q == c \div n
             r == c % n
             e == b - a
  <2>1. c \in Int /\ e \in Int /\ e = c - n * p
    BY <1>1, <1>2
  <2>2. q \in Int /\ r \in 0 .. n - 1 /\ c = n * q + r
    <3> HIDE DEF c
    <3> QED BY <2>1, DivMod
  <2> HIDE DEF c, q, r, e
  <2>3. e = n * (q - p) + r /\ q - p \in Int
    <3>1. n * (q - p) = n * q - n * p /\ n * q \in Int
      BY <1>1, <2>2
    <3> QED BY <1>1, <1>2, <2>1, <2>2, <3>1
  <2> DEFINE k == q - p
  <2>4. e = n * k + r /\ k \in Int /\ e \in Int /\ r \in 0 .. n - 1
    BY <2>1, <2>2, <2>3
  <2> HIDE DEF k
  <2>5. e % n = r
    BY <2>4, ModUnique
  <2> QED BY <2>5 DEF c, e, r
<1> QED BY <1>3, <1>4 DEF s

-----------------------------------------------------------------------------
(* Sequence numbers and slots *)

\* What the assumptions say about the sizes.
LEMMA Sizes ==
  /\ Size \in Nat /\ Size > 0 /\ Modulus \in Nat /\ Modulus > 0
  /\ Half \in Nat /\ 2 * Half <= Modulus /\ Modulus <= 2 * Half + 1 /\ Size <= Half
  /\ \E k \in Int : Modulus = Size * k
<1>1. Size \in Nat /\ Size > 0 /\ Modulus \in Nat /\ Modulus > 0 /\ Modulus % Size = 0
  BY WindowAssumption
<1>2. Half \in Nat /\ 2 * Half <= Modulus /\ Modulus <= 2 * Half + 1
  BY <1>1 DEF Half
<1>3. Size <= Half
  BY <1>1, <1>2, WindowAssumption
<1>4. Modulus = Size * (Modulus \div Size) /\ Modulus \div Size \in Int
  <2> DEFINE q == Modulus \div Size
             r == Modulus % Size
  <2>1. q \in Int /\ Modulus = Size * q + r /\ r = 0
    BY <1>1, DivMod
  <2> HIDE DEF q, r
  <2>2. Size * q \in Int
    BY <1>1, <2>1
  <2>3. Modulus = Size * q /\ q \in Int
    BY <1>1, <2>1, <2>2
  <2> QED BY <2>3 DEF q
<1> QED BY <1>1, <1>2, <1>3, <1>4

\* Slots repeat with the sequence numbers: the window size divides their number.
LEMMA ModMod ==
  ASSUME NEW a \in Int
  PROVE  (a % Modulus) % Size = a % Size
<1>1. PICK k \in Int : Modulus = Size * k
  BY Sizes
<1> DEFINE q == a \div Modulus
           s == a % Modulus
           p == s \div Size
           r == s % Size
<1>2. q \in Int /\ s \in Int /\ a = Modulus * q + s
  BY Sizes, DivMod
<1>3. p \in Int /\ r \in 0 .. Size - 1 /\ s = Size * p + r
  <2> HIDE DEF s
  <2> QED BY <1>2, Sizes, DivMod
<1> HIDE DEF q, s, p, r
<1> DEFINE m == k * q + p
<1>4. a = Size * m + r /\ m \in Int
  <2>1. k * q \in Int /\ Modulus * q = Size * (k * q)
    BY <1>1, <1>2, Sizes
  <2>2. Size * (k * q + p) = Size * (k * q) + Size * p
    BY <1>3, <2>1, Sizes
  <2>3. Size * (k * q) \in Int /\ Size * p \in Int
    BY <1>3, <2>1, Sizes
  <2> QED BY <1>2, <1>3, <2>1, <2>2, <2>3
<1> HIDE DEF m
<1>5. Size \in Nat /\ Size > 0
  BY Sizes
<1>6. a % Size = r
  BY <1>3, <1>4, <1>5, ModUnique
<1> QED BY <1>6 DEF r, s

\* Sequence numbers are numbers below Modulus.
LEMMA SeqnoType ==
  ASSUME NEW x \in Int
  PROVE  Seqno(x) \in 0 .. Modulus - 1
BY Sizes, DivMod DEF Seqno

\* Subtracting sequence numbers is subtracting what they stand for.
LEMMA SnSub ==
  ASSUME NEW x \in Int, NEW y \in Int
  PROVE  sn_sub(Seqno(x), Seqno(y)) = (x - y) % Modulus
<1> DEFINE r == y % Modulus
<1>1. Modulus \in Nat /\ Modulus > 0
  BY Sizes
<1>2. r \in Int
  BY <1>1, DivMod
<1>3. (x - r) % Modulus = (x - y) % Modulus
  <2>1. (x - (y % Modulus)) % Modulus = (x - y) % Modulus
    BY <1>1, ModSum, Zenon
  <2> HIDE DEF r
  <2> QED BY <2>1 DEF r
<1> HIDE DEF r
<1>4. ((x % Modulus) - r) % Modulus = (x - r) % Modulus
  <2> DEFINE s == x % Modulus
             m == -r
  <2>1. m \in Int /\ s \in Int
    BY <1>1, <1>2, DivMod
  <2> HIDE DEF m
  <2>2. (s + m) % Modulus = (x + m) % Modulus
    BY <1>1, <2>1, ModSum, Zenon
  <2> HIDE DEF s
  <2>3. s + m = s - r /\ x + m = x - r
    BY <1>2, <2>1 DEF m
  <2>4. (s - r) % Modulus = (x - r) % Modulus
    BY <2>2, <2>3
  <2> QED BY <2>4 DEF s
<1>5. ((x % Modulus) - r) % Modulus = (x - y) % Modulus
  BY <1>3, <1>4
<1> QED BY <1>5 DEF sn_sub, Seqno, r

\* Adding to a sequence number.
LEMMA SnAdd ==
  ASSUME NEW x \in Int, NEW k \in Int
  PROVE  sn_add(Seqno(x), k) = Seqno(x + k)
BY Sizes, ModSum DEF sn_add, Seqno

\* Comparing sequence numbers is comparing what they stand for, if that is
\* less than half the sequence space apart.
LEMMA SnLess ==
  ASSUME NEW x \in Int, NEW y \in Int, x - y <= Half, y - x < Half
  PROVE  sn_less(Seqno(x), Seqno(y)) <=> x < y
<1> DEFINE m == x - y
<1>1. m \in Int /\ m <= Half /\ -Half < m
  BY Sizes
<1>2. sn_less(Seqno(x), Seqno(y)) <=> m % Modulus > Half
  BY SnSub DEF sn_less
<1> HIDE DEF m
<1>3. Modulus \in Nat /\ Modulus > 0 /\ Half \in Nat /\ 2 * Half <= Modulus
  BY Sizes
<1>4. CASE m < 0
  <2> DEFINE r == m + Modulus
  <2>1. m = Modulus * (-1) + r /\ r \in 0 .. Modulus - 1 /\ r > Half
    BY <1>1, <1>3, <1>4
  <2> HIDE DEF r
  <2>2. m % Modulus = r
    BY <1>1, <1>3, <2>1, ModUnique
  <2> QED BY <1>2, <1>4, <2>1, <2>2 DEF m
<1>5. CASE m >= 0
  <2>1. m = Modulus * 0 + m /\ m \in 0 .. Modulus - 1
    BY <1>1, <1>3, <1>5
  <2>2. m % Modulus = m
    BY <1>1, <1>3, <2>1, ModUnique
  <2>3. ~(m % Modulus > Half)
    BY <1>1, <1>3, <2>2
  <2> QED BY <1>2, <1>5, <2>3 DEF m
<1> QED BY <1>1, <1>4, <1>5

\* The slot of a frame, and the slot d places after the head.
LEMMA Slot ==
  ASSUME NEW t, t.ssn \in Int, NEW x \in Int
  PROVE  /\ Index(t, Seqno(x)) = (x - t.ssn) % Size
         /\ Index(t, Seqno(x)) \in Slots
<1> DEFINE b == t.ssn
           m == -b
           s == x % Modulus
           e == x - b
<1>1. m \in Int /\ e \in Int /\ s + m = s - b /\ x + m = e
  BY Sizes, DivMod
<1> HIDE DEF m
<1>2. (s + m) % Modulus = (x + m) % Modulus
  BY <1>1, Sizes, ModSum
<1>3. sn_sub(Seqno(x), t.ssn) = e % Modulus
  BY <1>1, <1>2 DEF sn_sub, Seqno
<1> HIDE DEF e
<1>4. (e % Modulus) % Size = e % Size
  BY <1>1, ModMod
<1>5. e % Size \in 0 .. Size - 1
  BY <1>1, Sizes, DivMod
<1> QED BY <1>3, <1>4, <1>5 DEF Index, Slots, e

-----------------------------------------------------------------------------
(* The window *)

\* The type of a session.
Tids == [ssn : 0 .. Modulus - 1, head_seq : 0 .. Modulus - 1, len : 0 .. Size,
         buf : [Slots -> Frames \cup {NoFrame}]]

\* Its filled slots.
Filled(t) == {i \in Slots : t.buf[i] # NoFrame}

\* The window starts at frame h: the head is the sequence number of h, the
\* buffered frames are among the Size frames from h on, each in its slot, and
\* len counts them.
Window(t, h) ==
  /\ t.head_seq = Seqno(h)
  /\ \A i \in Filled(t) : t.buf[i] \in h .. h + Size - 1 /\ i = Index(t, Seqno(t.buf[i]))
  /\ t.len = Cardinality(Filled(t))

\* Frames are numbers, and no number is an empty slot.
LEMMA FrameFacts ==
  /\ Frames \subseteq Nat /\ NoFrame \notin Frames /\ MaxSeq \in Nat
  /\ \A t \in Tids : \A i \in Slots : t.buf[i] # NoFrame => t.buf[i] \in Frames
  /\ \A t \in Tids : /\ t.ssn \in 0 .. Modulus - 1 /\ t.ssn \in Int
                     /\ t.buf \in [Slots -> Frames \cup {NoFrame}]
<1>1. Frames \subseteq Nat /\ NoFrame \notin Frames /\ MaxSeq \in Nat
  BY WindowAssumption, ReorderAssumption DEF Frames
<1>2. \A t \in Tids : /\ t.ssn \in 0 .. Modulus - 1
                      /\ t.buf \in [Slots -> Frames \cup {NoFrame}]
  BY DEF Tids
<1> QED BY <1>1, <1>2

\* The slots are finite, so are the filled ones.
LEMMA SlotsFinite ==
  /\ IsFiniteSet(Slots) /\ Cardinality(Slots) = Size
  /\ \A t : /\ IsFiniteSet(Filled(t)) /\ Filled(t) \subseteq Slots
            /\ Cardinality(Filled(t)) \in 0 .. Size
            /\ Cardinality(Filled(t)) = 0 <=> Filled(t) = {}
<1>1. IsFiniteSet(0 .. Size - 1) /\ Cardinality(0 .. Size - 1) = Size
  BY Sizes, FS_Interval
<1>2. IsFiniteSet(Slots) /\ Cardinality(Slots) = Size
  BY <1>1 DEF Slots
<1> SUFFICES ASSUME NEW t
             PROVE  /\ IsFiniteSet(Filled(t)) /\ Filled(t) \subseteq Slots
                    /\ Cardinality(Filled(t)) \in 0 .. Size
                    /\ Cardinality(Filled(t)) = 0 <=> Filled(t) = {}
  BY <1>2
<1>3. Filled(t) \in SUBSET Slots
  BY DEF Filled
<1>4. IsFiniteSet(Filled(t)) /\ Cardinality(Filled(t)) <= Size
  BY <1>2, <1>3, FS_Subset
<1>5. Cardinality(Filled(t)) \in Nat
  BY <1>4, FS_CardinalityType
<1>6. Cardinality(Filled(t)) = 0 <=> Filled(t) = {}
  BY <1>4, FS_EmptySet
<1> QED BY <1>3, <1>4, <1>5, <1>6, Sizes

\* The place d of a window that starts at h is the slot of frame h + d, and a
\* frame in it is this one.
LEMMA WindowPlace ==
  ASSUME NEW t \in Tids, NEW h \in Nat, Window(t, h), NEW d \in 0 .. Size - 1
  PROVE  /\ At(t, d) = (h + d - t.ssn) % Size /\ At(t, d) \in Slots
         /\ At(t, d) = Index(t, Seqno(h + d))
         /\ Full(t, d) => t.buf[At(t, d)] = h + d
<1>1. t.ssn \in Int /\ h + d \in Int /\ Size \in Nat /\ Size > 0 /\ h \in Int /\ d \in Int
  BY FrameFacts, Sizes
<1>2. At(t, d) = Index(t, Seqno(h + d))
  BY <1>1, SnAdd DEF At, Window
<1>3. At(t, d) = (h + d - t.ssn) % Size /\ At(t, d) \in Slots
  BY <1>1, <1>2, Slot
<1>4. ASSUME Full(t, d)
      PROVE  t.buf[At(t, d)] = h + d
  <2> DEFINE i == At(t, d)
             f == t.buf[i]
             a == f - t.ssn
             b == h + d - t.ssn
  <2>1. i \in Filled(t)
    BY <1>3, <1>4 DEF Full, Filled
  <2>2. f \in h .. h + Size - 1 /\ i = Index(t, Seqno(f))
    BY <2>1 DEF Window
  <2>3. f \in Int /\ a \in Int /\ b \in Int /\ a - b < Size /\ b - a < Size
    BY <1>1, <2>2
  <2>4. i = a % Size
    BY <1>1, <2>2, <2>3, Slot
  <2>5. i = b % Size
    BY <1>3
  <2>6. a % Size = b % Size
    BY <2>4, <2>5
  <2> HIDE DEF a, b
  <2>7. a = b
    BY <1>1, <2>3, <2>6, ModNear
  <2> QED BY <1>1, <2>3, <2>7 DEF a, b
<1> QED BY <1>2, <1>3, <1>4

\* Different places are different slots.
LEMMA PlacesDiffer ==
  ASSUME NEW t \in Tids, NEW h \in Nat, Window(t, h),
         NEW d \in 0 .. Size - 1, NEW e \in 0 .. Size - 1, At(t, d) = At(t, e)
  PROVE  d = e
<1> DEFINE a == h + d - t.ssn
           b == h + e - t.ssn
<1>1. t.ssn \in Int /\ Size \in Nat /\ Size > 0
  BY FrameFacts, Sizes
<1>2. a \in Int /\ b \in Int /\ a - b < Size /\ b - a < Size
  BY <1>1
<1>3. a % Size = b % Size
  BY WindowPlace
<1> HIDE DEF a, b
<1>4. a = b
  BY <1>1, <1>2, <1>3, ModNear
<1> QED BY <1>1, <1>4 DEF a, b

\* A buffered frame is at the place that is its distance from the head.
LEMMA FilledPlace ==
  ASSUME NEW t \in Tids, NEW h \in Nat, Window(t, h), NEW i \in Filled(t)
  PROVE  /\ t.buf[i] \in Frames /\ t.buf[i] - h \in 0 .. Size - 1
         /\ At(t, t.buf[i] - h) = i /\ Full(t, t.buf[i] - h)
<1> DEFINE f == t.buf[i]
           d == f - h
<1>1. f \in Frames /\ f \in Nat /\ f \in h .. h + Size - 1 /\ i = Index(t, Seqno(f))
  BY FrameFacts DEF Filled, Window
<1>2. d \in 0 .. Size - 1 /\ h + d = f
  BY <1>1, Sizes
<1>3. At(t, d) = i
  BY <1>1, <1>2, WindowPlace
<1>4. Full(t, d)
  BY <1>3 DEF Full, Filled
<1> QED BY <1>1, <1>2, <1>3, <1>4

-----------------------------------------------------------------------------
(* The frames that leave, in order *)

\* How many members of D are not above d: its position when D is sorted.
Rank(D, d) == Cardinality({e \in D : e <= d})

\* Ranks count the members of D upwards, without a gap: they are as many, and
\* no two are the same.
LEMMA RankFacts ==
  ASSUME NEW D \in SUBSET Nat, IsFiniteSet(D)
  PROVE  /\ Cardinality(D) \in Nat
         /\ \A d \in D : Rank(D, d) \in 1 .. Cardinality(D)
         /\ \A d, e \in D : d < e => Rank(D, d) < Rank(D, e)
         /\ \A k \in 1 .. Cardinality(D) : \E d \in D : Rank(D, d) = k
<1> DEFINE c == Cardinality(D)
           B(d) == {e \in D : e <= d}
<1>1. c \in Nat
  BY FS_CardinalityType
<1>2. \A d \in D : IsFiniteSet(B(d)) /\ Cardinality(B(d)) \in Nat /\ Cardinality(B(d)) <= c
  <2> SUFFICES ASSUME NEW d \in D
               PROVE  IsFiniteSet(B(d)) /\ Cardinality(B(d)) \in Nat /\ Cardinality(B(d)) <= c
    OBVIOUS
  <2>1. B(d) \in SUBSET D
    OBVIOUS
  <2>2. IsFiniteSet(B(d)) /\ Cardinality(B(d)) <= c
    <3> HIDE DEF B
    <3> QED BY <2>1, FS_Subset
  <2> QED BY <2>2, FS_CardinalityType
<1>3. \A d \in D : Rank(D, d) \in 1 .. c
  <2> SUFFICES ASSUME NEW d \in D PROVE Rank(D, d) \in 1 .. c
    OBVIOUS
  <2>1. d \in B(d)
    OBVIOUS
  <2>2. Cardinality(B(d)) # 0
    <3> HIDE DEF B
    <3> QED BY <1>2, <2>1, FS_EmptySet
  <2>3. Rank(D, d) = Cardinality(B(d))
    BY DEF Rank
  <2> HIDE DEF B
  <2> QED BY <1>1, <1>2, <2>2, <2>3
<1>4. \A d, e \in D : d < e => Rank(D, d) < Rank(D, e)
  <2> SUFFICES ASSUME NEW d \in D, NEW e \in D, d < e PROVE Rank(D, d) < Rank(D, e)
    OBVIOUS
  <2>1. B(d) \in SUBSET B(e) /\ e \in B(e) /\ e \notin B(d)
    <3>1. d \in Nat /\ e \in Nat /\ \A x \in D : x \in Nat
      OBVIOUS
    <3>2. (\A x \in D : x <= d => x <= e) /\ e <= e /\ ~(e <= d)
      BY <3>1
    <3> QED BY <3>2, Zenon
  <2>2. Rank(D, d) = Cardinality(B(d)) /\ Rank(D, e) = Cardinality(B(e))
    BY DEF Rank
  <2> HIDE DEF B
  <2>3. /\ Cardinality(B(d)) <= Cardinality(B(e))
        /\ Cardinality(B(e)) = Cardinality(B(d)) => B(e) = B(d)
    BY <1>2, <2>1, FS_Subset
  <2> QED BY <1>2, <2>1, <2>2, <2>3
<1>5. \A k \in 1 .. c : \E d \in D : Rank(D, d) = k
  <2> DEFINE g == [d \in D |-> Rank(D, d)]
  <2>1. g \in [D -> 1 .. c]
    BY <1>3
  <2>2. \A d, e \in D : g[d] = g[e] => d = e
    <3> SUFFICES ASSUME NEW d \in D, NEW e \in D, Rank(D, d) = Rank(D, e) PROVE d = e
      OBVIOUS
    <3>1. Rank(D, d) \in Int /\ Rank(D, e) \in Int
      BY <1>3
    <3>2. ~(d < e) /\ ~(e < d)
      BY <1>4, <3>1
    <3> QED BY <3>2
  <2>3. g \in Injection(D, 1 .. c)
    BY <2>1, <2>2 DEF Injection, IsInjective
  <2>4. IsFiniteSet(1 .. c) /\ Cardinality(1 .. c) = c
    BY <1>1, FS_Interval
  <2>5. g \in Surjection(D, 1 .. c)
    <3> HIDE DEF g
    <3> QED BY <2>3, <2>4, FS_Injection
  <2>6. \A k \in 1 .. c : \E d \in D : g[d] = k
    BY <2>5 DEF Surjection
  <2> QED BY <2>6
<1> QED BY <1>1, <1>3, <1>4, <1>5

\* Place(D, k) is the k-th member of D.
LEMMA PlaceFacts ==
  ASSUME NEW D \in SUBSET Nat, IsFiniteSet(D)
  PROVE  /\ \A k \in 1 .. Cardinality(D) : Place(D, k) \in D /\ Rank(D, Place(D, k)) = k
         /\ \A k, l \in 1 .. Cardinality(D) : k < l => Place(D, k) < Place(D, l)
<1>1. \A k \in 1 .. Cardinality(D) : Place(D, k) \in D /\ Rank(D, Place(D, k)) = k
  <2> SUFFICES ASSUME NEW k \in 1 .. Cardinality(D)
               PROVE  Place(D, k) \in D /\ Rank(D, Place(D, k)) = k
    OBVIOUS
  <2>1. \E d \in D : Cardinality({e \in D : e <= d}) = k
    BY RankFacts DEF Rank
  <2>2. Place(D, k) \in D /\ Cardinality({e \in D : e <= Place(D, k)}) = k
    BY <2>1 DEF Place
  <2> QED BY <2>2 DEF Rank
<1>2. ASSUME NEW k \in 1 .. Cardinality(D), NEW l \in 1 .. Cardinality(D), k < l
      PROVE  Place(D, k) < Place(D, l)
  <2> DEFINE d == Place(D, k)
             e == Place(D, l)
  <2>1. d \in D /\ e \in D /\ Rank(D, d) = k /\ Rank(D, e) = l
    BY <1>1
  <2> HIDE DEF d, e
  <2>2. d # e /\ ~(e < d)
    BY <1>2, <2>1, RankFacts
  <2>3. d < e
    BY <2>1, <2>2
  <2> QED BY <2>3 DEF d, e
<1> QED BY <1>1, <1>2

\* How many places a move over n places clears.
LEMMA UptoFacts ==
  ASSUME NEW n \in Nat
  PROVE  Upto(n) \in 0 .. Size /\ Upto(n) <= n /\ (Upto(n) = n \/ Upto(n) = Size)
BY Sizes DEF Upto

\* The places a move empties are finitely many.
LEMMA LeavingFacts ==
  ASSUME NEW t, NEW n \in Nat
  PROVE  /\ Leaving(t, n) \in SUBSET (0 .. Size - 1) /\ Leaving(t, n) \in SUBSET Nat
         /\ IsFiniteSet(Leaving(t, n)) /\ Cardinality(Leaving(t, n)) \in Nat
         /\ \A d \in Leaving(t, n) : d < n /\ d < Upto(n) /\ Full(t, d)
<1>1. Leaving(t, n) \in SUBSET (0 .. Size - 1)
  BY UptoFacts, Sizes DEF Leaving
<1>2. IsFiniteSet(0 .. Size - 1)
  BY Sizes, FS_Interval
<1>3. IsFiniteSet(Leaving(t, n))
  BY <1>1, <1>2, FS_Subset
<1>4. Cardinality(Leaving(t, n)) \in Nat
  BY <1>3, FS_CardinalityType
<1>5. \A d \in Leaving(t, n) : d < n /\ d < Upto(n) /\ Full(t, d)
  BY UptoFacts, Sizes DEF Leaving
<1> QED BY <1>1, <1>3, <1>4, <1>5

\* A sequence of frames from lo on and below hi, in the order they were sent.
Run(q, lo, hi) ==
  /\ q \in Seq(Frames) /\ Rising(q)
  /\ \A m \in DOMAIN q : lo <= q[m] /\ q[m] < hi

\* A move over n places releases frames of these places, in order.
LEMMA ReleasedRun ==
  ASSUME NEW t \in Tids, NEW h \in Nat, Window(t, h), NEW n \in Nat
  PROVE  /\ Run(Released(t, n), h, h + n)
         /\ Len(Released(t, n)) = Cardinality(Leaving(t, n))
<1> DEFINE D == Leaving(t, n)
           c == Cardinality(D)
           q == Released(t, n)
<1>1. D \in SUBSET (0 .. Size - 1) /\ D \in SUBSET Nat /\ IsFiniteSet(D) /\ c \in Nat
  BY LeavingFacts
<1>2. \A k \in 1 .. c : Place(D, k) \in D
  <2> HIDE DEF D
  <2> QED BY <1>1, PlaceFacts
<1>3. \A k, l \in 1 .. c : k < l => Place(D, k) < Place(D, l)
  <2> HIDE DEF D
  <2> QED BY <1>1, PlaceFacts
<1>4. \A d \in D : /\ d \in 0 .. Size - 1 /\ d < n /\ d \in Nat
                   /\ t.buf[At(t, d)] = h + d /\ t.buf[At(t, d)] \in Frames
  <2> SUFFICES ASSUME NEW d \in D
               PROVE  /\ d \in 0 .. Size - 1 /\ d < n /\ d \in Nat
                      /\ t.buf[At(t, d)] = h + d /\ t.buf[At(t, d)] \in Frames
    OBVIOUS
  <2>1. d \in 0 .. Size - 1 /\ d < n /\ d \in Nat /\ Full(t, d)
    BY <1>1, LeavingFacts
  <2>2. t.buf[At(t, d)] = h + d /\ At(t, d) \in Slots
    BY <2>1, WindowPlace
  <2>3. t.buf[At(t, d)] \in Frames
    BY <2>1, <2>2, FrameFacts DEF Full
  <2> QED BY <2>1, <2>2, <2>3
<1>5. q = [k \in 1 .. c |-> t.buf[At(t, Place(D, k))]]
  BY DEF Released
<1> HIDE DEF D, c, q
<1>6. \A k \in 1 .. c : q[k] = h + Place(D, k) /\ q[k] \in Frames /\ Place(D, k) < n
                        /\ Place(D, k) \in Nat
  BY <1>2, <1>4, <1>5
<1>7. q \in Seq(Frames) /\ DOMAIN q = 1 .. c /\ Len(q) = c
  <2>1. q \in [1 .. c -> Frames]
    BY <1>5, <1>6
  <2> QED BY <1>1, <2>1
<1>8. Rising(q)
  BY <1>3, <1>6, <1>7 DEF Rising
<1>9. \A m \in DOMAIN q : h <= q[m] /\ q[m] < h + n
  BY <1>6, <1>7
<1> QED BY <1>7, <1>8, <1>9 DEF Run, q, c, D

-----------------------------------------------------------------------------
(* What the operations do to a window *)

\* Moving the head over n places gives the window that starts n frames later:
\* the frames before it are gone, the others are where they were.
LEMMA AdvanceWindow ==
  ASSUME NEW t \in Tids, NEW h \in Nat, Window(t, h), NEW n \in Nat
  PROVE  /\ Advance(t, n) \in Tids /\ Window(Advance(t, n), h + n)
         /\ Advance(t, n).ssn = t.ssn
         /\ Filled(Advance(t, n)) = {i \in Filled(t) : t.buf[i] >= h + n}
         /\ \A i \in Filled(Advance(t, n)) : Advance(t, n).buf[i] = t.buf[i]
<1> DEFINE u == Advance(t, n)
           D == Leaving(t, n)
           C(i) == \E d \in 0 .. Upto(n) - 1 : i = At(t, d)
           G == {i \in Filled(t) : t.buf[i] < h + n}
<1>0. Upto(n) \in 0 .. Size /\ Upto(n) <= n /\ (Upto(n) = n \/ Upto(n) = Size)
  BY UptoFacts
<1>1. \A i \in Filled(t) : t.buf[i] \in Nat /\ t.buf[i] \in h .. h + Size - 1
  BY FilledPlace, FrameFacts DEF Window
<1>2. \A i \in Filled(t) : C(i) <=> t.buf[i] < h + n
  <2> SUFFICES ASSUME NEW i \in Filled(t) PROVE C(i) <=> t.buf[i] < h + n
    OBVIOUS
  <2>1. ASSUME C(i) PROVE t.buf[i] < h + n
    <3>1. PICK d \in 0 .. Upto(n) - 1 : i = At(t, d)
      BY <2>1
    <3>2. d \in 0 .. Size - 1 /\ d < n
      BY <1>0, Sizes
    <3>3. Full(t, d)
      BY <3>1 DEF Full, Filled
    <3>4. t.buf[i] = h + d
      BY <3>1, <3>2, <3>3, WindowPlace
    <3> QED BY <3>2, <3>4
  <2>2. ASSUME t.buf[i] < h + n PROVE C(i)
    <3> DEFINE d == t.buf[i] - h
    <3>1. d \in 0 .. Size - 1 /\ At(t, d) = i
      BY FilledPlace
    <3>2. d < n
      BY <1>1, <2>2
    <3>3. d \in 0 .. Upto(n) - 1
      BY <1>0, <3>1, <3>2, Sizes
    <3> HIDE DEF d
    <3> QED BY <3>1, <3>3
  <2> QED BY <2>1, <2>2
<1>3. /\ u = [t EXCEPT !.head_seq = sn_add(@, n), !.len = @ - Len(Released(t, n)),
                       !.buf = [i \in Slots |-> IF C(i) THEN NoFrame ELSE @[i]]]
      /\ u.ssn = t.ssn /\ u.head_seq = sn_add(t.head_seq, n)
      /\ u.len = t.len - Len(Released(t, n))
      /\ u.buf = [i \in Slots |-> IF C(i) THEN NoFrame ELSE t.buf[i]]
  BY DEF Advance, Tids
<1> HIDE DEF C
<1>4. \A i \in Slots : u.buf[i] = IF C(i) THEN NoFrame ELSE t.buf[i]
  BY <1>3
<1>5. Filled(u) = {i \in Filled(t) : t.buf[i] >= h + n}
  <2>1. \A i \in Slots : u.buf[i] # NoFrame <=> t.buf[i] # NoFrame /\ ~C(i)
    BY <1>4
  <2>2. \A i \in Filled(t) : ~C(i) <=> t.buf[i] >= h + n
    BY <1>1, <1>2
  <2> HIDE DEF u
  <2> QED BY <2>1, <2>2 DEF Filled
<1>6. \A i \in Filled(u) : u.buf[i] = t.buf[i]
  BY <1>4 DEF Filled
<1>7. Cardinality(G) = Cardinality(D)
  <2> DEFINE g == [d \in D |-> At(t, d)]
  <2>1. \A d \in D : d \in 0 .. Size - 1 /\ d < n /\ Full(t, d)
    BY LeavingFacts
  <2>2. \A d \in D : At(t, d) \in G
    <3> SUFFICES ASSUME NEW d \in D PROVE At(t, d) \in G
      OBVIOUS
    <3>1. At(t, d) \in Slots /\ t.buf[At(t, d)] = h + d
      BY <2>1, WindowPlace
    <3>2. At(t, d) \in Filled(t)
      BY <2>1, <3>1 DEF Full, Filled
    <3>3. h + d < h + n
      BY <2>1
    <3> QED BY <3>1, <3>2, <3>3
  <2>3. \A d, e \in D : At(t, d) = At(t, e) => d = e
    BY <2>1, PlacesDiffer
  <2>4. \A i \in G : \E d \in D : At(t, d) = i
    <3> SUFFICES ASSUME NEW i \in G PROVE \E d \in D : At(t, d) = i
      OBVIOUS
    <3> DEFINE d == t.buf[i] - h
    <3>1. d \in 0 .. Size - 1 /\ At(t, d) = i /\ Full(t, d)
      BY FilledPlace
    <3>2. d < n
      BY <1>1
    <3>3. d \in 0 .. Upto(n) - 1
      BY <1>0, <3>1, <3>2, Sizes
    <3> HIDE DEF d
    <3>4. d \in D
      BY <3>1, <3>3 DEF Leaving
    <3> QED BY <3>1, <3>4
  <2> HIDE DEF D, G
  <2>5. g \in Bijection(D, G)
    <3>1. g \in [D -> G]
      BY <2>2
    <3> QED BY <3>1, <2>3, <2>4 DEF Bijection, Injection, Surjection, IsInjective
  <2>6. ExistsBijection(D, G)
    BY <2>5 DEF ExistsBijection
  <2>7. IsFiniteSet(D)
    BY LeavingFacts DEF D
  <2> QED BY <2>6, <2>7, FS_Bijection
<1>8. u.len = Cardinality(Filled(u))
  <2>1. Filled(u) = Filled(t) \ G
    BY <1>1, <1>5
  <2>2. Filled(t) \cap G = G
    OBVIOUS
  <2> HIDE DEF G, u
  <2>3. Cardinality(Filled(u)) = Cardinality(Filled(t)) - Cardinality(G)
    <3> DEFINE S == Filled(t)
    <3>1. IsFiniteSet(S) /\ S \cap G = G
      BY <2>2, SlotsFinite
    <3> HIDE DEF S
    <3>2. Cardinality(S \ G) = Cardinality(S) - Cardinality(S \cap G)
      BY <3>1, FS_Difference
    <3> QED BY <2>1, <3>1, <3>2 DEF S
  <2>4. t.len = Cardinality(Filled(t))
    BY DEF Window
  <2>5. Len(Released(t, n)) = Cardinality(D)
    BY ReleasedRun
  <2> QED BY <1>3, <1>7, <2>3, <2>4, <2>5
<1>9. u.head_seq = Seqno(h + n)
  BY <1>3, SnAdd DEF Window
<1>10. Window(u, h + n)
  <2>1. \A i \in Filled(u) : u.buf[i] \in h + n .. h + n + Size - 1
    <3> SUFFICES ASSUME NEW i \in Filled(u)
                 PROVE  u.buf[i] \in h + n .. h + n + Size - 1
      OBVIOUS
    <3>1. i \in Filled(t) /\ t.buf[i] >= h + n /\ u.buf[i] = t.buf[i]
      BY <1>5, <1>6
    <3>2. t.buf[i] \in h .. h + Size - 1
      BY <1>1, <3>1
    <3> HIDE DEF u
    <3> QED BY <3>1, <3>2, Sizes
  <2>2. \A i \in Filled(u) : i = Index(u, Seqno(u.buf[i]))
    BY <1>3, <1>5, <1>6 DEF Window, Index
  <2> QED BY <1>8, <1>9, <2>1, <2>2 DEF Window
<1>11. u \in Tids
  <2>1. u.head_seq \in 0 .. Modulus - 1
    BY <1>9, SeqnoType
  <2>2. u.len \in 0 .. Size
    BY <1>8, SlotsFinite
  <2>3. u.buf \in [Slots -> Frames \cup {NoFrame}]
    <3>1. \A i \in Slots : u.buf[i] \in Frames \cup {NoFrame}
      BY <1>4, FrameFacts
    <3> QED BY <1>3, <3>1
  <2>4. u \in [ssn : 0 .. Modulus - 1, head_seq : {u.head_seq}, len : {u.len}, buf : {u.buf}]
    <3> HIDE DEF C
    <3> QED BY <1>3 DEF Tids
  <2> HIDE DEF u
  <2> QED BY <2>1, <2>2, <2>3, <2>4 DEF Tids
<1> QED BY <1>3, <1>5, <1>6, <1>10, <1>11

\* The window with frame f in slot i.
Store(t, i, f) == [t EXCEPT !.buf[i] = f, !.len = @ + 1]

\* Storing a frame of the window in its empty slot.
LEMMA StoreWindow ==
  ASSUME NEW t \in Tids, NEW h \in Nat, Window(t, h), NEW f \in Frames,
         f \in h .. h + Size - 1, NEW i, i = Index(t, Seqno(f)), t.buf[i] = NoFrame,
         NEW u, u = Store(t, i, f)
  PROVE  /\ u \in Tids /\ Window(u, h) /\ i \in Slots
         /\ Filled(u) = Filled(t) \cup {i} /\ u.buf[i] = f
         /\ \A k \in Filled(t) : u.buf[k] = t.buf[k]
<1>1. i \in Slots
  BY FrameFacts, Slot
<1>2. /\ u.ssn = t.ssn /\ u.head_seq = t.head_seq /\ u.len = t.len + 1
      /\ u.buf = [t.buf EXCEPT ![i] = f]
  BY DEF Tids, Store
<1>3. \A k \in Slots : u.buf[k] = IF k = i THEN f ELSE t.buf[k]
  BY <1>2, FrameFacts
<1>4. f # NoFrame
  BY FrameFacts
<1>5. Filled(u) = Filled(t) \cup {i} /\ i \notin Filled(t)
  BY <1>1, <1>3, <1>4 DEF Filled
<1>6. u.buf[i] = f /\ \A k \in Filled(t) : u.buf[k] = t.buf[k]
  BY <1>1, <1>3 DEF Filled
<1>7. u.len = Cardinality(Filled(u))
  <2>1. IsFiniteSet(Filled(t)) /\ t.len = Cardinality(Filled(t))
    BY SlotsFinite DEF Window
  <2>2. Cardinality(Filled(t) \cup {i}) = Cardinality(Filled(t)) + 1
    BY <1>5, <2>1, FS_AddElement
  <2> QED BY <1>2, <1>5, <2>1, <2>2
<1>8. Window(u, h)
  <2>1. u.head_seq = Seqno(h)
    BY <1>2 DEF Window
  <2>2. \A x : Index(u, x) = Index(t, x)
    BY <1>2 DEF Index
  <2>3. \A k \in Filled(u) : u.buf[k] \in h .. h + Size - 1 /\ k = Index(u, Seqno(u.buf[k]))
    BY <1>5, <1>6, <2>2 DEF Window
  <2> QED BY <1>7, <2>1, <2>3 DEF Window
<1>9. u \in Tids
  <2>1. u.len \in 0 .. Size
    BY <1>7, SlotsFinite
  <2>2. u.buf \in [Slots -> Frames \cup {NoFrame}]
    <3>1. t.buf \in [Slots -> Frames \cup {NoFrame}]
      BY FrameFacts
    <3> QED BY <1>1, <1>2, <3>1
  <2>3. u \in [ssn : 0 .. Modulus - 1, head_seq : 0 .. Modulus - 1, len : {u.len}, buf : {u.buf}]
    BY <1>2 DEF Tids, Store
  <2> QED BY <2>1, <2>2, <2>3 DEF Tids
<1> QED BY <1>1, <1>5, <1>6, <1>8, <1>9

\* The frame that is due passes through an empty buffer.
LEMMA PassWindow ==
  ASSUME NEW t \in Tids, NEW h \in Nat, Window(t, h), t.len = 0,
         NEW u, u = [t EXCEPT !.head_seq = sn_inc(@)]
  PROVE  u \in Tids /\ Window(u, h + 1) /\ Filled(u) = {} /\ u.len = 0
<1>1. u.ssn = t.ssn /\ u.len = t.len /\ u.buf = t.buf /\ u.head_seq = sn_inc(t.head_seq)
  BY DEF Tids
<1>2. Filled(u) = Filled(t) /\ Filled(t) = {}
  BY <1>1, SlotsFinite DEF Filled, Window
<1>3. u.head_seq = Seqno(h + 1)
  BY <1>1, SnAdd DEF sn_inc, Window
<1>4. Window(u, h + 1)
  BY <1>1, <1>2, <1>3 DEF Window
<1>5. u.head_seq \in 0 .. Modulus - 1
  BY <1>3, SeqnoType
<1>6. u \in Tids
  BY <1>5 DEF Tids
<1> QED BY <1>1, <1>2, <1>4, <1>6

\* A new session starts with the sequence number it is given, and is empty.
LEMMA NewWindow ==
  ASSUME NEW x \in Nat
  PROVE  /\ NewTid(SeqCtrl(Seqno(x))) \in Tids /\ Window(NewTid(SeqCtrl(Seqno(x))), x)
         /\ Filled(NewTid(SeqCtrl(Seqno(x)))) = {} /\ NewTid(SeqCtrl(Seqno(x))).len = 0
<1> DEFINE s == Seqno(x)
           u == NewTid(SeqCtrl(Seqno(x)))
<1>1. s \in 0 .. Modulus - 1 /\ s \in Nat
  BY SeqnoType, Sizes
<1>2. SeqCtrl(s) \div 16 = s
  <2> HIDE DEF s
  <2> QED BY <1>1 DEF SeqCtrl
<1>3. u = [ssn |-> s, head_seq |-> s, len |-> 0, buf |-> [i \in Slots |-> NoFrame]]
  BY <1>2 DEF NewTid
<1> HIDE DEF u
<1>4. Filled(u) = {}
  BY <1>3 DEF Filled
<1>5. u.len = 0 /\ Cardinality(Filled(u)) = 0
  BY <1>3, <1>4, FS_EmptySet
<1>6. Window(u, x)
  BY <1>3, <1>4, <1>5 DEF Window
<1>7. u \in Tids
  <2> HIDE DEF s
  <2> QED BY <1>1, <1>3, Sizes DEF Tids
<1> QED BY <1>4, <1>5, <1>6, <1>7 DEF u

\* A set of numbers that is not empty has a least member, ...
LEMMA MinFacts ==
  ASSUME NEW S \in SUBSET Nat, S # {}
  PROVE  Min(S) \in S /\ \A x \in S : Min(S) <= x
<1>1. PICK m \in S : \A y \in S : ~(<<y, m>> \in OpToRel(<, Nat))
  BY NatLessThanWellFounded, WFMin
<1>2. \A y \in S : m <= y
  <2> SUFFICES ASSUME NEW y \in S, y < m PROVE FALSE
    OBVIOUS
  <2>1. <<y, m>> \in Nat \X Nat /\ <<y, m>>[1] = y /\ <<y, m>>[2] = m
    OBVIOUS
  <2>2. <<y, m>> \in {ss \in Nat \X Nat : ss[1] < ss[2]}
    BY <2>1
  <2> QED BY <1>1, <2>2 DEF OpToRel
<1> QED BY <1>2 DEF Min

\* ... and one that is bounded has a greatest.
LEMMA MaxFacts ==
  ASSUME NEW b \in Nat, NEW S \in SUBSET (0 .. b), S # {}
  PROVE  Max(S) \in S /\ \A x \in S : x <= Max(S)
<1> DEFINE T == {b - x : x \in S}
<1>1. T \in SUBSET Nat /\ T # {}
  <2>1. \A x \in S : b - x \in Nat
    OBVIOUS
  <2> QED BY <2>1, Zenon
<1> HIDE DEF T
<1>2. Min(T) \in T /\ \A y \in T : Min(T) <= y
  BY <1>1, MinFacts
<1>3. PICK m \in S : Min(T) = b - m
  BY <1>2 DEF T
<1>4. \A x \in S : b - x \in T /\ x \in Int
  BY DEF T
<1>5. \A x \in S : m >= x
  BY <1>2, <1>3, <1>4
<1> QED BY <1>5 DEF Max

\* How far sta_release moves the head: within the window, and only up to the
\* place after a frame.
LEMMA CountFacts ==
  ASSUME NEW t, NEW l
  PROVE  /\ StaReleaseCount(t, l) \in 0 .. Size
         /\ StaReleaseCount(t, l) # 0 => Full(t, StaReleaseCount(t, l) - 1)
<1> DEFINE B == Blocked(t, l) \cup {Size}
           stop == Min(B)
           out == {d \in 0 .. stop - 1 : Full(t, d)}
           E == {d \in 0 .. Size - 1 : ~Full(t, d)} \cup {Size}
<1>1. stop \in 1 .. Size
  <2>1. B \in SUBSET Nat /\ B # {} /\ \A x \in B : x \in 1 .. Size
    BY Sizes DEF Blocked
  <2> HIDE DEF B
  <2> QED BY <2>1, MinFacts
<1>2. ASSUME out # {}
      PROVE  Max(out) \in out
  <2>1. out \in SUBSET (0 .. Size)
    <3> HIDE DEF stop
    <3> QED BY <1>1, Sizes
  <2> HIDE DEF out
  <2> QED BY <1>2, <2>1, Sizes, MaxFacts
<1>3. CASE t.len > 0 /\ ~Full(t, 0)
  <2>1. StaReleaseCount(t, l) = IF out = {} THEN 0 ELSE Max(out) + 1
    BY <1>3 DEF StaReleaseCount
  <2>2. CASE out = {}
    BY <2>1, <2>2, Sizes
  <2>3. CASE out # {}
    <3> DEFINE m == Max(out)
    <3>1. m \in 0 .. stop - 1 /\ Full(t, m)
      BY <1>2, <2>3
    <3> HIDE DEF m, stop
    <3>2. m + 1 \in 0 .. Size /\ (m + 1) - 1 = m
      BY <1>1, <3>1, Sizes
    <3>3. StaReleaseCount(t, l) = m + 1
      BY <2>1, <2>3 DEF m
    <3> QED BY <3>1, <3>2, <3>3
  <2> QED BY <2>2, <2>3
<1>4. CASE ~(t.len > 0 /\ ~Full(t, 0))
  <2> DEFINE m == Min(E)
  <2>1. StaReleaseCount(t, l) = m
    BY <1>4 DEF StaReleaseCount, FirstEmpty
  <2>2. E \in SUBSET Nat /\ E # {} /\ Size \in E
    BY Sizes
  <2>3. \A x \in 0 .. Size - 1 : x \notin E => Full(t, x)
    OBVIOUS
  <2>4. m \in E /\ \A x \in E : m <= x
    <3> HIDE DEF E
    <3> QED BY <2>2, MinFacts
  <2> HIDE DEF m, E
  <2>5. m \in Nat /\ m <= Size
    BY <2>2, <2>4
  <2>6. ASSUME m # 0 PROVE Full(t, m - 1)
    <3>1. m - 1 \in 0 .. Size - 1
      BY <2>5, <2>6, Sizes
    <3>2. m - 1 \notin E
      BY <2>4, <2>5
    <3> QED BY <2>3, <3>1, <3>2
  <2> QED BY <2>1, <2>5, <2>6, Sizes
<1> QED BY <1>3, <1>4

\* The timer is set for a frame in the buffer, if there is one.
LEMMA TimerFacts ==
  ASSUME NEW t \in Tids, NEW h \in Nat, Window(t, h), NEW l
  PROVE  /\ t.len = 0 => StaReleaseTimer(t, l) = NoTimer
         /\ t.len > 0 => \E i \in Filled(t) : StaReleaseTimer(t, l) = l[i] + 1
<1>1. t.len = 0 => StaReleaseTimer(t, l) = NoTimer
  BY DEF StaReleaseTimer
<1>2. ASSUME t.len > 0
      PROVE  \E i \in Filled(t) : StaReleaseTimer(t, l) = l[i] + 1
  <2> DEFINE F == {d \in 0 .. Size - 1 : Full(t, d)}
  <2>1. Filled(t) # {}
    BY <1>2, SlotsFinite DEF Window
  <2>2. PICK k \in Filled(t) : TRUE
    BY <2>1
  <2>3. F \in SUBSET Nat /\ F # {}
    BY <2>2, FilledPlace
  <2>4. Min(F) \in F
    <3> HIDE DEF F
    <3> QED BY <2>3, MinFacts
  <2>5. At(t, Min(F)) \in Filled(t)
    BY <2>4, WindowPlace DEF Full, Filled
  <2>6. StaReleaseTimer(t, l) = l[At(t, Min(F))] + 1
    BY <1>2 DEF StaReleaseTimer
  <2> HIDE DEF F
  <2> QED BY <2>5, <2>6
<1> QED BY <1>1, <1>2

-----------------------------------------------------------------------------
(* Releasing frames *)

\* What a run is, place by place.
LEMMA RunFacts ==
  ASSUME NEW a, NEW b, NEW q, Run(q, a, b)
  PROVE  /\ q \in Seq(Frames) /\ Len(q) \in Nat /\ DOMAIN q = 1 .. Len(q)
         /\ \A m \in 1 .. Len(q) : q[m] \in Nat /\ a <= q[m] /\ q[m] < b
         /\ \A m, n \in 1 .. Len(q) : m < n => q[m] < q[n]
<1>1. q \in Seq(Frames) /\ Rising(q) /\ \A m \in DOMAIN q : a <= q[m] /\ q[m] < b
  BY DEF Run
<1>2. Len(q) \in Nat /\ DOMAIN q = 1 .. Len(q) /\ \A m \in 1 .. Len(q) : q[m] \in Frames
  BY <1>1
<1>3. \A m \in 1 .. Len(q) : q[m] \in Nat
  BY <1>2, FrameFacts
<1> QED BY <1>1, <1>2, <1>3 DEF Rising

\* Two runs, one after the other.
LEMMA RunConcat ==
  ASSUME NEW a \in Int, NEW b \in Int, NEW c \in Int, a <= b, b <= c,
         NEW p, Run(p, a, b), NEW q, Run(q, b, c)
  PROVE  Run(p \o q, a, c)
<1> DEFINE r == p \o q
<1>1. p \in Seq(Frames) /\ q \in Seq(Frames)
  BY RunFacts
<1>2. /\ Len(p) \in Nat /\ Len(q) \in Nat /\ r \in Seq(Frames) /\ Len(r) = Len(p) + Len(q)
      /\ DOMAIN p = 1 .. Len(p) /\ DOMAIN q = 1 .. Len(q) /\ DOMAIN r = 1 .. Len(r)
  BY <1>1
<1>3. \A m \in 1 .. Len(r) : r[m] = IF m <= Len(p) THEN p[m] ELSE q[m - Len(p)]
  BY <1>1
<1> HIDE DEF r
<1>4. \A m \in 1 .. Len(p) : r[m] = p[m] /\ a <= r[m] /\ r[m] < b /\ r[m] \in Nat
  <2> SUFFICES ASSUME NEW m \in 1 .. Len(p)
               PROVE  r[m] = p[m] /\ a <= r[m] /\ r[m] < b /\ r[m] \in Nat
    OBVIOUS
  <2>1. m \in 1 .. Len(r) /\ m <= Len(p)
    BY <1>2
  <2>2. r[m] = p[m]
    BY <1>3, <2>1
  <2> QED BY <2>2, RunFacts
<1>5. \A m \in 1 .. Len(r) : m > Len(p) =>
        /\ m - Len(p) \in 1 .. Len(q) /\ r[m] = q[m - Len(p)]
        /\ b <= r[m] /\ r[m] < c /\ r[m] \in Nat
  <2> SUFFICES ASSUME NEW m \in 1 .. Len(r), m > Len(p)
               PROVE  /\ m - Len(p) \in 1 .. Len(q) /\ r[m] = q[m - Len(p)]
                      /\ b <= r[m] /\ r[m] < c /\ r[m] \in Nat
    OBVIOUS
  <2>1. m - Len(p) \in 1 .. Len(q) /\ ~(m <= Len(p))
    BY <1>2
  <2>2. r[m] = q[m - Len(p)]
    BY <1>3, <2>1
  <2> QED BY <2>1, <2>2, RunFacts
<1>6. \A m \in DOMAIN r : a <= r[m] /\ r[m] < c
  BY <1>2, <1>4, <1>5
<1>7. Rising(r)
  <2> SUFFICES ASSUME NEW m \in DOMAIN r, NEW n \in DOMAIN r, m < n PROVE r[m] < r[n]
    BY DEF Rising
  <2>1. CASE n <= Len(p)
    <3>1. m \in DOMAIN p /\ n \in DOMAIN p
      BY <1>2, <2>1
    <3>2. p[m] < p[n]
      BY <3>1 DEF Run, Rising
    <3> QED BY <1>2, <1>4, <3>1, <3>2
  <2>2. CASE m > Len(p)
    <3>1. m - Len(p) \in DOMAIN q /\ n - Len(p) \in DOMAIN q /\ m - Len(p) < n - Len(p)
      BY <1>2, <2>2
    <3>2. q[m - Len(p)] < q[n - Len(p)]
      BY <3>1 DEF Run, Rising
    <3>3. r[m] = q[m - Len(p)] /\ r[n] = q[n - Len(p)]
      <4>1. n > Len(p) /\ m \in 1 .. Len(r) /\ n \in 1 .. Len(r)
        BY <1>2, <2>2
      <4> QED BY <1>5, <2>2, <4>1
    <3> QED BY <3>2, <3>3
  <2>3. CASE m <= Len(p) /\ n > Len(p)
    <3>1. r[m] < b /\ b <= r[n] /\ r[m] \in Nat /\ r[n] \in Nat
      BY <1>2, <1>4, <1>5, <2>3
    <3> QED BY <3>1
  <2> QED BY <1>2, <2>1, <2>2, <2>3
<1> QED BY <1>2, <1>6, <1>7 DEF Run, r

\* A single frame is a run.
LEMMA RunOne ==
  ASSUME NEW f \in Frames
  PROVE  Run(<<f>>, f, f + 1)
BY FrameFacts DEF Run, Rising

\* Frames released in a run that starts after the last frame released before
\* continue the order.
LEMMA RunContinues ==
  ASSUME NEW a \in Int, NEW b \in Int, a <= b, NEW q, Run(q, a, b), last \in Int, last < a
  PROVE  /\ Rising(<<last>> \o q)
         /\ LastOf(q) \in Int /\ LastOf(q) < b
<1>1. q \in Seq(Frames) /\ Len(q) \in Nat /\ DOMAIN q = 1 .. Len(q)
  BY RunFacts
<1>2. \A m \in 1 .. Len(q) : q[m] \in Nat /\ a <= q[m] /\ q[m] < b
  BY RunFacts
<1>3. LastOf(q) \in Int /\ LastOf(q) < b
  <2>1. CASE q = <<>>
    BY <2>1 DEF LastOf
  <2>2. CASE q # <<>>
    <3>1. Len(q) \in 1 .. Len(q)
      BY <1>1, <2>2
    <3> QED BY <1>2, <2>2, <3>1 DEF LastOf
  <2> QED BY <2>1, <2>2
<1>4. Rising(<<last>> \o q)
  <2> DEFINE r == <<last>> \o q
  <2>1. DOMAIN r = 1 .. Len(q) + 1 /\ r[1] = last
    BY <1>1
  <2>2. \A m \in 2 .. Len(q) + 1 : r[m] = q[m - 1] /\ m - 1 \in 1 .. Len(q)
    BY <1>1
  <2> HIDE DEF r
  <2> SUFFICES ASSUME NEW m \in DOMAIN r, NEW n \in DOMAIN r, m < n PROVE r[m] < r[n]
    BY DEF Rising, r
  <2>3. n \in 2 .. Len(q) + 1 /\ r[n] = q[n - 1] /\ n - 1 \in 1 .. Len(q)
    BY <1>1, <2>1, <2>2
  <2>4. CASE m = 1
    BY <1>2, <2>1, <2>3, <2>4
  <2>5. CASE m # 1
    <3>1. r[m] = q[m - 1] /\ m - 1 \in 1 .. Len(q) /\ m - 1 < n - 1
      BY <1>1, <2>1, <2>2, <2>5
    <3>2. q[m - 1] < q[n - 1]
      BY <1>1, <2>3, <3>1 DEF Run, Rising
    <3> QED BY <2>3, <3>1, <3>2
  <2> QED BY <2>4, <2>5
<1> QED BY <1>3, <1>4

\* A run of no frames.
LEMMA RunEmpty ==
  ASSUME NEW a \in Int, NEW q, Run(q, a, a)
  PROVE  q = <<>>
<1>1. q \in Seq(Frames)
  BY RunFacts
<1>2. \A m \in 1 .. Len(q) : FALSE
  <2>1. \A m \in 1 .. Len(q) : q[m] \in Nat /\ a <= q[m] /\ q[m] < a
    BY RunFacts
  <2> QED BY <2>1
<1>3. Len(q) = 0
  <2>1. Len(q) \in Nat
    BY <1>1
  <2>2. ~(1 \in 1 .. Len(q))
    BY <1>2
  <2> QED BY <2>1, <2>2
<1> QED BY <1>1, <1>3

-----------------------------------------------------------------------------
(* Where a frame belongs *)

\* A frame less than half the sequence space from the head is recognised as
\* old or new, and the window moves just so far that it is its last frame.
LEMMA Judged ==
  ASSUME NEW h \in Nat, tid.head_seq = Seqno(h), NEW f \in Nat, f - h <= Half, h - f < Half
  PROVE  /\ sn_less(Seqno(f), tid.head_seq) <=> f < h
         /\ f >= h => WindowMove(f) = IF f < h + Size THEN 0 ELSE f - Size + 1 - h
<1>1. /\ Half \in Nat /\ Size \in Nat /\ Size > 1 /\ Size < Half
      /\ Modulus \in Nat /\ Modulus > 0 /\ 2 * Half <= Modulus
  BY Sizes, ReorderAssumption
<1>2. sn_less(Seqno(f), tid.head_seq) <=> f < h
  BY SnLess
<1>3. ASSUME f >= h
      PROVE  WindowMove(f) = IF f < h + Size THEN 0 ELSE f - Size + 1 - h
  <2> DEFINE e == h + Size
             s == Seqno(f)
             b == Seqno(h) + Size
             k == -Size
             g == f - Size + 1
             y == f - Size
  <2>1. e \in Int /\ s \in Int /\ b \in Int /\ k \in Int /\ g \in Int /\ y \in Int
    BY <1>1, SeqnoType
  <2>2. sn_less(s, b) <=> f < e
    <3>1. Seqno(b) = Seqno(e)
      <4>1. sn_add(Seqno(h), Size) = Seqno(h + Size)
        BY <1>1, SnAdd
      <4>2. sn_add(Seqno(h), Size) = Seqno(Seqno(h) + Size)
        BY Zenon DEF sn_add, Seqno
      <4> QED BY <4>1, <4>2
    <3>2. sn_sub(s, b) = sn_sub(s, Seqno(b))
      <4> HIDE DEF s, b
      <4>1. (s - (b % Modulus)) % Modulus = (s - b) % Modulus
        BY <1>1, <2>1, ModSum
      <4> QED BY <4>1 DEF sn_sub, Seqno
    <3>3. sn_less(s, Seqno(e)) <=> f < e
      <4>1. f - e <= Half /\ e - f < Half
        BY <1>1, <1>3
      <4> HIDE DEF e
      <4> QED BY <2>1, <4>1, SnLess
    <3> HIDE DEF s, b, e
    <3> QED BY <3>1, <3>2, <3>3 DEF sn_less
  <2>3. sn_inc(sn_sub(s, Size)) = Seqno(g)
    <3>1. sn_sub(s, Size) = sn_add(s, k)
      <4> HIDE DEF s
      <4>1. s - Size = s + k
        BY <1>1, <2>1
      <4> HIDE DEF k
      <4> QED BY <4>1 DEF sn_sub, sn_add
    <3>2. sn_add(s, k) = Seqno(f + k)
      <4> HIDE DEF k
      <4> QED BY <2>1, SnAdd
    <3>3. f + k = y /\ y + 1 = g
      BY <1>1
    <3> HIDE DEF y, g, k
    <3>4. sn_add(Seqno(y), 1) = Seqno(y + 1)
      BY <2>1, SnAdd
    <3> QED BY <3>1, <3>2, <3>3, <3>4 DEF sn_inc
  <2>4. CASE f < e
    BY <2>2, <2>4 DEF WindowMove
  <2>5. CASE ~(f < e)
    <3>1. WindowMove(f) = ReleaseCount(tid, Seqno(g))
      BY <2>2, <2>3, <2>5 DEF WindowMove
    <3>2. h < g /\ h - g <= Half /\ g - h < Half
      BY <1>1, <2>5
    <3> DEFINE m == g - h
    <3> HIDE DEF g
    <3>3. sn_less(Seqno(h), Seqno(g))
      BY <2>1, <3>2, SnLess
    <3>4. WindowMove(f) = m % Modulus
      BY <2>1, <3>1, <3>3, SnSub DEF ReleaseCount
    <3>5. m \in 0 .. Modulus - 1 /\ m = Modulus * 0 + m /\ m \in Int
      BY <1>1, <2>1, <3>2
    <3> HIDE DEF m
    <3>6. m % Modulus = m
      BY <1>1, <3>5, ModUnique
    <3> QED BY <1>1, <2>5, <3>4, <3>6 DEF m, g
  <2> QED BY <2>4, <2>5
<1> QED BY <1>2, <1>3

-----------------------------------------------------------------------------
(* The inductive invariant *)

\* How far the newest frame can be beyond the head.
Slack == IF Ahead < Size THEN Size - 1 ELSE Ahead

\* A session whose window starts at frame h has released only frames before h
\* and buffers only frames that were sent; the newest frame sent is near the
\* head, and, once the session has seen a frame, the one received last is near
\* the newest: so sequence numbers close to both can be told apart.
Session(h) ==
  link = "ba" =>
    /\ last < h /\ h <= newest + 1 /\ newest <= h + Slack
    /\ \A i \in Filled(tid) : tid.buf[i] <= newest
    /\ \/ newest = h /\ timer = NoTimer
       \/ \E f \in Frames : newest - Back <= f /\ f <= newest /\ rx_seq_tid = Seqno(f)

\* The timer runs while frames wait, for one of them at the latest.
Timed ==
  link = "ba" /\ tid.len > 0 =>
    timer # NoTimer /\ \E i \in Filled(tid) : timer <= 1 + left[i]

\* Without a session there are no frames and no timer.
Idle == link = "plain" => tid.len = 0 /\ timer = NoTimer

\* The unwrapped head is not part of the state: it exists.
Inductive ==
  /\ TypeOK
  /\ \E h \in Nat : Window(tid, h) /\ Session(h)
  /\ Timed /\ Idle /\ NothingPurged

\* What ReleasedInOrder says of a step.
InOrder ==
  \A c \in Context : link = "ba" /\ batch'[c] # <<>> /\ batch'[c] # batch[c] =>
      Rising(<<last>> \o batch'[c])

\* The parts of the type invariant.
LEMMA Types ==
  ASSUME TypeOK
  PROVE  /\ link \in Link /\ newest \in Frames /\ newest \in Nat
         /\ rx_seq_tid \in 0 .. Modulus - 1 /\ tid \in Tids
         /\ left \in [Slots -> 0 .. Timeout] /\ timer \in {NoTimer} \cup 0 .. Timeout + 1
         /\ batch \in [Context -> Seq(Frames)] /\ last \in Int /\ purged \subseteq Frames
BY FrameFacts DEF TypeOK, Tids

\* The sizes of the transmitter's steps.
LEMMA StepSizes ==
  /\ Back \in Nat /\ Back + 1 < Half /\ Ahead \in Nat /\ Ahead > 0 /\ Size > 1
  /\ Slack \in Nat /\ Slack + Ahead <= Half /\ Size - 1 <= Slack /\ Ahead <= Slack
  /\ Timeout \in Nat /\ NoTimer \notin Nat
BY Sizes, ReorderAssumption, WindowAssumption DEF Slack

\* Releasing a run that starts after the last frame released.
LEMMA ReleaseRun ==
  ASSUME TypeOK, NEW c \in Context, NEW a \in Nat, NEW b \in Nat, a <= b,
         NEW q, Run(q, a, b), last < a, Release(c, q)
  PROVE  /\ batch' \in [Context -> Seq(Frames)] /\ last' \in Int /\ last' < b
         /\ InOrder
<1>1. batch' = [batch EXCEPT ![c] = q] /\ last' = LastOf(q)
  BY DEF Release
<1>2. batch \in [Context -> Seq(Frames)] /\ last \in Int /\ q \in Seq(Frames)
  BY Types, RunFacts
<1>3. Rising(<<last>> \o q) /\ LastOf(q) \in Int /\ LastOf(q) < b
  BY <1>2, RunContinues
<1>4. batch' \in [Context -> Seq(Frames)]
  BY <1>1, <1>2
<1>5. InOrder
  <2> SUFFICES ASSUME NEW d \in Context, batch'[d] # batch[d]
               PROVE  Rising(<<last>> \o batch'[d])
    BY DEF InOrder
  <2>1. d = c /\ batch'[d] = q
    BY <1>1, <1>2
  <2> QED BY <1>3, <2>1
<1> QED BY <1>1, <1>3, <1>4, <1>5

\* A step that releases nothing.
LEMMA NoRelease ==
  ASSUME batch' = batch
  PROVE  InOrder
BY DEF InOrder

\* A frame of the transmitter is near the head, and one that repeats the
\* sequence number of the frame before it is this frame, or the first of a
\* session.
LEMMA ArrivesNear ==
  ASSUME TypeOK, link = "ba", NEW h \in Nat, Session(h), NEW f \in Frames, Arrives(f)
  PROVE  /\ f \in Nat /\ f - h <= Half /\ h - f < Half
         /\ newest' \in Frames /\ newest' \in Nat /\ newest <= newest' /\ f <= newest'
         /\ newest' - Back <= f /\ (newest' = newest \/ newest' = f)
         /\ newest' <= newest + Ahead
<1>1. f \in Nat /\ newest \in Nat /\ newest \in Frames
  BY Types, FrameFacts
<1>2. /\ newest - Back <= f /\ f <= newest + Ahead
      /\ newest' = IF f > newest THEN f ELSE newest
  BY <1>1, StepSizes DEF Arrives
<1>3. h <= newest + 1 /\ newest <= h + Slack
  BY DEF Session
<1>4. f - h <= Half /\ h - f < Half
  BY <1>1, <1>2, <1>3, StepSizes, Sizes
<1> QED BY <1>1, <1>2, <1>4, StepSizes

\* The session after a fresh frame f that belongs to the window at g, when the
\* window has then come to k.
LEMMA FreshSession ==
  ASSUME TypeOK, link = "ba", link' = "ba", NEW h \in Nat, Session(h),
         NEW f \in Frames, Fresh(f), NEW k \in Nat, h <= k,
         f <= k + Size - 1, last' < k, k <= newest' + 1,
         \A i \in Filled(tid') : tid'.buf[i] <= newest'
  PROVE  Session(k)'
<1>1. /\ newest' \in Nat /\ newest <= newest' /\ f <= newest' /\ newest' - Back <= f
      /\ (newest' = newest \/ newest' = f) /\ f \in Nat /\ newest \in Nat
  BY ArrivesNear, Types DEF Fresh
<1>2. newest <= h + Slack
  BY DEF Session
<1>3. newest' <= k + Slack
  BY <1>1, <1>2, StepSizes, Sizes
<1>4. rx_seq_tid' = Seqno(f)
  BY DEF Fresh
<1> QED BY <1>1, <1>3, <1>4 DEF Session

-----------------------------------------------------------------------------
(* One lemma for each action *)

\* The initial state: an empty window at Start.
LEMMA InitInductive == Init => Inductive
<1> SUFFICES ASSUME Init PROVE Inductive
  OBVIOUS
<1>1. Start \in Nat /\ Start \in Frames
  BY ReorderAssumption DEF Frames
<1>2. tid \in Tids /\ Window(tid, Start) /\ Filled(tid) = {} /\ tid.len = 0
  BY <1>1, NewWindow DEF Init
<1>3. TypeOK
  <2>1. link \in Link /\ newest \in Frames /\ purged \subseteq Frames /\ last \in Int
    BY <1>1 DEF Init, Link
  <2>2. rx_seq_tid \in 0 .. Modulus - 1
    BY Sizes DEF Init
  <2>3. left \in [Slots -> 0 .. Timeout] /\ timer \in {NoTimer} \cup 0 .. Timeout + 1
    BY StepSizes DEF Init
  <2>4. batch \in [Context -> Seq(Frames)]
    BY DEF Init
  <2> QED BY <1>2, <2>1, <2>2, <2>3, <2>4 DEF TypeOK, Tids
<1>4. Session(Start)
  BY <1>1, <1>2, StepSizes DEF Session, Init
<1>5. Timed /\ Idle /\ NothingPurged
  BY <1>2 DEF Timed, Idle, NothingPurged, Init
<1> QED BY <1>1, <1>2, <1>3, <1>4, <1>5 DEF Inductive

\* A duplicate: only the transmitter may have moved on, and it has not, unless
\* the frame is taken for one because the session has seen none yet.
LEMMA DuplicateStep ==
  ASSUME Inductive, NEW f \in Frames, rx_duplicate(f)
  PROVE  Inductive' /\ InOrder
<1>1. TypeOK /\ Timed /\ Idle /\ NothingPurged
  BY DEF Inductive
<1>2. PICK h \in Nat : Window(tid, h) /\ Session(h)
  BY DEF Inductive
<1>3. /\ link' = link /\ rx_seq_tid' = rx_seq_tid /\ tid' = tid /\ left' = left /\ timer' = timer
      /\ batch' = batch /\ last' = last /\ purged' = purged
      /\ Arrives(f) /\ Seqno(f) = rx_seq_tid
  BY DEF rx_duplicate
<1>4. newest' \in Frames
  BY <1>1, <1>3, Types DEF Arrives
<1>5. TypeOK'
  BY <1>1, <1>3, <1>4 DEF TypeOK
<1>6. Session(h)'
  <2> SUFFICES ASSUME link = "ba" PROVE Session(h)'
    BY <1>3 DEF Session
  <2>1. /\ newest \in Nat /\ newest' \in Nat /\ newest <= newest' /\ f <= newest' /\ f \in Nat
        /\ newest' - Back <= f /\ (newest' = newest \/ newest' = f) /\ newest' <= newest + Ahead
    BY <1>1, <1>2, <1>3, ArrivesNear, Types
  <2>2. newest' <= h + Slack
    <3>1. CASE newest = h
      BY <2>1, <3>1, StepSizes
    <3>2. CASE newest # h
      <4>1. PICK e \in Frames : newest - Back <= e /\ e <= newest /\ rx_seq_tid = Seqno(e)
        BY <1>2, <3>2 DEF Session
      <4>2. e \in Nat /\ f - e < Modulus /\ e - f < Modulus
        <5>1. e \in Nat
          BY FrameFacts
        <5>2. Back + Ahead < Modulus /\ Back \in Nat /\ Ahead \in Nat /\ Modulus \in Nat
          BY StepSizes, Sizes
        <5>3. /\ f \in Nat /\ newest \in Nat /\ newest - Back <= e /\ e <= newest
              /\ newest - Back <= f /\ f <= newest + Ahead
          BY <1>3, <2>1, <4>1, <5>2 DEF Arrives
        <5> QED BY <5>1, <5>2, <5>3
      <4>3. f % Modulus = e % Modulus
        BY <1>3, <4>1 DEF Seqno
      <4>4. f = e
        BY <2>1, <4>2, <4>3, Sizes, ModNear
      <4>5. newest' = newest
        BY <2>1, <4>1, <4>4
      <4> QED BY <1>2, <4>5 DEF Session
    <3> QED BY <3>1, <3>2
  <2>3. last < h /\ h <= newest + 1 /\ \A i \in Filled(tid) : tid.buf[i] <= newest
    BY <1>2 DEF Session
  <2>4. h <= newest' + 1
    BY <2>1, <2>3
  <2>5. \A i \in Filled(tid') : tid'.buf[i] <= newest'
    <3>1. \A i \in Filled(tid) : tid.buf[i] \in Nat
      BY <1>1, <1>2, FilledPlace, Types, FrameFacts
    <3> QED BY <1>3, <2>1, <2>3, <3>1
  <2> QED BY <1>3, <2>1, <2>2, <2>3, <2>4, <2>5 DEF Session
<1>7. Timed' /\ Idle' /\ NothingPurged'
  BY <1>1, <1>3 DEF Timed, Idle, NothingPurged
<1>8. Window(tid', h)
  BY <1>2, <1>3
<1> QED BY <1>3, <1>5, <1>6, <1>7, <1>8, NoRelease DEF Inductive

\* Without a session a frame passes.
LEMMA PlainStep ==
  ASSUME Inductive, NEW f \in Frames, rx_plain(f)
  PROVE  Inductive' /\ InOrder
<1>1. TypeOK /\ Timed /\ Idle /\ NothingPurged
  BY DEF Inductive
<1>2. PICK h \in Nat : Window(tid, h) /\ Session(h)
  BY DEF Inductive
<1>3. /\ link = "plain" /\ link' = link /\ tid' = tid /\ left' = left /\ timer' = timer
      /\ purged' = purged /\ Release("tasklet", <<f>>) /\ rx_seq_tid' = Seqno(f)
      /\ newest' = IF f > newest THEN f ELSE newest
  BY DEF rx_plain, Fresh, Arrives
<1>4. batch' \in [Context -> Seq(Frames)] /\ last' \in Int
  <2>1. batch' = [batch EXCEPT !["tasklet"] = <<f>>] /\ last' = LastOf(<<f>>)
    BY <1>3 DEF Release
  <2>2. LastOf(<<f>>) = f
    BY DEF LastOf
  <2>3. f \in Int /\ <<f>> \in Seq(Frames) /\ "tasklet" \in Context
    BY FrameFacts DEF Context
  <2>4. batch \in [Context -> Seq(Frames)]
    BY <1>1, Types
  <2> QED BY <2>1, <2>2, <2>3, <2>4
<1>5. TypeOK'
  <2>1. rx_seq_tid' \in 0 .. Modulus - 1
    <3>1. f \in Int
      BY FrameFacts
    <3> QED BY <1>3, <3>1, SeqnoType
  <2> QED BY <1>1, <1>3, <1>4, <2>1 DEF TypeOK
<1>6. Session(h)' /\ Timed' /\ Idle' /\ NothingPurged' /\ InOrder
  BY <1>1, <1>3 DEF Session, Timed, Idle, NothingPurged, InOrder
<1> QED BY <1>2, <1>3, <1>5, <1>6 DEF Inductive

\* A frame from before the window is dropped.
LEMMA OldStep ==
  ASSUME Inductive, NEW f \in Frames, rx_old(f)
  PROVE  Inductive' /\ InOrder
<1>1. TypeOK /\ Timed /\ Idle /\ NothingPurged
  BY DEF Inductive
<1>2. PICK h \in Nat : Window(tid, h) /\ Session(h)
  BY DEF Inductive
<1>3. /\ link = "ba" /\ link' = link /\ tid' = tid /\ left' = left /\ timer' = timer
      /\ batch' = batch /\ last' = last /\ purged' = purged
      /\ Fresh(f) /\ Arrives(f) /\ rx_seq_tid' = Seqno(f)
      /\ sn_less(Seqno(f), tid.head_seq)
  BY DEF rx_old, Fresh
<1>4. /\ f \in Nat /\ newest \in Nat /\ newest' \in Frames /\ newest' \in Nat /\ newest <= newest'
      /\ f - h <= Half /\ h - f < Half
  BY <1>1, <1>2, <1>3, ArrivesNear, Types
<1>5. f < h
  BY <1>2, <1>3, <1>4, Judged DEF Window
<1>6. last < h /\ h <= newest + 1 /\ \A i \in Filled(tid) : tid.buf[i] <= newest
  BY <1>2, <1>3 DEF Session
<1>7. \A i \in Filled(tid') : tid'.buf[i] <= newest'
  <2>1. \A i \in Filled(tid) : tid.buf[i] \in Nat
    BY <1>1, <1>2, FilledPlace, Types, FrameFacts
  <2> QED BY <1>3, <1>4, <1>6, <2>1
<1>8. Session(h)'
  <2>1. f <= h + Size - 1 /\ h <= newest' + 1
    <3>1. Size \in Nat /\ Size > 0
      BY Sizes
    <3>2. /\ f < h /\ h <= newest + 1 /\ newest <= newest'
          /\ f \in Nat /\ newest \in Nat /\ newest' \in Nat /\ h \in Nat
      BY <1>4, <1>5, <1>6
    <3>3. f <= h + Size - 1
      BY <3>1, <3>2
    <3>4. h <= newest' + 1
      <4> DEFINE m == newest
                 k == newest'
      <4>1. h \in Nat /\ m \in Nat /\ k \in Nat /\ h <= m + 1 /\ m <= k
        BY <3>2
      <4> HIDE DEF m, k
      <4>2. h <= k + 1
        BY <4>1
      <4> QED BY <4>2 DEF k
    <3> QED BY <3>3, <3>4
  <2>2. last' < h /\ link' = "ba" /\ h <= h
    BY <1>3, <1>6
  <2> QED BY <1>1, <1>2, <1>3, <1>7, <2>1, <2>2, FreshSession
<1>9. TypeOK'
  <2>1. rx_seq_tid' \in 0 .. Modulus - 1
    BY <1>3, <1>4, SeqnoType
  <2> QED BY <1>1, <1>3, <1>4, <2>1 DEF TypeOK
<1>10. Timed' /\ Idle' /\ NothingPurged'
  BY <1>1, <1>3 DEF Timed, Idle, NothingPurged
<1> QED BY <1>2, <1>3, <1>8, <1>9, <1>10, NoRelease DEF Inductive

\* After sta_release the head is at most one frame beyond the newest, if the
\* frames of the buffer are not newer.
LEMMA CountNewest ==
  ASSUME NEW t \in Tids, NEW g \in Nat, Window(t, g), NEW l, NEW m \in Nat, g <= m + 1,
         \A i \in Filled(t) : t.buf[i] <= m
  PROVE  g + StaReleaseCount(t, l) <= m + 1
<1> DEFINE n == StaReleaseCount(t, l)
<1>1. n \in 0 .. Size /\ (n # 0 => Full(t, n - 1))
  BY CountFacts
<1> HIDE DEF n
<1>2. CASE n = 0
  BY <1>2 DEF n
<1>3. CASE n # 0
  <2> DEFINE d == n - 1
  <2>1. d \in 0 .. Size - 1 /\ Full(t, d) /\ d + 1 = n
    BY <1>1, <1>3, Sizes
  <2> HIDE DEF d
  <2>2. At(t, d) \in Slots /\ t.buf[At(t, d)] = g + d
    BY <2>1, WindowPlace
  <2>3. At(t, d) \in Filled(t)
    BY <2>1, <2>2 DEF Full, Filled
  <2>4. g + d <= m
    BY <2>2, <2>3
  <2>5. g + n <= m + 1
    BY <2>1, <2>4
  <2> QED BY <2>5 DEF n
<1> QED BY <1>2, <1>3

\* Where a fresh frame of the session belongs, once the window has moved.
LEMMA MovedFacts ==
  ASSUME Inductive, link = "ba", NEW h \in Nat, Window(tid, h), Session(h),
         NEW f \in Frames, Fresh(f), ~sn_less(Seqno(f), tid.head_seq),
         NEW n, n = WindowMove(f)
  PROVE  /\ n \in Nat /\ h <= f /\ f \in h + n .. h + n + Size - 1
         /\ n = 0 \/ (n > 0 /\ f >= h + Size)
         /\ newest' \in Frames /\ newest' \in Nat /\ f <= newest' /\ newest <= newest'
         /\ f \in Nat /\ newest \in Nat
         /\ \A i \in Filled(tid) : tid.buf[i] \in Nat /\ tid.buf[i] <= newest'
<1>1. TypeOK /\ tid \in Tids /\ newest \in Nat
  BY Types DEF Inductive
<1>2. /\ f \in Nat /\ f - h <= Half /\ h - f < Half /\ newest' \in Frames /\ newest' \in Nat
      /\ f <= newest' /\ newest <= newest'
  BY <1>1, ArrivesNear DEF Fresh
<1>3. h <= f
  BY <1>2, Judged DEF Window
<1>4. n = IF f < h + Size THEN 0 ELSE f - Size + 1 - h
  BY <1>2, <1>3, Judged DEF Window
<1>5. n \in Nat /\ f \in h + n .. h + n + Size - 1 /\ (n = 0 \/ (n > 0 /\ f >= h + Size))
  BY <1>2, <1>3, <1>4, Sizes
<1>6. \A i \in Filled(tid) : tid.buf[i] \in Nat /\ tid.buf[i] <= newest'
  <2> SUFFICES ASSUME NEW i \in Filled(tid)
               PROVE  tid.buf[i] \in Nat /\ tid.buf[i] <= newest'
    OBVIOUS
  <2>1. tid.buf[i] \in Nat
    BY <1>1, FilledPlace, FrameFacts
  <2>2. tid.buf[i] <= newest
    BY DEF Session
  <2> QED BY <1>1, <1>2, <2>1, <2>2
<1> QED BY <1>1, <1>2, <1>3, <1>5, <1>6

\* The frame's slot is taken: it is a repetition of a buffered frame, so the
\* window has not moved and nothing was released that could be purged.
LEMMA TakenStep ==
  ASSUME Inductive, link = "ba", NEW h \in Nat, Window(tid, h), Session(h),
         NEW f \in Frames, Fresh(f), ~sn_less(Seqno(f), tid.head_seq),
         NEW n, n = WindowMove(f), NEW i, i = Index(Advance(tid, n), Seqno(f)),
         Advance(tid, n).buf[i] # NoFrame,
         purged' = purged \cup {Released(tid, n)[m] : m \in DOMAIN Released(tid, n)},
         tid' = Advance(tid, n), last' = LastOf(Released(tid, n)),
         UNCHANGED <<left, timer, batch, link>>
  PROVE  Inductive' /\ InOrder
<1> DEFINE u == Advance(tid, n)
           q == Released(tid, n)
<1>1. TypeOK /\ Timed /\ Idle /\ NothingPurged /\ tid \in Tids
  BY Types DEF Inductive
<1>2. /\ n \in Nat /\ h <= f /\ f \in h + n .. h + n + Size - 1
      /\ (n = 0 \/ (n > 0 /\ f >= h + Size))
      /\ newest' \in Frames /\ newest' \in Nat /\ f <= newest' /\ newest <= newest'
      /\ f \in Nat /\ newest \in Nat
      /\ \A k \in Filled(tid) : tid.buf[k] \in Nat /\ tid.buf[k] <= newest'
  BY MovedFacts
<1>3. /\ u \in Tids /\ Window(u, h + n) /\ u.ssn = tid.ssn
      /\ Filled(u) = {k \in Filled(tid) : tid.buf[k] >= h + n}
      /\ \A k \in Filled(u) : u.buf[k] = tid.buf[k]
  <2>1. n \in Nat
    BY <1>2
  <2> QED BY <1>1, <2>1, AdvanceWindow, Zenon
<1>4. Run(q, h, h + n)
  BY <1>1, <1>2, ReleasedRun
<1> HIDE DEF u, q
<1>5. n = 0
  <2> SUFFICES ASSUME n > 0, f >= h + Size PROVE FALSE
    BY <1>2
  <2> DEFINE g == h + n
             d == f - g
  <2>1. g \in Nat /\ d \in 0 .. Size - 1 /\ g + d = f
    BY <1>2, Sizes
  <2>2. Window(u, g)
    BY <1>3
  <2> HIDE DEF g, d
  <2>3. i = At(u, d)
    BY <1>3, <2>1, <2>2, WindowPlace DEF u
  <2>4. Full(u, d)
    BY <2>3 DEF Full, u
  <2>5. u.buf[i] = f /\ i \in Slots
    BY <1>3, <2>1, <2>2, <2>3, <2>4, WindowPlace
  <2>6. i \in Filled(u)
    BY <2>3, <2>4, <2>5 DEF Filled, Full
  <2>7. i \in Filled(tid) /\ tid.buf[i] = f
    BY <1>3, <2>5, <2>6
  <2>8. f \in h .. h + Size - 1
    BY <2>7 DEF Window
  <2> QED BY <1>2, <2>8, Sizes
<1>6. h + n = h
  BY <1>5
<1>7. q = <<>>
  BY <1>4, <1>6, RunEmpty
<1>8. purged' = {} /\ last' = last
  BY <1>1, <1>7 DEF NothingPurged, LastOf, q
<1>9. Filled(u) = Filled(tid) /\ Window(u, h)
  BY <1>2, <1>3, <1>6 DEF Window
<1>10. u.len = tid.len
  BY <1>9 DEF Window
<1>11. tid' = u /\ link' = "ba" /\ left' = left /\ timer' = timer /\ batch' = batch
  BY DEF u
<1>12. Session(h)'
  <2>1. \A k \in Filled(tid') : tid'.buf[k] <= newest'
    BY <1>2, <1>3, <1>9, <1>11
  <2>2. last < h
    BY DEF Session
  <2>3. last' < h /\ h <= h
    BY <1>8, <2>2
  <2>4. h <= newest' + 1
    <3> DEFINE k == newest'
    <3>1. h <= f /\ f <= k /\ f \in Nat /\ k \in Nat
      BY <1>2
    <3> HIDE DEF k
    <3>2. h <= k + 1
      BY <3>1
    <3> QED BY <3>2 DEF k
  <2>5. f <= h + Size - 1
    BY <1>2, <1>6, Sizes
  <2> QED BY <1>1, <1>11, <2>1, <2>3, <2>4, <2>5, FreshSession
<1>13. TypeOK'
  <2>1. rx_seq_tid' \in 0 .. Modulus - 1
    BY <1>2, SeqnoType DEF Fresh
  <2> QED BY <1>1, <1>2, <1>3, <1>8, <1>11, <2>1 DEF TypeOK, Tids
<1>14. Timed'
  BY <1>1, <1>9, <1>10, <1>11 DEF Timed
<1>15. Idle' /\ NothingPurged'
  BY <1>8, <1>11 DEF Idle, NothingPurged
<1> QED BY <1>9, <1>11, <1>12, <1>13, <1>14, <1>15, NoRelease DEF Inductive

\* The frame is due and the buffer is empty: it passes.
LEMMA PassStep ==
  ASSUME Inductive, link = "ba", NEW h \in Nat, Window(tid, h), Session(h),
         NEW f \in Frames, Fresh(f), ~sn_less(Seqno(f), tid.head_seq),
         NEW n, n = WindowMove(f),
         Seqno(f) = Advance(tid, n).head_seq, Advance(tid, n).len = 0,
         tid' = [Advance(tid, n) EXCEPT !.head_seq = sn_inc(@)],
         Release("tasklet", Append(Released(tid, n), f)),
         UNCHANGED <<left, timer, purged, link>>
  PROVE  Inductive' /\ InOrder
<1> DEFINE u == Advance(tid, n)
           q == Released(tid, n)
           g == h + n
<1>1. TypeOK /\ NothingPurged /\ tid \in Tids
  BY Types DEF Inductive
<1>2. /\ n \in Nat /\ h <= f /\ f \in h + n .. h + n + Size - 1
      /\ newest' \in Frames /\ newest' \in Nat /\ f <= newest' /\ f \in Nat
  BY MovedFacts
<1>3. u \in Tids /\ Window(u, g)
  <2>1. n \in Nat
    BY <1>2
  <2> QED BY <1>1, <2>1, AdvanceWindow, Zenon
<1>4. Run(q, h, g)
  BY <1>1, <1>2, ReleasedRun
<1>5. g \in Nat /\ h <= g
  BY <1>2
<1> HIDE DEF u, q, g
<1>6. f = g
  <2>1. f % Modulus = g % Modulus
    BY <1>3 DEF Window, Seqno, u
  <2>2. f - g < Modulus /\ g - f < Modulus
    BY <1>2, Sizes DEF g
  <2> QED BY <1>2, <1>5, <2>1, <2>2, Sizes, ModNear
<1>7. Run(Append(q, f), h, g + 1)
  <2>1. Run(<<f>>, g, g + 1)
    BY <1>6, RunOne
  <2>2. Run(q \o <<f>>, h, g + 1)
    BY <1>4, <1>5, <2>1, RunConcat
  <2>3. q \in Seq(Frames)
    BY <1>4, RunFacts
  <2>4. q \o <<f>> = Append(q, f)
    BY <2>3
  <2> QED BY <2>2, <2>4
<1>8. last < h
  BY DEF Session
<1>9. batch' \in [Context -> Seq(Frames)] /\ last' \in Int /\ last' < g + 1 /\ InOrder
  <2>1. "tasklet" \in Context /\ g + 1 \in Nat /\ h <= g + 1
    BY <1>5 DEF Context
  <2>2. Release("tasklet", Append(q, f))
    BY DEF q
  <2> QED BY <1>1, <1>7, <1>8, <2>1, <2>2, ReleaseRun
<1>10. tid' \in Tids /\ Window(tid', g + 1) /\ Filled(tid') = {} /\ tid'.len = 0
  BY <1>3, <1>5, PassWindow DEF u
<1>11. link' = "ba" /\ left' = left /\ timer' = timer /\ purged' = purged
  OBVIOUS
<1>12. Session(g + 1)'
  <2>1. g + 1 \in Nat /\ h <= g + 1 /\ f <= (g + 1) + Size - 1 /\ g + 1 <= newest' + 1
    BY <1>2, <1>5, <1>6, Sizes
  <2> QED BY <1>1, <1>9, <1>10, <1>11, <2>1, FreshSession
<1>13. TypeOK'
  <2>1. rx_seq_tid' \in 0 .. Modulus - 1
    BY <1>2, SeqnoType DEF Fresh
  <2> QED BY <1>1, <1>2, <1>9, <1>10, <1>11, <2>1 DEF TypeOK, Tids
<1>14. Timed' /\ Idle' /\ NothingPurged'
  BY <1>1, <1>10, <1>11 DEF Timed, Idle, NothingPurged
<1>15. g + 1 \in Nat
  BY <1>5
<1> QED BY <1>9, <1>10, <1>12, <1>13, <1>14, <1>15 DEF Inductive

\* After sta_release the timer is right for what is left in the buffer.
LEMMA TimerSet ==
  ASSUME NEW t \in Tids, NEW g \in Nat, Window(t, g), NEW l \in [Slots -> 0 .. Timeout],
         NEW r, r = StaReleaseTimer(t, l)
  PROVE  /\ r \in {NoTimer} \cup 0 .. Timeout + 1
         /\ t.len > 0 => r # NoTimer /\ \E i \in Filled(t) : r <= 1 + l[i]
<1>1. CASE t.len = 0
  BY <1>1, TimerFacts
<1>2. CASE t.len # 0
  <2>1. t.len > 0
    BY <1>2 DEF Tids
  <2>2. PICK i \in Filled(t) : r = l[i] + 1
    BY <2>1, TimerFacts
  <2>3. l[i] \in 0 .. Timeout /\ Timeout \in Nat /\ NoTimer \notin Nat
    BY StepSizes DEF Filled
  <2>4. r \in 0 .. Timeout + 1 /\ r \in Nat /\ r <= 1 + l[i]
    BY <2>2, <2>3
  <2> QED BY <2>2, <2>3, <2>4
<1> QED BY <1>1, <1>2

\* Any other frame is buffered, in slot i of the window moved over n places,
\* and sta_release moves the head of the window s with the frame over c places.
Stores(f, n, i, s, c) ==
  /\ i = Index(Advance(tid, n), Seqno(f)) /\ Advance(tid, n).buf[i] = NoFrame
  /\ left' = [left EXCEPT ![i] = Timeout]
  /\ s = Store(Advance(tid, n), i, f)
  /\ c = StaReleaseCount(s, left')
  /\ tid' = Advance(s, c)
  /\ Release("tasklet", Released(tid, n) \o Released(s, c))
  /\ timer' = StaReleaseTimer(tid', left')

\* The frame is buffered and what sta_release finds is released.
LEMMA StoreStep ==
  ASSUME Inductive, link = "ba", NEW h \in Nat, Window(tid, h), Session(h),
         NEW f \in Frames, Fresh(f), ~sn_less(Seqno(f), tid.head_seq),
         NEW n, n = WindowMove(f), NEW i, NEW s, NEW c, Stores(f, n, i, s, c),
         UNCHANGED <<purged, link>>
  PROVE  Inductive' /\ InOrder
<1> DEFINE u == Advance(tid, n)
           q == Released(tid, n)
           g == h + n
           p == Released(s, c)
           k == g + c
<1>1. TypeOK /\ NothingPurged /\ tid \in Tids /\ left \in [Slots -> 0 .. Timeout]
  BY Types DEF Inductive
<1>2. /\ n \in Nat /\ h <= f /\ f \in h + n .. h + n + Size - 1
      /\ newest' \in Frames /\ newest' \in Nat /\ f <= newest' /\ f \in Nat
      /\ \A x \in Filled(tid) : tid.buf[x] \in Nat /\ tid.buf[x] <= newest'
  BY MovedFacts
<1>3. /\ u \in Tids /\ Window(u, g)
      /\ Filled(u) \subseteq Filled(tid)
      /\ \A x \in Filled(u) : u.buf[x] = tid.buf[x]
  <2>1. n \in Nat
    BY <1>2
  <2>2. u \in Tids /\ Window(u, h + n)
    BY <1>1, <2>1, AdvanceWindow
  <2>3. Filled(u) \subseteq Filled(tid)
    BY <1>1, <2>1, AdvanceWindow
  <2>4. \A x \in Filled(u) : u.buf[x] = tid.buf[x]
    BY <1>1, <2>1, AdvanceWindow
  <2> QED BY <2>2, <2>3, <2>4
<1>4. Run(q, h, g)
  BY <1>1, <1>2, ReleasedRun
<1>5. g \in Nat /\ h <= g /\ f \in g .. g + Size - 1 /\ g <= newest'
  BY <1>2
<1>6. /\ i = Index(u, Seqno(f)) /\ u.buf[i] = NoFrame
      /\ s = Store(u, i, f)
  BY DEF Stores
<1> HIDE DEF u, g
<1>7. /\ s \in Tids /\ Window(s, g) /\ i \in Slots /\ Filled(s) = Filled(u) \cup {i}
      /\ s.buf[i] = f /\ \A x \in Filled(u) : s.buf[x] = u.buf[x]
  <2>1. u \in Tids /\ Window(u, g)
    BY <1>3
  <2>2. g \in Nat /\ f \in g .. g + Size - 1
    BY <1>5
  <2> QED BY <1>6, <2>1, <2>2, StoreWindow
<1>8. \A x \in Filled(s) : s.buf[x] <= newest'
  BY <1>2, <1>3, <1>7
<1>9. left' \in [Slots -> 0 .. Timeout]
  <2>1. left' = [left EXCEPT ![i] = Timeout]
    BY DEF Stores
  <2> QED BY <1>1, <1>7, <2>1, StepSizes
<1>10. c \in 0 .. Size /\ c \in Nat /\ c = StaReleaseCount(s, left')
  BY CountFacts, Sizes DEF Stores
<1>11. k <= newest' + 1
  <2>1. g <= newest' + 1
    BY <1>2, <1>5
  <2> QED BY <1>2, <1>5, <1>7, <1>8, <1>10, <2>1, CountNewest
<1>12. k \in Nat /\ g <= k /\ h <= k
  BY <1>5, <1>10
<1>13. /\ tid' \in Tids /\ Window(tid', k) /\ Filled(tid') = {x \in Filled(s) : s.buf[x] >= k}
       /\ \A x \in Filled(tid') : tid'.buf[x] = s.buf[x]
  <2> DEFINE v == Advance(s, c)
  <2>1. s \in Tids /\ Window(s, g) /\ g \in Nat /\ c \in Nat
    BY <1>5, <1>7, <1>10
  <2>2. /\ v \in Tids /\ Window(v, g + c)
        /\ Filled(v) = {x \in Filled(s) : s.buf[x] >= g + c}
        /\ \A x \in Filled(v) : v.buf[x] = s.buf[x]
    <3>1. v \in Tids /\ Window(v, g + c)
      BY <2>1, AdvanceWindow
    <3>2. Filled(v) = {x \in Filled(s) : s.buf[x] >= g + c}
      BY <2>1, AdvanceWindow
    <3>3. \A x \in Filled(v) : v.buf[x] = s.buf[x]
      BY <2>1, AdvanceWindow
    <3> QED BY <3>1, <3>2, <3>3
  <2>3. tid' = v
    BY DEF Stores
  <2> HIDE DEF v
  <2> QED BY <2>2, <2>3
<1>14. Run(p, g, k)
  BY <1>5, <1>7, <1>10, ReleasedRun
<1> HIDE DEF q, p, k
<1>15. Run(q \o p, h, k)
  BY <1>4, <1>5, <1>12, <1>14, RunConcat
<1>16. batch' \in [Context -> Seq(Frames)] /\ last' \in Int /\ last' < k /\ InOrder
  <2>1. "tasklet" \in Context /\ last < h
    BY DEF Context, Session
  <2>2. Release("tasklet", q \o p)
    BY DEF Stores, q, p
  <2> QED BY <1>1, <1>12, <1>15, <2>1, <2>2, ReleaseRun
<1>17. /\ timer' \in {NoTimer} \cup 0 .. Timeout + 1
       /\ tid'.len > 0 => timer' # NoTimer /\ \E x \in Filled(tid') : timer' <= 1 + left'[x]
  <2> DEFINE v == tid'
             l == left'
             r == timer'
  <2>1. v \in Tids /\ Window(v, k) /\ k \in Nat /\ l \in [Slots -> 0 .. Timeout]
    BY <1>9, <1>12, <1>13
  <2>2. r = StaReleaseTimer(v, l)
    BY DEF Stores
  <2> HIDE DEF v, l, r
  <2>3. /\ r \in {NoTimer} \cup 0 .. Timeout + 1
        /\ v.len > 0 => r # NoTimer /\ \E x \in Filled(v) : r <= 1 + l[x]
    BY <2>1, <2>2, TimerSet
  <2> QED BY <2>3 DEF v, l, r
<1>18. link' = "ba" /\ purged' = purged
  OBVIOUS
<1>19. Session(k)'
  <2>1. f <= k + Size - 1
    BY <1>2, <1>5, <1>12, Sizes
  <2>2. \A x \in Filled(tid') : tid'.buf[x] <= newest'
    <3>1. \A x \in Filled(tid') : x \in Filled(s) /\ tid'.buf[x] = s.buf[x]
      BY <1>13
    <3> QED BY <1>8, <3>1
  <2> QED BY <1>1, <1>11, <1>12, <1>16, <1>18, <2>1, <2>2, FreshSession
<1>20. TypeOK'
  <2>1. rx_seq_tid' \in 0 .. Modulus - 1
    BY <1>2, SeqnoType DEF Fresh
  <2> QED BY <1>1, <1>2, <1>9, <1>13, <1>16, <1>17, <1>18, <2>1 DEF TypeOK, Tids
<1>21. Timed' /\ Idle' /\ NothingPurged'
  BY <1>1, <1>17, <1>18 DEF Timed, Idle, NothingPurged
<1> QED BY <1>12, <1>13, <1>16, <1>19, <1>20, <1>21 DEF Inductive

\* The three ways a frame of the window is taken.
LEMMA ReorderStep ==
  ASSUME Inductive, NEW f \in Frames, rx_reorder(f)
  PROVE  Inductive' /\ InOrder
<1>1. PICK h \in Nat : Window(tid, h) /\ Session(h)
  BY DEF Inductive
<1> DEFINE n == WindowMove(f)
           u == Advance(tid, n)
           q == Released(tid, n)
           i == Index(u, Seqno(f))
           s == Store(u, i, f)
           c == StaReleaseCount(s, left')
<1>2. Fresh(f) /\ link = "ba" /\ ~sn_less(Seqno(f), tid.head_seq) /\ link' = link
  BY DEF rx_reorder
<1>3. \/ /\ u.buf[i] # NoFrame
         /\ purged' = purged \cup {q[m] : m \in DOMAIN q}
         /\ tid' = u
         /\ last' = LastOf(q)
         /\ UNCHANGED <<left, timer, batch>>
      \/ /\ u.buf[i] = NoFrame
         /\ Seqno(f) = u.head_seq /\ u.len = 0
         /\ tid' = [u EXCEPT !.head_seq = sn_inc(@)]
         /\ Release("tasklet", Append(q, f))
         /\ UNCHANGED <<left, timer, purged>>
      \/ /\ u.buf[i] = NoFrame
         /\ left' = [left EXCEPT ![i] = Timeout]
         /\ tid' = Advance(s, c)
         /\ Release("tasklet", q \o Released(s, c))
         /\ timer' = StaReleaseTimer(tid', left')
         /\ UNCHANGED purged
  BY Zenon DEF rx_reorder, Store
<1> HIDE DEF n
<1>4. n = WindowMove(f)
  BY DEF n
<1>5. CASE /\ u.buf[i] # NoFrame
           /\ purged' = purged \cup {q[m] : m \in DOMAIN q}
           /\ tid' = u
           /\ last' = LastOf(q)
           /\ UNCHANGED <<left, timer, batch>>
  BY <1>1, <1>2, <1>4, <1>5, TakenStep
<1>6. CASE /\ u.buf[i] = NoFrame
           /\ Seqno(f) = u.head_seq /\ u.len = 0
           /\ tid' = [u EXCEPT !.head_seq = sn_inc(@)]
           /\ Release("tasklet", Append(q, f))
           /\ UNCHANGED <<left, timer, purged>>
  BY <1>1, <1>2, <1>4, <1>6, PassStep
<1>7. CASE /\ u.buf[i] = NoFrame
           /\ left' = [left EXCEPT ![i] = Timeout]
           /\ tid' = Advance(s, c)
           /\ Release("tasklet", q \o Released(s, c))
           /\ timer' = StaReleaseTimer(tid', left')
           /\ UNCHANGED purged
  <2>1. Stores(f, n, i, s, c)
    BY <1>7, Zenon DEF Stores
  <2>2. UNCHANGED <<purged, link>>
    BY <1>2, <1>7
  <2> HIDE DEF i, s, c
  <2> QED BY <1>1, <1>2, <1>4, <2>1, <2>2, StoreStep
<1> QED BY <1>3, <1>5, <1>6, <1>7

\* The timer releases what it may, or nothing if the connection is down.
LEMMA TimerStep ==
  ASSUME Inductive, reorder_tid_timer
  PROVE  Inductive' /\ InOrder
<1>1. TypeOK /\ Timed /\ Idle /\ NothingPurged /\ tid \in Tids /\ newest \in Nat
      /\ left \in [Slots -> 0 .. Timeout]
  BY Types DEF Inductive
<1>2. PICK h \in Nat : Window(tid, h) /\ Session(h)
  BY DEF Inductive
<1>3. /\ timer = 0 /\ link' = link /\ newest' = newest /\ rx_seq_tid' = rx_seq_tid
      /\ left' = left /\ purged' = purged
  BY DEF reorder_tid_timer
<1>4. CASE link # "down"
  <2>0. PICK c : c = StaReleaseCount(tid, left)
    OBVIOUS
  <2> DEFINE k == h + c
             q == Released(tid, c)
  <2>1. /\ tid' = Advance(tid, c) /\ timer' = StaReleaseTimer(tid', left)
        /\ Release("timer", q)
    BY <1>4, <2>0 DEF reorder_tid_timer
  <2>2. link = "ba"
    <3>1. 0 # NoTimer
      BY StepSizes
    <3>2. link # "plain"
      BY <1>1, <1>3, <3>1 DEF Idle
    <3> QED BY <1>1, <1>4, <3>2 DEF TypeOK, Link
  <2>3. c \in Nat
    BY <2>0, CountFacts, Sizes
  <2>4. /\ last < h /\ h <= newest + 1 /\ newest <= h + Slack
        /\ \A i \in Filled(tid) : tid.buf[i] <= newest
        /\ \E f \in Frames : newest - Back <= f /\ f <= newest /\ rx_seq_tid = Seqno(f)
    <3>1. timer # NoTimer
      BY <1>3, StepSizes
    <3> QED BY <1>2, <2>2, <3>1 DEF Session
  <2>5. k <= newest + 1
    BY <1>1, <1>2, <2>0, <2>4, CountNewest
  <2>6. k \in Nat /\ h <= k
    BY <1>2, <2>3
  <2>7. tid' \in Tids /\ Window(tid', k)
    BY <1>1, <1>2, <2>1, <2>3, AdvanceWindow
  <2>8. Filled(tid') \subseteq Filled(tid) /\ \A i \in Filled(tid') : tid'.buf[i] = tid.buf[i]
    <3> DEFINE v == Advance(tid, c)
    <3>1. Filled(v) \subseteq Filled(tid)
      BY <1>1, <1>2, <2>3, AdvanceWindow
    <3>2. \A i \in Filled(v) : v.buf[i] = tid.buf[i]
      BY <1>1, <1>2, <2>3, AdvanceWindow
    <3> HIDE DEF v
    <3>3. tid' = v
      BY <2>1 DEF v
    <3> QED BY <3>1, <3>2, <3>3
  <2>9. Run(q, h, k)
    BY <1>1, <1>2, <2>3, ReleasedRun
  <2> HIDE DEF q, k
  <2>10. batch' \in [Context -> Seq(Frames)] /\ last' \in Int /\ last' < k /\ InOrder
    <3>1. "timer" \in Context /\ last < h
      BY <2>4 DEF Context
    <3> QED BY <1>1, <1>2, <2>1, <2>6, <2>9, <3>1, ReleaseRun
  <2>11. /\ timer' \in {NoTimer} \cup 0 .. Timeout + 1
         /\ tid'.len > 0 => timer' # NoTimer /\ \E i \in Filled(tid') : timer' <= 1 + left[i]
    <3> DEFINE v == tid'
               r == timer'
    <3>1. v \in Tids /\ Window(v, k) /\ k \in Nat /\ r = StaReleaseTimer(v, left)
      BY <2>1, <2>6, <2>7
    <3> HIDE DEF v, r
    <3>2. /\ r \in {NoTimer} \cup 0 .. Timeout + 1
          /\ v.len > 0 => r # NoTimer /\ \E i \in Filled(v) : r <= 1 + left[i]
      BY <1>1, <3>1, TimerSet
    <3> QED BY <3>2 DEF v, r
  <2>12. Session(k)'
    <3>1. newest <= k + Slack
      BY <1>1, <1>2, <2>4, <2>6, StepSizes
    <3>2. \A i \in Filled(tid') : tid'.buf[i] <= newest
      BY <2>4, <2>8
    <3>3. last' < k /\ k <= newest + 1
      BY <2>5, <2>10
    <3> QED BY <1>3, <2>4, <3>1, <3>2, <3>3 DEF Session
  <2>13. TypeOK'
    BY <1>1, <1>3, <2>7, <2>10, <2>11 DEF TypeOK, Tids
  <2>14. Timed' /\ Idle' /\ NothingPurged'
    BY <1>1, <1>3, <2>2, <2>11 DEF Timed, Idle, NothingPurged
  <2>15. InOrder /\ \E x \in Nat : Window(tid, x)' /\ Session(x)'
    BY <2>6, <2>7, <2>10, <2>12
  <2> QED BY <2>13, <2>14, <2>15 DEF Inductive
<1>5. CASE link = "down"
  <2>1. timer' = NoTimer /\ tid' = tid /\ batch' = batch /\ last' = last
    BY <1>5 DEF reorder_tid_timer
  <2>2. TypeOK'
    BY <1>1, <1>3, <2>1 DEF TypeOK
  <2>3. Session(h)' /\ Timed' /\ Idle' /\ NothingPurged'
    BY <1>1, <1>3, <1>5 DEF Session, Timed, Idle, NothingPurged
  <2> QED BY <1>2, <2>1, <2>2, <2>3, NoRelease DEF Inductive
<1> QED BY <1>4, <1>5

\* The steps that change neither the window nor the session: delivery, the end
\* of the connection, and the passing of time.
LEMMA HandlerStep ==
  ASSUME Inductive, NEW c \in Context, rx_handler(c)
  PROVE  Inductive' /\ InOrder
<1>1. TypeOK /\ Timed /\ Idle /\ NothingPurged
  BY DEF Inductive
<1>2. PICK h \in Nat : Window(tid, h) /\ Session(h)
  BY DEF Inductive
<1>3. /\ batch' = [batch EXCEPT ![c] = <<>>] /\ link' = link /\ newest' = newest
      /\ rx_seq_tid' = rx_seq_tid /\ tid' = tid /\ left' = left /\ timer' = timer
      /\ last' = last /\ purged' = purged
  BY DEF rx_handler
<1>4. batch \in [Context -> Seq(Frames)]
  BY <1>1, Types
<1>5. batch' \in [Context -> Seq(Frames)] /\ InOrder
  <2>1. \A d \in Context : batch'[d] = IF d = c THEN <<>> ELSE batch[d]
    BY <1>3, <1>4
  <2> QED BY <1>3, <1>4, <2>1 DEF InOrder
<1>6. TypeOK'
  BY <1>1, <1>3, <1>5 DEF TypeOK
<1>7. Session(h)' /\ Timed' /\ Idle' /\ NothingPurged'
  BY <1>1, <1>2, <1>3 DEF Session, Timed, Idle, NothingPurged
<1> QED BY <1>2, <1>3, <1>5, <1>6, <1>7 DEF Inductive

\* The connection ends; the buffer is still there.
LEMMA DisconnectStep ==
  ASSUME Inductive, disconnect
  PROVE  Inductive' /\ InOrder
<1>1. TypeOK /\ NothingPurged
  BY DEF Inductive
<1>2. PICK h \in Nat : Window(tid, h)
  BY DEF Inductive
<1>3. /\ link' = "down" /\ newest' = newest /\ rx_seq_tid' = rx_seq_tid /\ tid' = tid
      /\ left' = left /\ timer' = timer /\ batch' = batch /\ last' = last /\ purged' = purged
  BY DEF disconnect
<1>4. TypeOK'
  BY <1>1, <1>3 DEF TypeOK, Link
<1>5. Session(h)' /\ Timed' /\ Idle' /\ NothingPurged'
  BY <1>1, <1>3 DEF Session, Timed, Idle, NothingPurged
<1> QED BY <1>2, <1>3, <1>4, <1>5, NoRelease DEF Inductive

\* A new session starts with the next frame.
LEMMA AddbaStep ==
  ASSUME Inductive, addba_report
  PROVE  Inductive' /\ InOrder
<1>1. TypeOK /\ NothingPurged /\ newest \in Nat
  BY Types DEF Inductive
<1>2. PICK h : h = newest + 1
  OBVIOUS
<1>3. h \in Nat /\ h \in Frames
  BY <1>1, <1>2, ReorderAssumption DEF addba_report, Frames
<1>4. /\ newest' = h /\ link' \in {"plain", "ba"} /\ tid' = NewTid(SeqCtrl(Seqno(h)))
      /\ left' = [i \in Slots |-> 0] /\ timer' = NoTimer /\ last' = -1
      /\ rx_seq_tid' = rx_seq_tid /\ batch' = batch /\ purged' = purged
  BY <1>2 DEF addba_report
<1>5. tid' \in Tids /\ Window(tid', h) /\ Filled(tid') = {} /\ tid'.len = 0
  BY <1>3, <1>4, NewWindow
<1>6. TypeOK'
  <2>1. left' \in [Slots -> 0 .. Timeout]
    BY <1>4, StepSizes
  <2> QED BY <1>1, <1>3, <1>4, <1>5, <2>1 DEF TypeOK, Tids, Link
<1>7. Session(h)'
  BY <1>3, <1>4, <1>5, StepSizes DEF Session
<1>8. Timed' /\ Idle' /\ NothingPurged'
  BY <1>1, <1>4, <1>5 DEF Timed, Idle, NothingPurged
<1> QED BY <1>3, <1>4, <1>5, <1>6, <1>7, <1>8, NoRelease DEF Inductive

\* The session is freed.
LEMMA FreeStep ==
  ASSUME Inductive, free_tid
  PROVE  Inductive' /\ InOrder
<1>1. TypeOK /\ NothingPurged /\ tid \in Tids
  BY Types DEF Inductive
<1>2. PICK s : s = tid.ssn
  OBVIOUS
<1>3. s \in 0 .. Modulus - 1 /\ s \in Nat
  BY <1>1, <1>2, FrameFacts, Sizes
<1>4. Seqno(s) = s
  <2>1. s = Modulus * 0 + s /\ Modulus \in Nat /\ Modulus > 0
    BY <1>3, Sizes
  <2>2. s % Modulus = s
    BY <1>3, <2>1, ModUnique
  <2> QED BY <2>2 DEF Seqno
<1>5. /\ link = "down" /\ link' = link /\ tid' = NewTid(SeqCtrl(s)) /\ timer' = NoTimer
      /\ newest' = newest /\ rx_seq_tid' = rx_seq_tid /\ left' = left /\ batch' = batch
      /\ last' = last /\ purged' = purged
  BY <1>2 DEF free_tid
<1>6. tid' \in Tids /\ Window(tid', s) /\ tid'.len = 0
  BY <1>3, <1>4, <1>5, NewWindow
<1>7. TypeOK'
  BY <1>1, <1>5, <1>6 DEF TypeOK, Tids
<1>8. Session(s)' /\ Timed' /\ Idle' /\ NothingPurged'
  BY <1>1, <1>5 DEF Session, Timed, Idle, NothingPurged
<1> QED BY <1>3, <1>5, <1>6, <1>7, <1>8, NoRelease DEF Inductive

\* The next connection starts without a session.
LEMMA ReconnectStep ==
  ASSUME Inductive, reconnect
  PROVE  Inductive' /\ InOrder
<1>1. TypeOK /\ NothingPurged
  BY DEF Inductive
<1>2. PICK h \in Nat : Window(tid, h)
  BY DEF Inductive
<1>3. /\ link' = "plain" /\ rx_seq_tid' = 0 /\ last' = -1 /\ tid.len = 0 /\ timer = NoTimer
      /\ newest' = newest /\ tid' = tid /\ left' = left /\ timer' = timer /\ batch' = batch
      /\ purged' = purged
  BY DEF reconnect
<1>4. TypeOK'
  <2>1. 0 \in 0 .. Modulus - 1
    BY Sizes
  <2> QED BY <1>1, <1>3, <2>1 DEF TypeOK, Link
<1>5. Session(h)' /\ Timed' /\ Idle' /\ NothingPurged'
  BY <1>1, <1>3 DEF Session, Timed, Idle, NothingPurged
<1> QED BY <1>2, <1>3, <1>4, <1>5, NoRelease DEF Inductive

\* Time passes for the timer and for the frames it waits for alike.
LEMMA TickStep ==
  ASSUME Inductive, tick
  PROVE  Inductive' /\ InOrder
<1>1. TypeOK /\ Timed /\ Idle /\ NothingPurged
  BY DEF Inductive
<1>2. PICK h \in Nat : Window(tid, h) /\ Session(h)
  BY DEF Inductive
<1>3. /\ timer # NoTimer /\ left' = [i \in Slots |-> Less(left[i])] /\ timer' = Less(timer)
      /\ link' = link /\ newest' = newest /\ rx_seq_tid' = rx_seq_tid /\ tid' = tid
      /\ batch' = batch /\ last' = last /\ purged' = purged
  BY DEF tick
<1>4. left \in [Slots -> 0 .. Timeout] /\ timer \in 0 .. Timeout + 1 /\ Timeout \in Nat
  BY <1>1, <1>3, Types, StepSizes
<1>5. left' \in [Slots -> 0 .. Timeout] /\ timer' \in 0 .. Timeout + 1
  BY <1>3, <1>4 DEF Less
<1>6. TypeOK'
  BY <1>1, <1>3, <1>5 DEF TypeOK
<1>7. timer' # NoTimer
  BY <1>5, StepSizes
<1>8. Session(h)'
  BY <1>2, <1>3 DEF Session
<1>9. Timed'
  <2> SUFFICES ASSUME link = "ba", tid.len > 0
               PROVE  \E i \in Filled(tid) : timer' <= 1 + left'[i]
    BY <1>3, <1>7 DEF Timed
  <2>1. PICK i \in Filled(tid) : timer <= 1 + left[i]
    BY <1>1 DEF Timed
  <2>2. i \in Slots
    BY SlotsFinite
  <2>3. left'[i] = Less(left[i]) /\ left[i] \in Nat /\ timer \in Nat
    BY <1>3, <1>4, <2>2
  <2>4. Less(timer) <= 1 + Less(left[i])
    BY <2>1, <2>3 DEF Less
  <2> QED BY <1>3, <2>3, <2>4
<1>10. Idle' /\ NothingPurged'
  BY <1>1, <1>3 DEF Idle, NothingPurged
<1> QED BY <1>2, <1>3, <1>6, <1>8, <1>9, <1>10, NoRelease DEF Inductive

\* Every step keeps the invariant and the order.
LEMMA NextInductive == Inductive /\ [Next]_vars => Inductive' /\ (InOrder \/ UNCHANGED vars)
<1> SUFFICES ASSUME Inductive, [Next]_vars
             PROVE  Inductive' /\ (InOrder \/ UNCHANGED vars)
  OBVIOUS
<1>1. ASSUME NEW f \in Frames, rx_duplicate(f) PROVE Inductive' /\ InOrder
  BY <1>1, DuplicateStep
<1>2. ASSUME NEW f \in Frames, rx_plain(f) PROVE Inductive' /\ InOrder
  BY <1>2, PlainStep
<1>3. ASSUME NEW f \in Frames, rx_old(f) PROVE Inductive' /\ InOrder
  BY <1>3, OldStep
<1>4. ASSUME NEW f \in Frames, rx_reorder(f) PROVE Inductive' /\ InOrder
  BY <1>4, ReorderStep
<1>5. CASE reorder_tid_timer
  BY <1>5, TimerStep
<1>6. ASSUME NEW c \in Context, rx_handler(c) PROVE Inductive' /\ InOrder
  BY <1>6, HandlerStep
<1>7. CASE addba_report
  BY <1>7, AddbaStep
<1>8. CASE disconnect
  BY <1>8, DisconnectStep
<1>9. CASE free_tid
  BY <1>9, FreeStep
<1>10. CASE reconnect
  BY <1>10, ReconnectStep
<1>11. CASE tick
  BY <1>11, TickStep
<1>12. CASE UNCHANGED vars
  <2>1. /\ link' = link /\ newest' = newest /\ rx_seq_tid' = rx_seq_tid /\ tid' = tid
        /\ left' = left /\ timer' = timer /\ batch' = batch /\ last' = last /\ purged' = purged
    BY <1>12 DEF vars
  <2>2. PICK h \in Nat : Window(tid, h) /\ Session(h)
    BY DEF Inductive
  <2>3. TypeOK' /\ Session(h)' /\ Timed' /\ Idle' /\ NothingPurged'
    BY <2>1, <2>2 DEF Inductive, TypeOK, Session, Timed, Idle, NothingPurged
  <2> QED BY <1>12, <2>1, <2>2, <2>3 DEF Inductive
<1> QED BY <1>1, <1>2, <1>3, <1>4, <1>5, <1>6, <1>7, <1>8, <1>9, <1>10, <1>11, <1>12 DEF Next

\* The invariant holds in every reachable state.
THEOREM SpecInductive == Spec => []Inductive
BY InitInductive, NextInductive, PTL DEF Spec

-----------------------------------------------------------------------------
(* The results *)

\* The window of rx.c is well formed: each buffered frame is in the slot of its
\* sequence number and within Size of head_seq, across any wrap, and tid->len
\* counts the frames.
THEOREM WindowExactAlways == Spec => []WindowExact
<1>1. Inductive => WindowExact
  <2> SUFFICES ASSUME Inductive PROVE WindowExact
    OBVIOUS
  <2>1. TypeOK /\ tid \in Tids
    BY Types DEF Inductive
  <2>2. PICK h \in Nat : Window(tid, h)
    BY DEF Inductive
  <2>3. ASSUME NEW i \in Slots, tid.buf[i] # NoFrame
        PROVE  i = Index(tid, Seqno(tid.buf[i])) /\ sn_sub(Seqno(tid.buf[i]), tid.head_seq) < Size
    <3> DEFINE f == tid.buf[i]
               m == f - h
    <3>1. f \in h .. h + Size - 1 /\ i = Index(tid, Seqno(f))
      BY <2>2, <2>3 DEF Window, Filled
    <3>2. sn_sub(Seqno(f), tid.head_seq) = m % Modulus
      <4>1. f \in Int /\ h \in Int /\ tid.head_seq = Seqno(h)
        BY <2>2, <3>1 DEF Window
      <4> HIDE DEF f
      <4> QED BY <4>1, SnSub
    <3>3. /\ m \in 0 .. Modulus - 1 /\ m < Size /\ m = Modulus * 0 + m /\ m \in Int
          /\ Modulus \in Nat /\ Modulus > 0
      BY <2>2, <3>1, Sizes
    <3> HIDE DEF m
    <3>4. m % Modulus = m
      BY <3>3, ModUnique
    <3> QED BY <3>1, <3>2, <3>3, <3>4
  <2>4. tid.len = Cardinality({i \in Slots : tid.buf[i] # NoFrame})
    BY <2>2 DEF Window, Filled
  <2> QED BY <2>1, <2>3, <2>4 DEF WindowExact
<1> QED BY <1>1, SpecInductive, PTL

\* While frames wait in a session the release timer runs, and expires within a
\* tick after the last of them may be skipped to.
THEOREM TimerGuardsBufferAlways == Spec => []TimerGuardsBuffer
<1>1. Inductive => TimerGuardsBuffer
  <2> SUFFICES ASSUME Inductive, link = "ba", tid.len > 0
               PROVE  /\ timer # NoTimer
                      /\ timer <= 1 + Max({left[i] : i \in {k \in Slots : tid.buf[k] # NoFrame}})
    BY DEF TimerGuardsBuffer
  <2> DEFINE S == {left[i] : i \in Filled(tid)}
  <2>1. timer # NoTimer /\ \E i \in Filled(tid) : timer <= 1 + left[i]
    BY DEF Inductive, Timed
  <2>2. PICK i \in Filled(tid) : timer <= 1 + left[i]
    BY <2>1
  <2>3. left \in [Slots -> 0 .. Timeout] /\ timer \in 0 .. Timeout + 1 /\ Timeout \in Nat
    BY <2>1, Types, StepSizes DEF Inductive
  <2>4. S \in SUBSET (0 .. Timeout) /\ left[i] \in S /\ S # {}
    BY <2>2, <2>3, SlotsFinite
  <2> HIDE DEF S
  <2>5. Max(S) \in S /\ left[i] <= Max(S)
    BY <2>3, <2>4, MaxFacts
  <2>6. timer <= 1 + Max(S)
    <3>1. timer \in Nat
      BY <2>3
    <3>2. \A x \in S : x \in Nat
      BY <2>3, <2>4
    <3>3. Max(S) \in Nat /\ left[i] \in Nat
      BY <2>4, <2>5, <3>2
    <3> QED BY <2>2, <2>5, <3>1, <3>3
  <2> QED BY <2>1, <2>6 DEF S, Filled
<1> QED BY <1>1, SpecInductive, PTL

\* No released frame is ever purged by the drop path of r92su_rx_data.
THEOREM NothingPurgedAlways == Spec => []NothingPurged
<1>1. Inductive => NothingPurged
  BY DEF Inductive
<1> QED BY <1>1, SpecInductive, PTL

\* Tasklet and timer together release the frames of a session in the order
\* they were sent, each at most once.
THEOREM ReleasedInOrderAlways == Spec => ReleasedInOrder
<1>1. Inductive /\ [Next]_vars => [InOrder]_vars
  BY NextInductive
<1>2. Spec => [][InOrder]_vars
  BY <1>1, SpecInductive, PTL DEF Spec
<1> QED BY <1>2 DEF ReleasedInOrder, InOrder

-----------------------------------------------------------------------------
(* The release loops: places of a window *)

\* A window as the loops are given it: frames in its slots, and len counts them.
Sound(t) ==
  /\ t \in [ssn : 0 .. Modulus - 1, head_seq : 0 .. Modulus - 1, len : 0 .. Size,
            buf : [Slots -> Slots \cup {NoFrame}]]
  /\ t.len = Cardinality(Filled(t))

\* Its fields.
LEMMA SoundFacts ==
  ASSUME NEW t, Sound(t)
  PROVE  /\ t.ssn \in 0 .. Modulus - 1 /\ t.ssn \in Int
         /\ t.head_seq \in 0 .. Modulus - 1 /\ t.head_seq \in Int
         /\ t.len \in 0 .. Size /\ t.len \in Int /\ t.len = Cardinality(Filled(t))
         /\ t.buf \in [Slots -> Slots \cup {NoFrame}]
         /\ DOMAIN t = {"ssn", "head_seq", "len", "buf"}
<1>1. /\ t.ssn \in 0 .. Modulus - 1 /\ t.head_seq \in 0 .. Modulus - 1 /\ t.len \in 0 .. Size
      /\ t.buf \in [Slots -> Slots \cup {NoFrame}] /\ t.len = Cardinality(Filled(t))
  BY DEF Sound
<1>2. DOMAIN t = {"ssn", "head_seq", "len", "buf"}
  BY DEF Sound
<1> QED BY <1>1, <1>2, Sizes

\* The slot d places after the head.
LEMMA AtFacts ==
  ASSUME NEW t, Sound(t), NEW d \in Int
  PROVE  At(t, d) = (t.head_seq + d - t.ssn) % Size /\ At(t, d) \in Slots
<1> DEFINE x == t.head_seq + d
<1>1. t.ssn \in Int /\ x \in Int
  BY SoundFacts
<1>2. At(t, d) = Index(t, Seqno(x))
  BY DEF At, sn_add, Seqno
<1> HIDE DEF x
<1>3. At(t, d) = (x - t.ssn) % Size /\ At(t, d) \in Slots
  BY <1>1, <1>2, Slot
<1> QED BY <1>3, SoundFacts DEF x

\* Places less than the size of the window apart are different slots.
LEMMA AtNear ==
  ASSUME NEW t, Sound(t), NEW d \in Int, NEW e \in Int, At(t, d) = At(t, e),
         d - e < Size, e - d < Size
  PROVE  d = e
<1> DEFINE a == t.head_seq + d - t.ssn
           b == t.head_seq + e - t.ssn
<1>1. t.ssn \in Int /\ t.head_seq \in Int /\ Size \in Nat /\ Size > 0
  BY SoundFacts, Sizes
<1>2. a \in Int /\ b \in Int /\ a - b < Size /\ b - a < Size
  BY <1>1
<1>3. a % Size = b % Size
  BY AtFacts
<1> HIDE DEF a, b
<1>4. a = b
  BY <1>1, <1>2, <1>3, ModNear
<1> QED BY <1>1, <1>4 DEF a, b

\* Slots go round: one slot on is one place on, Size places on is the same slot.
LEMMA AtRound ==
  ASSUME NEW t, Sound(t), NEW d \in Int
  PROVE  Wrap(At(t, d)) = At(t, d + 1) /\ At(t, d + Size) = At(t, d)
<1> DEFINE a == t.head_seq + d - t.ssn
           q == a \div Size
           r == a % Size
<1>1. t.ssn \in Int /\ t.head_seq \in Int /\ Size \in Nat /\ Size > 0
  BY SoundFacts, Sizes
<1>2. a \in Int /\ a + 1 = t.head_seq + (d + 1) - t.ssn
      /\ a + Size = t.head_seq + (d + Size) - t.ssn /\ d + 1 \in Int /\ d + Size \in Int
  BY <1>1
<1>3. At(t, d) = r /\ At(t, d + 1) = (a + 1) % Size /\ At(t, d + Size) = (a + Size) % Size
  BY <1>2, AtFacts
<1> HIDE DEF a
<1>4. q \in Int /\ r \in 0 .. Size - 1 /\ a = Size * q + r
  BY <1>1, <1>2, DivMod
<1>5. (r + 1) % Size = (a + 1) % Size
  BY <1>1, <1>2, ModSum
<1> HIDE DEF q, r
<1>6. (a + Size) % Size = r
  <2> DEFINE k == q + 1
             b == a + Size
  <2>1. Size * k = Size * q + Size /\ Size * q \in Int
    BY <1>1, <1>4
  <2>2. b = Size * k + r /\ k \in Int /\ b \in Int
    BY <1>1, <1>2, <1>4, <2>1
  <2> HIDE DEF k, b
  <2>3. b % Size = r
    BY <1>1, <1>4, <2>2, ModUnique
  <2> QED BY <2>3 DEF b
<1> QED BY <1>3, <1>5, <1>6 DEF Wrap

\* Every slot is a place of the window.
LEMMA AtAll ==
  ASSUME NEW t, Sound(t), NEW i \in Slots
  PROVE  \E d \in 0 .. Size - 1 : At(t, d) = i
<1> DEFINE c == t.head_seq - t.ssn
           a == i - c
           d == a % Size
<1>1. t.ssn \in Int /\ t.head_seq \in Int /\ Size \in Nat /\ Size > 0 /\ i \in 0 .. Size - 1
  BY SoundFacts, Sizes DEF Slots
<1>2. c \in Int /\ a \in Int /\ a + c = i /\ i \in Int
  BY <1>1
<1> HIDE DEF a
<1>3. d \in 0 .. Size - 1 /\ (d + c) % Size = (a + c) % Size
  <2> HIDE DEF c
  <2> QED BY <1>1, <1>2, DivMod, ModSum
<1> HIDE DEF d
<1>4. i = Size * 0 + i
  BY <1>1
<1>5. i % Size = i
  BY <1>1, <1>2, <1>4, ModUnique
<1>6. d + c = t.head_seq + d - t.ssn /\ d \in Int
  BY <1>1, <1>3
<1>7. At(t, d) = (d + c) % Size
  BY <1>6, AtFacts
<1>8. At(t, d) = i
  BY <1>2, <1>3, <1>5, <1>7
<1> QED BY <1>3, <1>8

\* A window is empty exactly if no place is full.
LEMMA SomeFull ==
  ASSUME NEW t, Sound(t)
  PROVE  t.len > 0 <=> \E d \in 0 .. Size - 1 : Full(t, d)
<1>1. t.len \in Nat /\ (t.len = 0 <=> Filled(t) = {})
  BY SoundFacts, SlotsFinite
<1>2. ASSUME NEW i \in Filled(t) PROVE \E d \in 0 .. Size - 1 : Full(t, d)
  <2>1. i \in Slots /\ t.buf[i] # NoFrame
    BY <1>2 DEF Filled
  <2>2. PICK d \in 0 .. Size - 1 : At(t, d) = i
    BY <2>1, AtAll
  <2> QED BY <2>1, <2>2 DEF Full
<1>3. ASSUME NEW d \in 0 .. Size - 1, Full(t, d) PROVE At(t, d) \in Filled(t)
  <2>1. At(t, d) \in Slots
    BY AtFacts
  <2> QED BY <1>3, <2>1 DEF Full, Filled
<1>4. t.len > 0 <=> Filled(t) # {}
  BY <1>1
<1> QED BY <1>2, <1>3, <1>4

-----------------------------------------------------------------------------
(* The release loops: one step of a move *)

\* A session by its fields.
Tid(s, h, l, b) == [ssn |-> s, head_seq |-> h, len |-> l, buf |-> b]

\* Slots that a move over n places clears.
Cleared(t, n, i) == \E d \in 0 .. Upto(n) - 1 : i = At(t, d)

\* All of them but the first changed.
With(t, h, l, b) == [t EXCEPT !.head_seq = h, !.len = l, !.buf = b]

\* Which gives the session with these fields.
LEMMA SetFields ==
  ASSUME NEW s, NEW h, NEW l, NEW b, NEW g, NEW k, NEW c
  PROVE  With(Tid(s, h, l, b), g, k, c) = Tid(s, g, k, c)
<1> DEFINE r == [Tid(s, h, l, b) EXCEPT !.head_seq = g, !.len = k, !.buf = c]
<1>1. /\ r.ssn = s /\ r.head_seq = g /\ r.len = k /\ r.buf = c
      /\ r = [x \in {"ssn", "head_seq", "len", "buf"} |-> r[x]]
  BY DEF Tid
<1> HIDE DEF r
<1>2. r = Tid(s, g, k, c)
  BY <1>1 DEF Tid
<1> QED BY <1>2 DEF With, r

\* A move changes the head, the count and the slots it clears.
LEMMA AdvanceFields ==
  ASSUME NEW t, Sound(t), NEW n
  PROVE  /\ t = Tid(t.ssn, t.head_seq, t.len, t.buf)
         /\ Advance(t, n) = Tid(t.ssn, sn_add(t.head_seq, n), t.len - Len(Released(t, n)),
                                [i \in Slots |-> IF Cleared(t, n, i) THEN NoFrame ELSE t.buf[i]])
<1> DEFINE b == [i \in Slots |-> IF Cleared(t, n, i) THEN NoFrame ELSE t.buf[i]]
           h == sn_add(t.head_seq, n)
           l == t.len - Len(Released(t, n))
<1>1. t \in [ssn : 0 .. Modulus - 1, head_seq : 0 .. Modulus - 1, len : 0 .. Size,
             buf : [Slots -> Slots \cup {NoFrame}]]
  BY DEF Sound
<1>2. Advance(t, n) = With(t, h, l, b)
  BY <1>1 DEF Advance, Cleared, With
<1> HIDE DEF b, h, l
<1>3. t = [ssn |-> t.ssn, head_seq |-> t.head_seq, len |-> t.len, buf |-> t.buf]
  BY <1>1
<1>4. t = Tid(t.ssn, t.head_seq, t.len, t.buf)
  BY <1>3 DEF Tid
<1>5. With(t, h, l, b) = Tid(t.ssn, h, l, b)
  BY <1>4, SetFields
<1> QED BY <1>2, <1>4, <1>5 DEF b, h, l

\* What release_frame does to the fields.
LEMMA ReleaseFields ==
  ASSUME NEW s, NEW h, NEW l, NEW b, b = [x \in Slots |-> b[x]], NEW i
  PROVE  release_frame(Tid(s, h, l, b), i)
           = Tid(s, sn_inc(h), IF b[i] = NoFrame THEN l ELSE l - 1, [b EXCEPT ![i] = NoFrame])
<1> DEFINE t == Tid(s, h, l, b)
           c == [b EXCEPT ![i] = NoFrame]
           k == IF b[i] = NoFrame THEN l ELSE l - 1
<1>1. t.head_seq = h /\ t.len = l /\ t.buf = b
  BY DEF Tid
<1>2. release_frame(t, i) = With(t, sn_inc(h), k, c)
  BY <1>1 DEF release_frame, With
<1> HIDE DEF k, c
<1>3. With(t, sn_inc(h), k, c) = Tid(s, sn_inc(h), k, c)
  BY SetFields
<1> QED BY <1>2, <1>3 DEF k, c

\* The head may also be moved alone.
LEMMA HeadFields ==
  ASSUME NEW s, NEW h, NEW l, NEW b, NEW k
  PROVE  /\ [Tid(s, h, l, b) EXCEPT !.head_seq = sn_add(@, k)] = Tid(s, sn_add(h, k), l, b)
         /\ Tid(s, h, l, b).head_seq = h /\ Tid(s, h, l, b).ssn = s
         /\ Tid(s, h, l, b).len = l /\ Tid(s, h, l, b).buf = b
BY DEF Tid

\* Adding to a sequence number twice.
LEMMA SnAddTwice ==
  ASSUME NEW x \in Int, NEW k \in Int, NEW l \in Int
  PROVE  sn_add(sn_add(x, k), l) = sn_add(x, k + l) /\ sn_add(x, k) \in 0 .. Modulus - 1
<1> DEFINE a == x + k
<1>1. a \in Int /\ a + l = x + (k + l) /\ Modulus \in Nat /\ Modulus > 0
  BY Sizes
<1> HIDE DEF a
<1>2. ((a % Modulus) + l) % Modulus = (a + l) % Modulus
  BY <1>1, ModSum
<1>3. a % Modulus \in 0 .. Modulus - 1
  BY <1>1, DivMod
<1> QED BY <1>1, <1>2, <1>3 DEF sn_add, a

\* The places after a move, and what is left in them.
LEMMA AdvancePlaces ==
  ASSUME NEW t, Sound(t), NEW n \in Nat
  PROVE  /\ \A d \in Int : At(Advance(t, n), d) = At(t, n + d)
         /\ HeadSlot(Advance(t, n)) = At(t, n)
         /\ \A d \in 0 .. Size - 1 :
               Advance(t, n).buf[At(t, d)] = IF d < n THEN NoFrame ELSE t.buf[At(t, d)]
         /\ n >= Size => \A i \in Slots : Advance(t, n).buf[i] = NoFrame
<1> DEFINE u == Advance(t, n)
<1>1. /\ u.ssn = t.ssn /\ u.head_seq = sn_add(t.head_seq, n)
      /\ u.buf = [i \in Slots |-> IF Cleared(t, n, i) THEN NoFrame ELSE t.buf[i]]
  <2> DEFINE b == [i \in Slots |-> IF Cleared(t, n, i) THEN NoFrame ELSE t.buf[i]]
             l == t.len - Len(Released(t, n))
             h == sn_add(t.head_seq, n)
  <2>1. u = Tid(t.ssn, h, l, b)
    BY AdvanceFields
  <2> HIDE DEF u, b, l, h
  <2>2. u.ssn = t.ssn /\ u.head_seq = h /\ u.buf = b
    BY <2>1 DEF Tid
  <2> QED BY <2>2 DEF h, b
<1> HIDE DEF u
<1>2. t.head_seq \in Int /\ Size \in Nat
  BY SoundFacts, Sizes
<1>3. \A d \in Int : At(u, d) = At(t, n + d)
  <2> SUFFICES ASSUME NEW d \in Int PROVE At(u, d) = At(t, n + d)
    OBVIOUS
  <2>1. sn_add(sn_add(t.head_seq, n), d) = sn_add(t.head_seq, n + d)
    <3>1. n \in Int
      OBVIOUS
    <3> QED BY <1>2, <3>1, SnAddTwice, Zenon
  <2> QED BY <1>1, <2>1 DEF At, Index
<1>4. HeadSlot(u) = At(t, n)
  BY <1>1 DEF HeadSlot, At, Index
<1>5. \A i \in Slots : u.buf[i] = IF Cleared(t, n, i) THEN NoFrame ELSE t.buf[i]
  BY <1>1
<1>6. \A d \in 0 .. Size - 1 : At(t, d) \in Slots /\ (Cleared(t, n, At(t, d)) <=> d < n)
  <2> SUFFICES ASSUME NEW d \in 0 .. Size - 1
               PROVE  At(t, d) \in Slots /\ (Cleared(t, n, At(t, d)) <=> d < n)
    OBVIOUS
  <2>0. Upto(n) \in 0 .. Size /\ Upto(n) <= n /\ (Upto(n) = n \/ Upto(n) = Size)
    BY UptoFacts
  <2>1. At(t, d) \in Slots
    BY AtFacts
  <2>2. ASSUME Cleared(t, n, At(t, d)) PROVE d < n
    <3>1. PICK e \in 0 .. Upto(n) - 1 : At(t, d) = At(t, e)
      BY <2>2 DEF Cleared
    <3>2. e \in Int /\ d \in Int /\ d - e < Size /\ e - d < Size /\ e < n
      BY <1>2, <2>0
    <3>3. d = e
      BY <3>1, <3>2, AtNear
    <3> QED BY <3>2, <3>3
  <2>3. ASSUME d < n PROVE Cleared(t, n, At(t, d))
    <3>1. d \in 0 .. Upto(n) - 1
      BY <1>2, <2>0, <2>3
    <3> QED BY <3>1 DEF Cleared
  <2> QED BY <2>1, <2>2, <2>3
<1>7. \A d \in 0 .. Size - 1 : u.buf[At(t, d)] = IF d < n THEN NoFrame ELSE t.buf[At(t, d)]
  BY <1>5, <1>6
<1>8. ASSUME n >= Size, NEW i \in Slots PROVE u.buf[i] = NoFrame
  <2>1. PICK d \in 0 .. Size - 1 : At(t, d) = i
    BY AtAll
  <2>2. d < n
    BY <1>2, <1>8
  <2> QED BY <1>7, <2>1, <2>2
<1> QED BY <1>3, <1>4, <1>7, <1>8 DEF u

\* A member above all others takes the last position and leaves the others theirs.
LEMMA PlaceLast ==
  ASSUME NEW D \in SUBSET Nat, IsFiniteSet(D), NEW m \in Nat, \A d \in D : d < m
  PROVE  /\ Cardinality(D \cup {m}) = Cardinality(D) + 1 /\ Cardinality(D) \in Nat
         /\ \A k \in 1 .. Cardinality(D) : Place(D \cup {m}, k) = Place(D, k)
         /\ Place(D \cup {m}, Cardinality(D) + 1) = m
<1> DEFINE E == D \cup {m}
           c == Cardinality(D)
<1>1. m \notin D /\ E \in SUBSET Nat
  OBVIOUS
<1>2. IsFiniteSet(E) /\ Cardinality(E) = c + 1 /\ c \in Nat
  BY <1>1, FS_AddElement, FS_CardinalityType
<1>3. \A d \in D : Rank(E, d) = Rank(D, d) /\ d \in E
  <2> SUFFICES ASSUME NEW d \in D PROVE Rank(E, d) = Rank(D, d)
    OBVIOUS
  <2>1. \A e \in E : e <= d => e \in D
    <3> SUFFICES ASSUME NEW e \in E, e <= d, e = m PROVE FALSE
      OBVIOUS
    <3>1. d < m /\ d \in Nat
      OBVIOUS
    <3> QED BY <3>1
  <2>2. {e \in E : e <= d} = {e \in D : e <= d}
    BY <2>1
  <2> QED BY <2>2 DEF Rank
<1>4. Rank(E, m) = c + 1 /\ m \in E
  <2>1. \A e \in E : e <= m
    <3>1. \A e \in D : e \in Nat /\ e < m
      OBVIOUS
    <3> QED BY <3>1
  <2>2. {e \in E : e <= m} = E
    BY <2>1
  <2> QED BY <1>2, <2>2 DEF Rank
<1> HIDE DEF E
<1>5. \A d, e \in E : Rank(E, d) = Rank(E, e) => d = e
  <2> SUFFICES ASSUME NEW d \in E, NEW e \in E, Rank(E, d) = Rank(E, e) PROVE d = e
    OBVIOUS
  <2>1. Rank(E, d) \in Int /\ Rank(E, e) \in Int /\ d \in Nat /\ e \in Nat
    BY <1>1, <1>2, RankFacts
  <2>2. ~(d < e) /\ ~(e < d)
    BY <1>1, <1>2, <2>1, RankFacts
  <2> QED BY <2>1, <2>2
<1>6. \A k \in 1 .. c + 1 : Place(E, k) \in E /\ Rank(E, Place(E, k)) = k
  BY <1>1, <1>2, PlaceFacts
<1>7. \A k \in 1 .. c : Place(D, k) \in D /\ Rank(D, Place(D, k)) = k
  BY PlaceFacts
<1>8. ASSUME NEW k \in 1 .. c PROVE Place(E, k) = Place(D, k)
  <2>1. k \in 1 .. c + 1
    BY <1>2
  <2>2. Place(D, k) \in E /\ Rank(E, Place(D, k)) = k
    BY <1>3, <1>7
  <2> QED BY <1>5, <1>6, <2>1, <2>2
<1>9. Place(E, c + 1) = m
  <2>1. c + 1 \in 1 .. c + 1
    BY <1>2
  <2> QED BY <1>4, <1>5, <1>6, <2>1
<1> QED BY <1>2, <1>8, <1>9 DEF E

\* A move one place further takes the frame of that place along, if there is one.
LEMMA LeavingStep ==
  ASSUME NEW t, NEW m \in Nat
  PROVE  /\ m < Size /\ Full(t, m) => Leaving(t, m + 1) = Leaving(t, m) \cup {m}
         /\ ~(m < Size /\ Full(t, m)) => Leaving(t, m + 1) = Leaving(t, m)
         /\ \A d \in Leaving(t, m) : d < m
<1>1. Size \in Nat /\ m + 1 \in Nat
  BY Sizes
<1>2. /\ Upto(m) = (IF m < Size THEN m ELSE Size)
      /\ Upto(m + 1) = IF m + 1 < Size THEN m + 1 ELSE Size
  BY DEF Upto
<1>3. CASE m < Size
  <2>1. Upto(m) = m /\ Upto(m + 1) = m + 1
    BY <1>1, <1>2, <1>3
  <2>2. \A d : d \in 0 .. Upto(m + 1) - 1 <=> d \in 0 .. Upto(m) - 1 \/ d = m
    BY <1>1, <2>1
  <2>3. \A d : d \in Leaving(t, m + 1) <=> d \in Leaving(t, m) \/ (d = m /\ Full(t, m))
    BY <2>2 DEF Leaving
  <2>4. m < Size
    BY <1>3
  <2>5. \A d \in Leaving(t, m) : d < m
    BY <2>1 DEF Leaving
  <2>6. Full(t, m) => Leaving(t, m + 1) = Leaving(t, m) \cup {m}
    BY <2>3
  <2>7. ~Full(t, m) => Leaving(t, m + 1) = Leaving(t, m)
    BY <2>3
  <2> QED BY <2>4, <2>5, <2>6, <2>7
<1>4. CASE ~(m < Size)
  <2>1. Upto(m) = Upto(m + 1) /\ Upto(m) = Size
    BY <1>1, <1>2, <1>4
  <2>2. Leaving(t, m + 1) = Leaving(t, m)
    BY <2>1 DEF Leaving
  <2>3. \A d \in Leaving(t, m) : d < m
    BY <1>1, <1>4, <2>1 DEF Leaving
  <2> QED BY <1>4, <2>2, <2>3
<1> QED BY <1>3, <1>4

\* As many frames are released as leave.
LEMMA ReleasedLen ==
  ASSUME NEW t, NEW n \in Nat
  PROVE  /\ Len(Released(t, n)) = Cardinality(Leaving(t, n)) /\ Len(Released(t, n)) \in Nat
         /\ DOMAIN Released(t, n) = 1 .. Cardinality(Leaving(t, n))
<1> DEFINE c == Cardinality(Leaving(t, n))
           V == {t.buf[At(t, Place(Leaving(t, n), k))] : k \in 1 .. c}
<1>1. c \in Nat
  BY LeavingFacts
<1>2. Released(t, n) \in [1 .. c -> V]
  BY DEF Released
<1> HIDE DEF c, V
<1>3. Len(Released(t, n)) = c /\ DOMAIN Released(t, n) = 1 .. c
  BY <1>1, <1>2
<1> QED BY <1>1, <1>3 DEF c

\* A move one place further releases the frame of that place last.
LEMMA ReleasedStep ==
  ASSUME NEW t, Sound(t), NEW m \in Nat
  PROVE  LET f == Advance(t, m).buf[At(t, m)]
         IN  /\ f = NoFrame => /\ Released(t, m + 1) = Released(t, m)
                               /\ Len(Released(t, m + 1)) = Len(Released(t, m))
             /\ f # NoFrame => /\ Released(t, m + 1) = Append(Released(t, m), f)
                               /\ Len(Released(t, m + 1)) = Len(Released(t, m)) + 1
<1> DEFINE f == Advance(t, m).buf[At(t, m)]
           D == Leaving(t, m)
           E == Leaving(t, m + 1)
           c == Cardinality(D)
           p == Released(t, m)
           q == Released(t, m + 1)
<1>1. Size \in Nat /\ m + 1 \in Nat /\ At(t, m) \in Slots
  BY Sizes, AtFacts
<1>2. m < Size /\ Full(t, m) <=> f # NoFrame
  <2>1. CASE m < Size
    <3>1. m \in 0 .. Size - 1 /\ ~(m < m)
      BY <1>1, <2>1
    <3>2. f = t.buf[At(t, m)]
      BY <3>1, AdvancePlaces
    <3> QED BY <2>1, <3>2 DEF Full
  <2>2. CASE ~(m < Size)
    <3>1. m >= Size
      BY <1>1, <2>2
    <3>2. f = NoFrame
      BY <1>1, <3>1, AdvancePlaces
    <3> QED BY <2>2, <3>2
  <2> QED BY <2>1, <2>2
<1>3. f # NoFrame => f = t.buf[At(t, m)]
  <2> SUFFICES ASSUME f # NoFrame PROVE f = t.buf[At(t, m)]
    OBVIOUS
  <2>1. m \in 0 .. Size - 1 /\ ~(m < m)
    BY <1>1, <1>2
  <2> QED BY <2>1, AdvancePlaces
<1> HIDE DEF f
<1>4. ASSUME f = NoFrame PROVE q = p /\ Len(q) = Len(p)
  <2>1. E = D
    BY <1>2, <1>4, LeavingStep
  <2> QED BY <2>1 DEF Released
<1>5. ASSUME f # NoFrame PROVE q = Append(p, f) /\ Len(q) = Len(p) + 1
  <2>1. E = D \cup {m} /\ \A d \in D : d < m
    BY <1>2, <1>5, LeavingStep
  <2>2. D \in SUBSET Nat /\ IsFiniteSet(D) /\ c \in Nat
    BY LeavingFacts
  <2>3. p = [k \in 1 .. c |-> t.buf[At(t, Place(D, k))]]
    BY DEF Released
  <2>4. q = [k \in 1 .. Cardinality(E) |-> t.buf[At(t, Place(E, k))]]
    BY DEF Released
  <2>5. Len(p) = c /\ DOMAIN p = 1 .. c
    BY ReleasedLen
  <2> HIDE DEF D, E, p, q
  <2>6. /\ Cardinality(E) = c + 1 /\ Place(E, c + 1) = m
        /\ \A k \in 1 .. c : Place(E, k) = Place(D, k)
    BY <2>1, <2>2, PlaceLast
  <2>7. q = [k \in 1 .. c + 1 |-> IF k = c + 1 THEN f ELSE p[k]]
    <3>1. \A k \in 1 .. c + 1 : t.buf[At(t, Place(E, k))] = IF k = c + 1 THEN f ELSE p[k]
      <4> SUFFICES ASSUME NEW k \in 1 .. c + 1
                   PROVE  t.buf[At(t, Place(E, k))] = IF k = c + 1 THEN f ELSE p[k]
        OBVIOUS
      <4>1. CASE k = c + 1
        BY <1>3, <1>5, <2>6, <4>1
      <4>2. CASE k # c + 1
        <5>1. k \in 1 .. c
          BY <2>2, <4>2
        <5>2. p[k] = t.buf[At(t, Place(D, k))] /\ Place(E, k) = Place(D, k)
          BY <2>3, <2>6, <5>1
        <5> QED BY <4>2, <5>2
      <4> QED BY <4>1, <4>2
    <3> QED BY <2>4, <2>6, <3>1
  <2>8. Append(p, f) = [k \in 1 .. Len(p) + 1 |-> IF k = Len(p) + 1 THEN f ELSE p[k]]
    <3> DEFINE S == {p[k] : k \in 1 .. c} \cup {f}
    <3>1. p \in [1 .. c -> S] /\ f \in S
      BY <2>3
    <3> HIDE DEF S
    <3>2. p \in Seq(S)
      BY <2>2, <3>1
    <3> DEFINE r == Append(p, f)
    <3>3. r \in Seq(S) /\ Len(r) = Len(p) + 1 /\ DOMAIN r = 1 .. Len(p) + 1
      BY <3>1, <3>2
    <3>4. \A k \in 1 .. Len(p) + 1 : r[k] = IF k = Len(p) + 1 THEN f ELSE p[k]
      BY <3>1, <3>2
    <3>5. r = [k \in 1 .. Len(p) + 1 |-> r[k]]
      <4> HIDE DEF r
      <4> QED BY <3>3
    <3> HIDE DEF r
    <3>6. r = [k \in 1 .. Len(p) + 1 |-> IF k = Len(p) + 1 THEN f ELSE p[k]]
      BY <3>4, <3>5
    <3> QED BY <3>6 DEF r
  <2>9. Len(q) = c + 1
    BY <2>2, <2>7
  <2> QED BY <2>5, <2>7, <2>8, <2>9
<1> QED BY <1>4, <1>5 DEF f, p, q

\* A move over n + 1 places is a move over n and r92su_reorder_release_frame.
LEMMA AdvanceStep ==
  ASSUME NEW t, Sound(t), NEW m \in Nat
  PROVE  release_frame(Advance(t, m), At(t, m)) = Advance(t, m + 1)
<1> DEFINE i == At(t, m)
           B(n) == [x \in Slots |-> IF Cleared(t, n, x) THEN NoFrame ELSE t.buf[x]]
           L(n) == t.len - Len(Released(t, n))
           H(n) == sn_add(t.head_seq, n)
<1>1. Size \in Nat /\ m + 1 \in Nat /\ i \in Slots /\ t.len \in Int /\ t.head_seq \in Int
  BY Sizes, AtFacts, SoundFacts
<1>2. \A n : Advance(t, n) = Tid(t.ssn, H(n), L(n), B(n))
  BY AdvanceFields
<1>3. \A n : B(n) = [x \in Slots |-> B(n)[x]]
  OBVIOUS
<1>4. \A n : Advance(t, n).buf = B(n)
  <2> SUFFICES ASSUME NEW n PROVE Advance(t, n).buf = B(n)
    OBVIOUS
  <2> DEFINE h == H(n)
             l == L(n)
             b == B(n)
  <2>1. Advance(t, n) = Tid(t.ssn, h, l, b)
    BY <1>2
  <2> HIDE DEF h, l, b
  <2>2. Advance(t, n).buf = b
    BY <2>1 DEF Tid
  <2> QED BY <2>2 DEF b
<1>5. H(m + 1) = sn_inc(H(m))
  <2>1. sn_add(sn_add(t.head_seq, m), 1) = sn_add(t.head_seq, m + 1)
    <3>1. m \in Int /\ 1 \in Int
      OBVIOUS
    <3> QED BY <1>1, <3>1, SnAddTwice, Zenon
  <2> QED BY <2>1 DEF sn_inc
<1>6. L(m + 1) = IF B(m)[i] = NoFrame THEN L(m) ELSE L(m) - 1
  <2> DEFINE f == B(m)[i]
             a == Len(Released(t, m))
             b == Len(Released(t, m + 1))
  <2>1. f = Advance(t, m).buf[i]
    BY <1>4
  <2> HIDE DEF f
  <2>2. (f = NoFrame => b = a) /\ (f # NoFrame => b = a + 1)
    BY <2>1, ReleasedStep
  <2>3. a \in Nat
    BY ReleasedLen
  <2> HIDE DEF a, b
  <2>4. t.len - b = IF f = NoFrame THEN t.len - a ELSE t.len - a - 1
    BY <1>1, <2>2, <2>3
  <2> QED BY <2>4 DEF f, a, b
<1>7. B(m + 1) = [B(m) EXCEPT ![i] = NoFrame]
  <2>1. B(m + 1)[i] = NoFrame
    <3>1. CASE m < Size
      <4>1. m \in 0 .. Size - 1 /\ m < m + 1
        BY <1>1, <3>1
      <4> HIDE DEF B
      <4> QED BY <1>1, <1>4, <4>1, AdvancePlaces
    <3>2. CASE ~(m < Size)
      <4>1. m + 1 >= Size
        BY <1>1, <3>2
      <4> HIDE DEF B
      <4> QED BY <1>1, <1>4, <4>1, AdvancePlaces
    <3> QED BY <3>1, <3>2
  <2>2. \A x \in Slots : x # i => (Cleared(t, m + 1, x) <=> Cleared(t, m, x))
    <3> SUFFICES ASSUME NEW x \in Slots, x # i
                 PROVE  Cleared(t, m + 1, x) <=> Cleared(t, m, x)
      OBVIOUS
    <3>1. \A d : d # m => (d \in 0 .. Upto(m + 1) - 1 <=> d \in 0 .. Upto(m) - 1)
      <4>1. /\ Upto(m) = (IF m < Size THEN m ELSE Size)
            /\ Upto(m + 1) = IF m + 1 < Size THEN m + 1 ELSE Size
        BY DEF Upto
      <4> QED BY <1>1, <4>1
    <3>2. m \notin 0 .. Upto(m) - 1
      BY UptoFacts
    <3> QED BY <3>1, <3>2 DEF Cleared
  <2>3. \A x \in Slots : x # i => B(m + 1)[x] = B(m)[x]
    BY <2>2
  <2> QED BY <1>1, <2>1, <2>3
<1> HIDE DEF B, L, H
<1>8. release_frame(Tid(t.ssn, H(m), L(m), B(m)), i)
        = Tid(t.ssn, sn_inc(H(m)), IF B(m)[i] = NoFrame THEN L(m) ELSE L(m) - 1,
              [B(m) EXCEPT ![i] = NoFrame])
  BY <1>3, ReleaseFields
<1>9. release_frame(Tid(t.ssn, H(m), L(m), B(m)), i) = Tid(t.ssn, H(m + 1), L(m + 1), B(m + 1))
  BY <1>5, <1>6, <1>7, <1>8
<1> QED BY <1>2, <1>9

\* A move over no place.
LEMMA AdvanceZero ==
  ASSUME NEW t, Sound(t)
  PROVE  Advance(t, 0) = t /\ Released(t, 0) = <<>>
<1> DEFINE b == [i \in Slots |-> IF Cleared(t, 0, i) THEN NoFrame ELSE t.buf[i]]
           h == sn_add(t.head_seq, 0)
           l == t.len - Len(Released(t, 0))
<1>1. Upto(0) = 0
  BY Sizes DEF Upto
<1>2. Leaving(t, 0) = {} /\ \A i : ~Cleared(t, 0, i)
  BY <1>1 DEF Leaving, Cleared
<1>3. Cardinality(Leaving(t, 0)) = 0
  BY <1>2, FS_EmptySet
<1>4. Released(t, 0) = <<>>
  BY <1>3 DEF Released
<1>5. b = t.buf
  BY <1>2, SoundFacts
<1>6. l = t.len
  BY <1>4, SoundFacts
<1>7. h = t.head_seq
  <2> DEFINE x == t.head_seq
  <2>1. x \in 0 .. Modulus - 1 /\ x \in Int /\ Modulus \in Nat /\ Modulus > 0
    BY SoundFacts, Sizes
  <2> HIDE DEF x
  <2>2. x = Modulus * 0 + x
    BY <2>1
  <2>3. x % Modulus = x
    BY <2>1, <2>2, ModUnique
  <2>4. x + 0 = x
    BY <2>1
  <2> QED BY <2>3, <2>4 DEF sn_add, x
<1>8. Advance(t, 0) = Tid(t.ssn, h, l, b) /\ t = Tid(t.ssn, t.head_seq, t.len, t.buf)
  BY AdvanceFields
<1> QED BY <1>4, <1>5, <1>6, <1>7, <1>8

\* A move on over empty places only moves the head.
LEMMA SkipStep ==
  ASSUME NEW t, Sound(t), NEW m \in Nat, NEW e \in m .. Size, \A d \in m .. e - 1 : ~Full(t, d)
  PROVE  /\ Released(t, e) = Released(t, m)
         /\ Advance(t, e) = [Advance(t, m) EXCEPT !.head_seq = sn_add(@, e - m)]
<1> DEFINE B(n) == [x \in Slots |-> IF Cleared(t, n, x) THEN NoFrame ELSE t.buf[x]]
           L(n) == t.len - Len(Released(t, n))
           H(n) == sn_add(t.head_seq, n)
<1>1. Size \in Nat /\ e \in Nat /\ m <= e /\ e <= Size /\ t.head_seq \in Int
  BY Sizes, SoundFacts
<1>2. Upto(m) = m /\ Upto(e) = e
  BY <1>1 DEF Upto
<1>3. Leaving(t, e) = Leaving(t, m)
  <2>1. \A d \in 0 .. e - 1 : Full(t, d) => d \in 0 .. m - 1
    BY <1>1
  <2>2. \A d \in 0 .. m - 1 : d \in 0 .. e - 1
    BY <1>1
  <2> QED BY <1>2, <2>1, <2>2 DEF Leaving
<1>4. Released(t, e) = Released(t, m)
  BY <1>3 DEF Released
<1>5. B(e) = B(m)
  <2> SUFFICES ASSUME NEW x \in Slots PROVE B(e)[x] = B(m)[x]
    OBVIOUS
  <2>1. CASE Cleared(t, m, x)
    <3>1. Cleared(t, e, x)
      BY <1>1, <1>2, <2>1 DEF Cleared
    <3> QED BY <2>1, <3>1
  <2>2. CASE ~Cleared(t, m, x) /\ Cleared(t, e, x)
    <3>1. PICK d \in 0 .. e - 1 : x = At(t, d)
      BY <1>2, <2>2 DEF Cleared
    <3>2. ~(d \in 0 .. m - 1)
      BY <1>2, <2>2, <3>1 DEF Cleared
    <3>3. d \in m .. e - 1
      BY <1>1, <3>2
    <3>4. t.buf[x] = NoFrame
      BY <3>1, <3>3 DEF Full
    <3> QED BY <2>2, <3>4
  <2>3. CASE ~Cleared(t, m, x) /\ ~Cleared(t, e, x)
    BY <2>3
  <2> QED BY <2>1, <2>2, <2>3
<1>6. H(e) = sn_add(H(m), e - m)
  <2>1. e - m \in Int /\ m \in Int /\ m + (e - m) = e
    BY <1>1
  <2>2. sn_add(sn_add(t.head_seq, m), e - m) = sn_add(t.head_seq, m + (e - m))
    BY <1>1, <2>1, SnAddTwice, Zenon
  <2> QED BY <2>1, <2>2
<1>7. Advance(t, m) = Tid(t.ssn, H(m), L(m), B(m)) /\ Advance(t, e) = Tid(t.ssn, H(e), L(e), B(e))
  BY AdvanceFields
<1>8. L(e) = L(m)
  BY <1>4
<1> HIDE DEF B, L, H
<1>9. [Tid(t.ssn, H(m), L(m), B(m)) EXCEPT !.head_seq = sn_add(@, e - m)]
        = Tid(t.ssn, sn_add(H(m), e - m), L(m), B(m))
  BY DEF Tid
<1> QED BY <1>4, <1>5, <1>6, <1>7, <1>8, <1>9

\* r92su_reorder_release_frame and a move of the head leave a sound window.
LEMMA SoundStep ==
  ASSUME NEW t, Sound(t)
  PROVE  /\ \A i \in Slots : Sound(release_frame(t, i))
         /\ \A k \in Int : Sound([t EXCEPT !.head_seq = sn_add(@, k)])
<1> DEFINE b == t.buf
           l == t.len
           h == t.head_seq
           s == t.ssn
<1>1. /\ s \in 0 .. Modulus - 1 /\ h \in 0 .. Modulus - 1 /\ h \in Int
      /\ l \in 0 .. Size /\ l = Cardinality(Filled(t)) /\ b \in [Slots -> Slots \cup {NoFrame}]
  BY SoundFacts
<1>2. t = Tid(s, h, l, b)
  BY AdvanceFields
<1>3. \A g, k, c : Filled(Tid(s, g, k, c)) = {x \in Slots : c[x] # NoFrame}
  BY DEF Filled, Tid
<1>4. ASSUME NEW g \in 0 .. Modulus - 1, NEW k \in 0 .. Size,
             NEW c \in [Slots -> Slots \cup {NoFrame}],
             k = Cardinality({x \in Slots : c[x] # NoFrame})
      PROVE  Sound(Tid(s, g, k, c))
  <2>1. Tid(s, g, k, c).len = k /\ Filled(Tid(s, g, k, c)) = {x \in Slots : c[x] # NoFrame}
    BY <1>3 DEF Tid
  <2>2. Tid(s, g, k, c) \in [ssn : 0 .. Modulus - 1, head_seq : 0 .. Modulus - 1, len : 0 .. Size,
                             buf : [Slots -> Slots \cup {NoFrame}]]
    BY <1>1 DEF Tid
  <2> QED BY <1>4, <2>1, <2>2 DEF Sound
<1>5. Filled(t) = {x \in Slots : b[x] # NoFrame}
  BY DEF Filled
<1>6. \A k \in Int : sn_add(h, k) \in 0 .. Modulus - 1
  BY <1>1, SnAddTwice
<1> HIDE DEF b, l, h, s
<1>7. ASSUME NEW i \in Slots PROVE Sound(release_frame(t, i))
  <2> DEFINE c == [b EXCEPT ![i] = NoFrame]
             k == IF b[i] = NoFrame THEN l ELSE l - 1
             F == {x \in Slots : b[x] # NoFrame}
             G == {x \in Slots : c[x] # NoFrame}
  <2>1. c \in [Slots -> Slots \cup {NoFrame}] /\ b = [x \in Slots |-> b[x]]
    BY <1>1
  <2>2. G = F \ {i}
    BY <1>1
  <2>3. i \in F <=> b[i] # NoFrame
    OBVIOUS
  <2>4. IsFiniteSet(F) /\ Cardinality(F) = l /\ Cardinality(F) \in 0 .. Size
    BY <1>1, <1>5, SlotsFinite
  <2> HIDE DEF F, G, c
  <2>5. Cardinality(G) = k /\ k \in 0 .. Size
    <3>1. CASE b[i] = NoFrame
      <4>1. G = F
        BY <2>2, <2>3, <3>1
      <4> QED BY <2>4, <3>1, <4>1
    <3>2. CASE b[i] # NoFrame
      <4>1. IsFiniteSet(G) /\ Cardinality(G) = Cardinality(F) - 1
        BY <2>2, <2>3, <2>4, <3>2, FS_RemoveElement
      <4>2. Cardinality(G) \in Nat
        BY <4>1, FS_CardinalityType
      <4> QED BY <2>4, <3>2, <4>1, <4>2, Sizes
    <3> QED BY <3>1, <3>2
  <2>6. release_frame(t, i) = Tid(s, sn_inc(h), k, c)
    BY <1>2, <2>1, ReleaseFields DEF c
  <2>7. sn_inc(h) \in 0 .. Modulus - 1
    BY <1>6 DEF sn_inc
  <2> HIDE DEF k
  <2>8. Sound(Tid(s, sn_inc(h), k, c))
    BY <1>4, <2>1, <2>5, <2>7 DEF G
  <2> QED BY <2>6, <2>8
<1>8. ASSUME NEW k \in Int PROVE Sound([t EXCEPT !.head_seq = sn_add(@, k)])
  <2>1. [Tid(s, h, l, b) EXCEPT !.head_seq = sn_add(@, k)] = Tid(s, sn_add(h, k), l, b)
    BY DEF Tid
  <2>2. Sound(Tid(s, sn_add(h, k), l, b))
    BY <1>1, <1>4, <1>5, <1>6
  <2> QED BY <1>2, <2>1, <2>2
<1> QED BY <1>7, <1>8

\* The windows the loops are run on are sound.
LEMMA WindowsSound ==
  ASSUME NEW t \in Windows
  PROVE  Sound(t)
<1>1. PICK h \in 0 .. Modulus - 1, F \in SUBSET Slots :
        t = [ssn |-> Ssn, head_seq |-> h, len |-> Cardinality(F),
             buf |-> [i \in Slots |->
                 IF \E d \in F : i = sn_sub(h + d, Ssn) % Size
                 THEN CHOOSE d \in F : i = sn_sub(h + d, Ssn) % Size ELSE NoFrame]]
  BY DEF Windows
<1> DEFINE S(d) == sn_sub(h + d, Ssn) % Size
           b == [i \in Slots |-> IF \E d \in F : i = S(d) THEN CHOOSE d \in F : i = S(d)
                                 ELSE NoFrame]
           G == {i \in Slots : b[i] # NoFrame}
<1>2. t = [ssn |-> Ssn, head_seq |-> h, len |-> Cardinality(F), buf |-> b]
  BY <1>1
<1>3. /\ Size \in Nat /\ Size > 0 /\ Modulus \in Nat /\ Modulus > 0 /\ Ssn \in Int /\ h \in Int
      /\ \A d \in F : d \in Int /\ d \in 0 .. Size - 1 /\ d \in Slots
      /\ Ssn \in 0 .. Modulus - 1
  BY Sizes, LoopAssumption DEF Slots
<1>4. \A d \in F : S(d) = (h + d - Ssn) % Size /\ S(d) \in Slots
  <2> SUFFICES ASSUME NEW d \in F PROVE S(d) = (h + d - Ssn) % Size /\ S(d) \in Slots
    OBVIOUS
  <2> DEFINE a == h + d - Ssn
  <2>1. a \in Int
    BY <1>3
  <2>2. S(d) = (a % Modulus) % Size
    BY <1>3, <2>1 DEF sn_sub
  <2> HIDE DEF a
  <2>3. (a % Modulus) % Size = a % Size /\ a % Size \in 0 .. Size - 1
    BY <1>3, <2>1, ModMod, DivMod
  <2> QED BY <2>2, <2>3 DEF a, Slots
<1>5. \A d, e \in F : S(d) = S(e) => d = e
  <2> SUFFICES ASSUME NEW d \in F, NEW e \in F, S(d) = S(e) PROVE d = e
    OBVIOUS
  <2> DEFINE x == h + d - Ssn
             y == h + e - Ssn
  <2>1. x \in Int /\ y \in Int /\ x - y < Size /\ y - x < Size
    BY <1>3
  <2>2. x % Size = y % Size
    BY <1>4
  <2> HIDE DEF x, y, S
  <2>3. x = y
    BY <1>3, <2>1, <2>2, ModNear
  <2>4. d \in Int /\ e \in Int /\ h \in Int /\ Ssn \in Int
    BY <1>3
  <2> QED BY <2>3, <2>4 DEF x, y
<1> HIDE DEF S
<1>6. \A i \in Slots : /\ (\E d \in F : i = S(d)) => b[i] \in F /\ b[i] # NoFrame
                       /\ ~(\E d \in F : i = S(d)) => b[i] = NoFrame
  <2> SUFFICES ASSUME NEW i \in Slots
               PROVE  /\ (\E d \in F : i = S(d)) => b[i] \in F /\ b[i] # NoFrame
                      /\ ~(\E d \in F : i = S(d)) => b[i] = NoFrame
    OBVIOUS
  <2>1. ASSUME \E d \in F : i = S(d) PROVE b[i] \in F
    BY <2>1
  <2>2. NoFrame \notin F
    BY <1>3, WindowAssumption
  <2> QED BY <2>1, <2>2
<1>7. b \in [Slots -> Slots \cup {NoFrame}]
  <2>1. \A i \in Slots : b[i] \in Slots \cup {NoFrame}
    BY <1>6
  <2>2. b = [i \in Slots |-> b[i]]
    OBVIOUS
  <2> HIDE DEF b
  <2> QED BY <2>1, <2>2
<1> HIDE DEF b
<1>8. Cardinality(G) = Cardinality(F) /\ Cardinality(F) \in 0 .. Size
  <2> DEFINE g == [d \in F |-> S(d)]
  <2>1. \A d \in F : S(d) \in G
    BY <1>4, <1>6
  <2>2. \A i \in G : \E d \in F : S(d) = i
    BY <1>6
  <2> HIDE DEF G
  <2>3. g \in [F -> G]
    BY <2>1
  <2>4. g \in Bijection(F, G)
    BY <1>5, <2>2, <2>3 DEF Bijection, Injection, Surjection, IsInjective
  <2>5. ExistsBijection(F, G)
    BY <2>4 DEF ExistsBijection
  <2>6. IsFiniteSet(F) /\ Cardinality(F) <= Size
    BY SlotsFinite, FS_Subset
  <2>7. Cardinality(F) \in Nat
    BY <2>6, FS_CardinalityType
  <2>8. Cardinality(F) = Cardinality(G)
    BY <2>5, <2>6, FS_Bijection
  <2> QED BY <1>3, <2>6, <2>7, <2>8
<1>9. Filled(t) = G
  BY <1>2 DEF Filled
<1>10. t \in [ssn : 0 .. Modulus - 1, head_seq : 0 .. Modulus - 1, len : 0 .. Size,
              buf : [Slots -> Slots \cup {NoFrame}]]
  BY <1>2, <1>3, <1>7, <1>8
<1>11. t.len = Cardinality(F)
  BY <1>2
<1> QED BY <1>8, <1>9, <1>10, <1>11 DEF Sound

-----------------------------------------------------------------------------
(* The release loops: how far they have to go *)

\* The comparison of r92su_reorder_release_frames, up to the number it moves to.
LEMMA SnLessAhead ==
  ASSUME NEW x \in Int, NEW y \in Int, x <= y, y - x < Modulus - Half
  PROVE  sn_less(Seqno(x), Seqno(y)) <=> x < y
<1> DEFINE m == x - y
           r == m + Modulus
<1>1. Modulus \in Nat /\ Modulus > 0 /\ Half \in Nat
  BY Sizes
<1>2. sn_less(Seqno(x), Seqno(y)) <=> m % Modulus > Half
  BY SnSub DEF sn_less
<1>3. CASE x = y
  <2>1. m = 0 /\ 0 \in 0 .. Modulus - 1 /\ 0 = Modulus * 0 + 0
    BY <1>1, <1>3
  <2>2. 0 % Modulus = 0
    BY <1>1, <2>1, ModUnique
  <2>3. ~(m % Modulus > Half)
    BY <1>1, <2>1, <2>2
  <2> HIDE DEF m
  <2> QED BY <1>2, <1>3, <2>3
<1>4. CASE x # y
  <2>1. m \in Int /\ m = Modulus * (-1) + r /\ r \in 0 .. Modulus - 1 /\ r > Half /\ x < y
    BY <1>1, <1>4
  <2> HIDE DEF m, r
  <2>2. m % Modulus = r
    BY <1>1, <2>1, ModUnique
  <2> QED BY <1>2, <2>1, <2>2
<1> QED BY <1>3, <1>4

\* The loop of r92su_reorder_release_frames goes on while places are left.
LEMMA ReleaseLoop ==
  ASSUME NEW t, Sound(t), NEW new \in 0 .. Modulus - 1
  PROVE  /\ ReleaseCount(t, new) \in 0 .. Modulus - 1
         /\ \A m \in 0 .. ReleaseCount(t, new) :
               sn_less(Advance(t, m).head_seq, new) <=> m < ReleaseCount(t, new)
<1> DEFINE h == t.head_seq
           N == (new - h) % Modulus
           x == (h - new) % Modulus
<1>1. /\ Modulus \in Nat /\ Modulus > 0 /\ Half \in Nat /\ Half > 0 /\ new \in Int /\ h \in Int
      /\ h \in 0 .. Modulus - 1
  BY Sizes, SoundFacts
<1>2. new = Modulus * 0 + new /\ h = Modulus * 0 + h
  BY <1>1
<1>3. Seqno(new) = new /\ Seqno(h) = h
  <2>1. new % Modulus = new
    BY <1>1, <1>2, ModUnique
  <2>2. h % Modulus = h
    <3> HIDE DEF h
    <3> QED BY <1>1, <1>2, ModUnique
  <2> QED BY <2>1, <2>2 DEF Seqno
<1>4. \A m : Advance(t, m).head_seq = sn_add(h, m)
  <2> SUFFICES ASSUME NEW m PROVE Advance(t, m).head_seq = sn_add(h, m)
    OBVIOUS
  <2> DEFINE b == [i \in Slots |-> IF Cleared(t, m, i) THEN NoFrame ELSE t.buf[i]]
             l == t.len - Len(Released(t, m))
             g == sn_add(h, m)
  <2>1. Advance(t, m) = Tid(t.ssn, g, l, b)
    BY AdvanceFields
  <2> HIDE DEF b, l, g
  <2>2. Advance(t, m).head_seq = g
    BY <2>1 DEF Tid
  <2> QED BY <2>2 DEF g
<1>5. ReleaseCount(t, new) = IF sn_less(h, new) THEN N ELSE 0
  BY DEF ReleaseCount, sn_sub
<1>6. sn_less(h, new) <=> x > Half
  BY DEF sn_less, sn_sub
<1> HIDE DEF h
<1>7. N \in 0 .. Modulus - 1 /\ x \in 0 .. Modulus - 1
  <2>1. new - h \in Int /\ h - new \in Int
    BY <1>1
  <2> QED BY <1>1, <2>1, DivMod
<1>8. x > Half => N < Modulus - Half
  <2> SUFFICES ASSUME x > Half PROVE N < Modulus - Half
    OBVIOUS
  <2> DEFINE a == h - new
             q == a \div Modulus
             b == new - h
             p == -q - 1
             r == Modulus - x
  <2>1. a \in Int /\ b \in Int /\ b = -a
    BY <1>1
  <2>2. x = a % Modulus /\ N = b % Modulus
    OBVIOUS
  <2> HIDE DEF a, b, x, N
  <2>3. q \in Int /\ a = Modulus * q + x
    BY <1>1, <2>1, <2>2, DivMod
  <2> HIDE DEF q
  <2>4. p \in Int /\ r \in 0 .. Modulus - 1 /\ r < Modulus - Half
    BY <1>1, <1>7, <2>3
  <2>5. Modulus * p = -(Modulus * q) - Modulus /\ Modulus * q \in Int
    BY <1>1, <2>3
  <2>6. b = Modulus * p + r
    BY <1>1, <1>7, <2>1, <2>3, <2>5
  <2> HIDE DEF p, r
  <2>7. b % Modulus = r
    BY <1>1, <2>1, <2>4, <2>6, ModUnique
  <2> QED BY <2>2, <2>4, <2>7
<1>9. Seqno(h + N) = new
  <2> DEFINE b == new - h
  <2>1. b \in Int /\ b + h = new /\ N = b % Modulus
    BY <1>1
  <2> HIDE DEF b, N
  <2>2. ((b % Modulus) + h) % Modulus = (b + h) % Modulus
    BY <1>1, <2>1, ModSum
  <2>3. N + h = h + N
    BY <1>1, <1>7
  <2> QED BY <1>3, <2>1, <2>2, <2>3 DEF Seqno
<1> HIDE DEF N, x
<1>10. ASSUME NEW m \in 0 .. ReleaseCount(t, new)
       PROVE  sn_less(Advance(t, m).head_seq, new) <=> m < ReleaseCount(t, new)
  <2>1. CASE sn_less(h, new)
    <3>1. ReleaseCount(t, new) = N /\ N < Modulus - Half
      BY <1>5, <1>6, <1>8, <2>1
    <3>2. /\ h + m \in Int /\ h + N \in Int /\ h + m <= h + N /\ m \in Int /\ N \in Int
          /\ (h + N) - (h + m) < Modulus - Half
      BY <1>1, <1>7, <3>1
    <3>3. sn_less(Seqno(h + m), Seqno(h + N)) <=> h + m < h + N
      BY <3>2, SnLessAhead
    <3>4. Advance(t, m).head_seq = Seqno(h + m)
      BY <1>4 DEF sn_add, Seqno
    <3>5. h + m < h + N <=> m < N
      BY <1>1, <3>2
    <3> QED BY <1>9, <3>1, <3>3, <3>4, <3>5
  <2>2. CASE ~sn_less(h, new)
    <3>1. ReleaseCount(t, new) = 0 /\ m = 0
      BY <1>5, <2>2
    <3>2. Advance(t, m).head_seq = h
      BY <3>1, AdvanceZero DEF h
    <3> QED BY <2>2, <3>1, <3>2
  <2> QED BY <2>1, <2>2
<1> QED BY <1>1, <1>5, <1>7, <1>10

\* The frames in sequence end at the first empty place.
LEMMA SequenceCount ==
  ASSUME NEW t, NEW m \in 0 .. Size, \A d \in 0 .. m - 1 : Full(t, d),
         m = Size \/ ~Full(t, m)
  PROVE  FirstEmpty(t) = m
<1> DEFINE S == {d \in 0 .. Size - 1 : ~Full(t, d)} \cup {Size}
<1>1. Size \in Nat
  BY Sizes
<1>2. S \in SUBSET Nat /\ m \in S
  BY <1>1
<1>3. \A x \in S : m <= x
  <2> SUFFICES ASSUME NEW x \in S, x < m PROVE FALSE
    BY <1>1, <1>2
  <2>1. x \in 0 .. m - 1 /\ ~Full(t, x)
    BY <1>1, <1>2
  <2> QED BY <2>1
<1>4. FirstEmpty(t) = Min(S)
  BY DEF FirstEmpty
<1> HIDE DEF S
<1>5. Min(S) \in S /\ Min(S) <= m
  BY <1>2, MinFacts
<1>6. Min(S) \in Nat /\ m <= Min(S)
  BY <1>2, <1>3, <1>5
<1> QED BY <1>4, <1>5, <1>6

\* A missing head is skipped as far as the last frame before the first place
\* that blocks.
LEMMA GapCount ==
  ASSUME NEW t, NEW l, t.len > 0, ~Full(t, 0), NEW e \in 1 .. Size, NEW m \in 0 .. e,
         \A d \in m .. e - 1 : ~Full(t, d), m = 0 \/ Full(t, m - 1),
         \A d \in Blocked(t, l) : d >= e, e = Size \/ e \in Blocked(t, l)
  PROVE  StaReleaseCount(t, l) = m
<1> DEFINE S == Blocked(t, l) \cup {Size}
           stop == Min(S)
           out == {d \in 0 .. stop - 1 : Full(t, d)}
<1>1. Size \in Nat
  BY Sizes
<1>2. StaReleaseCount(t, l) = IF out = {} THEN 0 ELSE Max(out) + 1
  BY DEF StaReleaseCount
<1>3. S \in SUBSET Nat /\ e \in S /\ \A x \in S : e <= x
  BY <1>1 DEF Blocked
<1>4. stop = e
  <2> HIDE DEF S
  <2>1. Min(S) \in S /\ Min(S) <= e
    BY <1>3, MinFacts
  <2>2. Min(S) \in Nat /\ e <= Min(S)
    BY <1>3, <2>1
  <2> QED BY <2>1, <2>2
<1> HIDE DEF stop
<1>5. \A d \in out : d \in 0 .. m - 1
  <2> SUFFICES ASSUME NEW d \in out PROVE d \in 0 .. m - 1
    OBVIOUS
  <2>1. d \in 0 .. e - 1 /\ Full(t, d)
    BY <1>4
  <2> QED BY <1>1, <2>1
<1>6. CASE m = 0
  <2>1. out = {}
    BY <1>5, <1>6
  <2> QED BY <1>2, <1>6, <2>1
<1>7. CASE m # 0
  <2>1. m - 1 \in out /\ out \in SUBSET (0 .. Size) /\ m \in Nat
    BY <1>1, <1>4, <1>5, <1>7
  <2> HIDE DEF out
  <2>2. Max(out) \in out /\ m - 1 <= Max(out)
    BY <1>1, <2>1, MaxFacts
  <2>3. Max(out) \in 0 .. m - 1
    BY <1>5, <2>2
  <2>4. Max(out) = m - 1 /\ out # {}
    BY <2>1, <2>2, <2>3
  <2> QED BY <1>2, <2>1, <2>4
<1> QED BY <1>6, <1>7

\* The timer is set for the first frame left.
LEMMA FirstFrame ==
  ASSUME NEW t, NEW l, t.len > 0, NEW d \in 0 .. Size - 1, Full(t, d),
         \A c \in 0 .. d - 1 : ~Full(t, c)
  PROVE  StaReleaseTimer(t, l) = l[At(t, d)] + 1
<1> DEFINE S == {c \in 0 .. Size - 1 : Full(t, c)}
<1>1. Size \in Nat
  BY Sizes
<1>2. S \in SUBSET Nat /\ d \in S
  BY <1>1
<1>3. \A x \in S : d <= x
  <2> SUFFICES ASSUME NEW x \in S, x < d PROVE FALSE
    BY <1>1, <1>2
  <2>1. x \in 0 .. d - 1 /\ Full(t, x)
    BY <1>1, <1>2
  <2> QED BY <2>1
<1>4. StaReleaseTimer(t, l) = l[At(t, Min(S))] + 1
  BY DEF StaReleaseTimer
<1> HIDE DEF S
<1>5. Min(S) \in S /\ Min(S) <= d
  BY <1>2, MinFacts
<1>6. Min(S) \in Nat /\ d <= Min(S)
  BY <1>2, <1>3, <1>5
<1>7. Min(S) = d
  BY <1>1, <1>5, <1>6
<1> QED BY <1>4, <1>7

-----------------------------------------------------------------------------
(* The release loops: what they have done so far *)

\* The head has moved over m places, and their frames are queued.
Moved(m) == session = Advance(input.tid, m) /\ queue = Released(input.tid, m)

\* The first loop of r92su_reorder_sta_release looks at place e: the places since
\* the last frame released are empty, and none before blocks.
Skipping(m, e) ==
  /\ m <= e /\ index = At(input.tid, 0) /\ j = At(input.tid, e) /\ skipped = e - m
  /\ input.tid.len > 0 /\ ~Full(input.tid, 0)
  /\ \A d \in m .. e - 1 : ~Full(input.tid, d)
  /\ m = 0 \/ Full(input.tid, m - 1)
  /\ \A d \in Blocked(input.tid, input.left) : d >= e

\* Its second loop has released the frames of the first m places.
InSequence(m) ==
  /\ m <= Size /\ index = At(input.tid, m)
  /\ ~(input.tid.len > 0 /\ ~Full(input.tid, 0))
  /\ \A d \in 0 .. m - 1 : Full(input.tid, d)

\* Its last loop looks at place d of what is left, and those before are empty.
Looking(d) == j = At(session, d) /\ \A c \in 0 .. d - 1 : ~Full(session, c)

\* How far the move has come in each loop.
Progress(m) ==
  /\ Moved(m)
  /\ pc = "release_frames" => m <= Count
  /\ pc = "sta_release" => m = 0
  /\ pc = "skip" => \E e \in 1 .. Size : Skipping(m, e)
  /\ pc = "sequence" => InSequence(m)
  /\ pc \in {"rest", "scan", "arm", "done"} => m = Count

\* How far the search for the first frame left has come.
Search ==
  /\ pc = "scan" => /\ index = At(session, 0) /\ session.len > 0
                    /\ \E d \in 0 .. Size - 1 : Looking(d)
  /\ pc = "arm" => \E d \in 0 .. Size - 1 : Looking(d) /\ Full(session, d)
  /\ pc = "done" /\ input.fn = "sta_release" => armed = StaReleaseTimer(session, input.left)

\* The inductive invariant of the loops.
LoopInductive ==
  /\ LoopTypeOK
  /\ Sound(session)
  /\ pc # "done" => (pc = "release_frames" <=> input.fn = "release_frames")
  /\ \E m \in 0 .. Modulus : Progress(m)
  /\ Search

\* What a call is given.
LEMMA CallFacts ==
  ASSUME LoopTypeOK
  PROVE  /\ Sound(input.tid) /\ input.left \in [Slots -> 0 .. Timeout]
         /\ input.new_head_seq \in 0 .. Modulus - 1
         /\ input.fn \in {"release_frames", "sta_release"}
<1>1. input \in Calls
  BY DEF LoopTypeOK
<1>2. Timeout \in Nat /\ Modulus \in Nat /\ Modulus > 0
  BY WindowAssumption, Sizes
<1>3. /\ input.tid \in Windows /\ input.left \in [Slots -> 0 .. Timeout]
      /\ input.new_head_seq \in 0 .. Modulus - 1
      /\ input.fn \in {"release_frames", "sta_release"}
  <2>1. CASE input \in [fn : {"release_frames"}, tid : Windows, left : {[i \in Slots |-> 0]},
                        new_head_seq : 0 .. Modulus - 1]
    <3>1. [i \in Slots |-> 0] \in [Slots -> 0 .. Timeout]
      BY <1>2
    <3> QED BY <2>1, <3>1
  <2>2. CASE input \in [fn : {"sta_release"}, tid : Windows, left : [Slots -> 0 .. Timeout],
                        new_head_seq : {0}]
    BY <1>2, <2>2
  <2> QED BY <1>1, <2>1, <2>2 DEF Calls
<1> QED BY <1>3, WindowsSound

\* The types of a step.
LEMMA LoopTypes ==
  ASSUME LoopTypeOK, UNCHANGED input, Sound(session)',
         pc' \in {"release_frames", "sta_release", "skip", "sequence", "rest", "scan", "arm",
                 "done"},
         j' \in Slots, index' \in Slots, skipped' \in 0 .. Size,
         armed' \in {NoTimer} \cup 1 .. Timeout + 1
  PROVE  LoopTypeOK'
<1>1. session'.head_seq \in 0 .. Modulus - 1 /\ session'.len \in 0 .. Size
  BY SoundFacts
<1> QED BY <1>1 DEF LoopTypeOK

\* A call starts with nothing moved.
LEMMA LoopInitInductive == LoopInit => LoopInductive
<1> SUFFICES ASSUME LoopInit PROVE LoopInductive
  OBVIOUS
<1>1. /\ input \in Calls /\ session = input.tid /\ pc = input.fn /\ j = 0 /\ index = 0
      /\ skipped = 0 /\ queue = <<>> /\ armed = NoTimer
  BY DEF LoopInit
<1>2. pc \in {"release_frames", "sta_release"} /\ Sound(session)
  <2>1. input.tid \in Windows /\ input.fn \in {"release_frames", "sta_release"}
    BY <1>1 DEF Calls
  <2> QED BY <1>1, <2>1, WindowsSound
<1>3. 0 \in Slots /\ 0 \in 0 .. Size /\ 0 \in 0 .. Modulus
  BY Sizes DEF Slots
<1>4. LoopTypeOK
  BY <1>1, <1>2, <1>3, SoundFacts DEF LoopTypeOK
<1>5. Moved(0)
  BY <1>1, <1>2, AdvanceZero DEF Moved
<1>6. pc = "release_frames" => 0 <= Count
  <2> SUFFICES ASSUME pc = "release_frames" PROVE 0 <= Count
    OBVIOUS
  <2>1. Count = ReleaseCount(input.tid, input.new_head_seq)
    BY <1>1 DEF Count
  <2>2. Count \in 0 .. Modulus - 1
    BY <1>4, <2>1, CallFacts, ReleaseLoop
  <2> QED BY <2>2
<1>7. Progress(0)
  BY <1>2, <1>5, <1>6 DEF Progress
<1>8. Search
  BY <1>2 DEF Search
<1> QED BY <1>1, <1>2, <1>3, <1>4, <1>7, <1>8 DEF LoopInductive

\* One more place of a move.
LEMMA MovedStep ==
  ASSUME NEW m \in Nat, Sound(input.tid), Sound(session), Moved(m), UNCHANGED input,
         session' = release_frame(session, At(input.tid, m)),
         queue' = Queued(session, At(input.tid, m))
  PROVE  Moved(m + 1)' /\ Sound(session')
<1> DEFINE t == input.tid
           i == At(t, m)
<1>1. session = Advance(t, m) /\ queue = Released(t, m)
  BY DEF Moved
<1>2. i \in Slots
  BY AtFacts
<1>3. release_frame(Advance(t, m), i) = Advance(t, m + 1)
  BY AdvanceStep
<1>4. session' = Advance(t, m + 1)
  BY <1>1, <1>3
<1>5. queue' = Released(t, m + 1)
  <2> DEFINE f == Advance(t, m).buf[i]
  <2>1. /\ f = NoFrame => Released(t, m + 1) = Released(t, m)
        /\ f # NoFrame => Released(t, m + 1) = Append(Released(t, m), f)
    BY ReleasedStep
  <2>2. queue' = IF f = NoFrame THEN Released(t, m) ELSE Append(Released(t, m), f)
    BY <1>1 DEF Queued
  <2> HIDE DEF f
  <2> QED BY <2>1, <2>2
<1>6. Sound(session')
  BY <1>2, SoundStep
<1> QED BY <1>4, <1>5, <1>6 DEF Moved

\* r92su_reorder_release_frames.
LEMMA ReleaseFramesStep ==
  ASSUME LoopInductive, release_frames
  PROVE  LoopInductive'
<1>1. LoopTypeOK /\ Sound(session) /\ Sound(input.tid) /\ input.new_head_seq \in 0 .. Modulus - 1
  BY CallFacts DEF LoopInductive
<1>2. /\ pc = "release_frames" /\ input.fn = "release_frames"
      /\ UNCHANGED <<input, j, index, skipped, armed>>
  BY DEF release_frames, LoopInductive
<1>3. PICK m \in 0 .. Modulus : Progress(m)
  BY DEF LoopInductive
<1>4. Moved(m) /\ m <= Count /\ Count' = Count
  BY <1>2, <1>3 DEF Progress, Count
<1>5. Count = ReleaseCount(input.tid, input.new_head_seq)
  BY <1>2 DEF Count
<1>6. Count \in 0 .. Modulus - 1 /\ (sn_less(session.head_seq, input.new_head_seq) <=> m < Count)
  <2>1. Count \in 0 .. Modulus - 1
    BY <1>1, <1>5, ReleaseLoop
  <2>2. m \in 0 .. Count
    BY <1>4, <2>1
  <2>3. session = Advance(input.tid, m)
    BY <1>4 DEF Moved
  <2> QED BY <1>1, <1>5, <2>1, <2>2, <2>3, ReleaseLoop
<1>7. j \in Slots /\ index \in Slots /\ skipped \in 0 .. Size
      /\ armed \in {NoTimer} \cup 1 .. Timeout + 1
  BY <1>1 DEF LoopTypeOK
<1>8. CASE sn_less(session.head_seq, input.new_head_seq)
  <2>1. /\ session' = release_frame(session, HeadSlot(session)) /\ pc' = pc
        /\ queue' = Queued(session, HeadSlot(session))
    BY <1>8 DEF release_frames
  <2>2. HeadSlot(session) = At(input.tid, m)
    BY <1>1, <1>4, AdvancePlaces DEF Moved
  <2>3. Moved(m + 1)' /\ Sound(session')
    BY <1>1, <1>2, <1>4, <2>1, <2>2, MovedStep
  <2>4. m + 1 \in 0 .. Modulus /\ m + 1 <= Count
    BY <1>6, <1>8, Sizes
  <2>5. Progress(m + 1)'
    BY <1>2, <1>4, <2>1, <2>3, <2>4 DEF Progress
  <2>6. Search'
    BY <1>2, <2>1 DEF Search
  <2>7. LoopTypeOK'
    BY <1>1, <1>2, <1>7, <2>1, <2>3, LoopTypes
  <2>8. pc' = "release_frames" /\ input'.fn = "release_frames"
    BY <1>2, <2>1
  <2> QED BY <2>3, <2>4, <2>5, <2>6, <2>7, <2>8 DEF LoopInductive
<1>9. CASE ~sn_less(session.head_seq, input.new_head_seq)
  <2>1. pc' = "done" /\ session' = session /\ queue' = queue
    BY <1>9 DEF release_frames
  <2>2. m = Count
    BY <1>4, <1>6, <1>9
  <2>3. Moved(m)' /\ Sound(session')
    BY <1>1, <1>2, <1>4, <2>1 DEF Moved
  <2>4. Progress(m)'
    BY <1>4, <2>1, <2>2, <2>3 DEF Progress
  <2>5. Search'
    BY <1>2, <2>1 DEF Search
  <2>6. LoopTypeOK'
    BY <1>1, <1>2, <1>7, <2>1, <2>3, LoopTypes
  <2> QED BY <2>1, <2>3, <2>4, <2>5, <2>6 DEF LoopInductive
<1> QED BY <1>8, <1>9

\* r92su_reorder_sta_release chooses its loop.
LEMMA ChooseStep ==
  ASSUME LoopInductive, sta_release
  PROVE  LoopInductive'
<1> DEFINE t == input.tid
<1>1. LoopTypeOK /\ Sound(session) /\ Sound(t)
  BY CallFacts DEF LoopInductive
<1>2. /\ pc = "sta_release" /\ input.fn # "release_frames" /\ index' = HeadSlot(session)
      /\ UNCHANGED <<input, session, queue, armed>>
  BY DEF sta_release, LoopInductive
<1>3. PICK m \in 0 .. Modulus : Progress(m)
  BY DEF LoopInductive
<1>4. Moved(0) /\ 0 \in 0 .. Modulus
  BY <1>2, <1>3 DEF Progress
<1>5. session = t /\ HeadSlot(session) = At(t, 0)
  BY <1>1, <1>4, AdvanceZero, AdvancePlaces DEF Moved
<1>6. Moved(0)' /\ Sound(session')
  BY <1>1, <1>2, <1>4 DEF Moved
<1>7. /\ j \in Slots /\ skipped \in 0 .. Size /\ armed \in {NoTimer} \cup 1 .. Timeout + 1
      /\ index' \in Slots /\ Size \in Nat /\ Size > 0
  BY <1>1, <1>2, <1>5, AtFacts, Sizes DEF LoopTypeOK
<1>8. session.len > 0 /\ session.buf[index'] = NoFrame <=> t.len > 0 /\ ~Full(t, 0)
  BY <1>2, <1>5 DEF Full
<1>9. CASE session.len > 0 /\ session.buf[index'] = NoFrame
  <2>1. skipped' = 1 /\ j' = Wrap(index') /\ pc' = "skip"
    BY <1>9 DEF sta_release
  <2>2. j' = At(t, 1) /\ At(t, 1) \in Slots
    <3>1. Wrap(At(t, 0)) = At(t, 0 + 1) /\ 0 + 1 = 1
      BY <1>1, AtRound
    <3> QED BY <1>1, <1>2, <1>5, <2>1, <3>1, AtFacts
  <2>3. Skipping(0, 1)'
    <3>1. \A d \in 0 .. 1 - 1 : ~Full(t, d)
      BY <1>8, <1>9
    <3>2. \A d \in Blocked(t, input.left) : d >= 1
      BY DEF Blocked
    <3> QED BY <1>2, <1>5, <1>8, <1>9, <2>1, <2>2, <3>1, <3>2 DEF Skipping
  <2>4. 1 \in 1 .. Size
    BY <1>7
  <2>5. Progress(0)'
    BY <1>6, <2>1, <2>3, <2>4 DEF Progress
  <2>6. Search'
    BY <2>1 DEF Search
  <2>7. LoopTypeOK'
    BY <1>1, <1>2, <1>6, <1>7, <2>1, <2>2, LoopTypes
  <2> QED BY <1>2, <1>4, <1>6, <2>1, <2>5, <2>6, <2>7 DEF LoopInductive
<1>10. CASE ~(session.len > 0 /\ session.buf[index'] = NoFrame)
  <2>1. pc' = "sequence" /\ UNCHANGED <<skipped, j>>
    BY <1>10 DEF sta_release
  <2>2. InSequence(0)'
    BY <1>2, <1>5, <1>7, <1>8, <1>10 DEF InSequence
  <2>3. Progress(0)'
    BY <1>6, <2>1, <2>2 DEF Progress
  <2>4. Search'
    BY <2>1 DEF Search
  <2>5. LoopTypeOK'
    BY <1>1, <1>2, <1>6, <1>7, <2>1, LoopTypes
  <2> QED BY <1>2, <1>4, <1>6, <2>1, <2>3, <2>4, <2>5 DEF LoopInductive
<1> QED BY <1>9, <1>10

\* The loop of r92su_reorder_sta_release that skips gaps.
LEMMA SkipLoopStep ==
  ASSUME LoopInductive, skip
  PROVE  LoopInductive'
<1> DEFINE t == input.tid
           l == input.left
<1>1. /\ LoopTypeOK /\ Sound(session) /\ Sound(t) /\ l \in [Slots -> 0 .. Timeout]
      /\ Timeout \in Nat
  BY CallFacts, WindowAssumption DEF LoopInductive
<1>2. pc = "skip" /\ input.fn # "release_frames" /\ UNCHANGED <<input, index, armed>>
  BY DEF skip, LoopInductive
<1>3. PICK m \in 0 .. Modulus : Progress(m)
  BY DEF LoopInductive
<1>4. PICK e \in 1 .. Size : Skipping(m, e)
  BY <1>2, <1>3 DEF Progress
<1>5. Moved(m) /\ session = Advance(t, m) /\ queue = Released(t, m)
  BY <1>3 DEF Progress, Moved
<1>6. /\ m <= e /\ index = At(t, 0) /\ j = At(t, e) /\ skipped = e - m
      /\ t.len > 0 /\ ~Full(t, 0) /\ (\A d \in m .. e - 1 : ~Full(t, d))
      /\ (m = 0 \/ Full(t, m - 1)) /\ (\A d \in Blocked(t, l) : d >= e)
  BY <1>4 DEF Skipping
<1>7. /\ Size \in Nat /\ Modulus \in Nat /\ Size <= Modulus /\ m \in Nat /\ e \in Nat
      /\ m \in 0 .. e /\ e \in m .. Size /\ e <= Size /\ 1 <= e
  BY <1>4, <1>6, Sizes
<1>8. /\ j \in Slots /\ index \in Slots /\ skipped \in 0 .. Size
      /\ armed \in {NoTimer} \cup 1 .. Timeout + 1
  BY <1>1 DEF LoopTypeOK
<1>9. e = Size <=> j = index
  <2>1. ASSUME e = Size PROVE At(t, e) = At(t, 0)
    <3>1. At(t, 0 + Size) = At(t, 0) /\ 0 + Size = Size
      BY <1>1, <1>7, AtRound
    <3> QED BY <2>1, <3>1
  <2>2. ASSUME At(t, e) = At(t, 0) PROVE e = Size
    <3>1. CASE e < Size
      <4>1. e - 0 < Size /\ 0 - e < Size /\ e \in Int /\ 0 \in Int
        BY <1>7, <3>1
      <4>2. e = 0
        BY <1>1, <2>2, <4>1, AtNear
      <4> QED BY <1>7, <4>2
    <3> QED BY <1>7, <3>1
  <2> QED BY <1>6, <2>1, <2>2
<1>10. j # index => (session.buf[j] # NoFrame <=> Full(t, e)) /\ e \in 0 .. Size - 1
  <2> SUFFICES ASSUME j # index
               PROVE  (session.buf[j] # NoFrame <=> Full(t, e)) /\ e \in 0 .. Size - 1
    OBVIOUS
  <2>1. e \in 0 .. Size - 1 /\ ~(e < m)
    BY <1>7, <1>9
  <2>2. session.buf[j] = t.buf[At(t, e)]
    BY <1>1, <1>5, <1>6, <1>7, <2>1, AdvancePlaces
  <2> QED BY <2>1, <2>2 DEF Full
<1>11. Count' = Count /\ Count = StaReleaseCount(t, l)
  BY <1>2 DEF Count
<1>12. CASE j = index
  <2>1. pc' = "rest" /\ UNCHANGED <<session, j, skipped, queue>>
    BY <1>12 DEF skip
  <2>2. e = Size
    BY <1>9, <1>12
  <2>3. m = Count
    BY <1>6, <1>7, <1>11, <2>2, GapCount
  <2>4. Moved(m)' /\ Sound(session')
    BY <1>1, <1>2, <1>5, <2>1 DEF Moved
  <2>5. Progress(m)'
    BY <1>11, <2>1, <2>3, <2>4 DEF Progress
  <2>6. Search'
    BY <2>1 DEF Search
  <2>7. LoopTypeOK'
    BY <1>1, <1>2, <1>8, <2>1, <2>4, LoopTypes
  <2> QED BY <1>2, <1>3, <2>1, <2>4, <2>5, <2>6, <2>7 DEF LoopInductive
<1>13. CASE j # index /\ session.buf[j] = NoFrame
  <2>1. skipped' = skipped + 1 /\ j' = Wrap(j) /\ pc' = pc /\ UNCHANGED <<session, queue>>
    BY <1>13 DEF skip
  <2>2. ~Full(t, e) /\ e + 1 \in 1 .. Size /\ skipped' \in 0 .. Size
    BY <1>6, <1>7, <1>10, <1>13, <2>1
  <2>3. j' = At(t, e + 1) /\ j' \in Slots
    BY <1>1, <1>6, <1>7, <2>1, AtRound, AtFacts
  <2>4. Skipping(m, e + 1)'
    <3>1. m <= e + 1 /\ skipped' = e + 1 - m
      BY <1>6, <1>7, <2>1
    <3>2. \A d \in m .. e + 1 - 1 : ~Full(t, d)
      <4>1. \A d \in m .. e + 1 - 1 : d = e \/ d \in m .. e - 1
        BY <1>7
      <4> QED BY <1>6, <2>2, <4>1
    <3>3. \A d \in Blocked(t, l) : d >= e + 1
      <4>1. \A d \in Blocked(t, l) : Full(t, d) /\ d \in Nat
        BY <1>7 DEF Blocked
      <4>2. \A d \in Blocked(t, l) : d # e
        BY <2>2, <4>1
      <4> QED BY <1>6, <1>7, <4>1, <4>2
    <3> QED BY <1>2, <1>6, <2>3, <3>1, <3>2, <3>3 DEF Skipping
  <2>5. Moved(m)' /\ Sound(session')
    BY <1>1, <1>2, <1>5, <2>1 DEF Moved
  <2>6. Progress(m)'
    BY <1>2, <2>1, <2>2, <2>4, <2>5 DEF Progress
  <2>7. Search'
    BY <1>2, <2>1 DEF Search
  <2>8. LoopTypeOK'
    BY <1>1, <1>2, <1>8, <2>1, <2>2, <2>3, <2>5, LoopTypes
  <2> QED BY <1>2, <1>3, <2>1, <2>5, <2>6, <2>7, <2>8 DEF LoopInductive
<1>14. CASE j # index /\ session.buf[j] # NoFrame /\ skipped > 0 /\ l[j] > 0
  <2>1. pc' = "arm" /\ UNCHANGED <<session, j, skipped, queue>>
    BY <1>14 DEF skip
  <2>2. Full(t, e) /\ m < e /\ e \in 1 .. Size - 1 /\ ~Full(t, e - 1)
    <3>1. Full(t, e) /\ m < e /\ e \in 1 .. Size - 1
      BY <1>6, <1>7, <1>10, <1>14
    <3>2. e - 1 \in m .. e - 1
      BY <1>7, <3>1
    <3> QED BY <1>6, <3>1, <3>2
  <2>3. e \in Blocked(t, l)
    BY <1>6, <1>14, <2>2 DEF Blocked
  <2>4. m = Count
    BY <1>6, <1>7, <1>11, <2>3, GapCount
  <2>5. Moved(m)' /\ Sound(session')
    BY <1>1, <1>2, <1>5, <2>1 DEF Moved
  <2>6. Progress(m)'
    BY <1>11, <2>1, <2>4, <2>5 DEF Progress
  <2> DEFINE d == e - m
  <2>7. d \in 0 .. Size - 1 /\ d \in Int /\ m + d = e
    BY <1>7, <2>2
  <2>8. /\ At(session, d) = j /\ Full(session, d)
        /\ \A c \in 0 .. d - 1 : ~Full(session, c)
    <3>1. \A c \in Int : At(session, c) = At(t, m + c)
      BY <1>1, <1>5, <1>7, AdvancePlaces
    <3>2. At(session, d) = j
      BY <1>6, <2>7, <3>1
    <3>3. Full(session, d)
      BY <1>14, <3>2 DEF Full
    <3>4. ASSUME NEW c \in 0 .. d - 1 PROVE ~Full(session, c)
      <4>1. m + c \in m .. e - 1 /\ m + c \in 0 .. Size - 1 /\ ~(m + c < m) /\ c \in Int
        BY <1>7, <2>7
      <4>2. session.buf[At(t, m + c)] = t.buf[At(t, m + c)]
        BY <1>1, <1>5, <1>7, <4>1, AdvancePlaces
      <4>3. ~Full(t, m + c)
        BY <1>6, <4>1
      <4> QED BY <3>1, <4>1, <4>2, <4>3 DEF Full
    <3> QED BY <3>2, <3>3, <3>4
  <2>9. PICK k \in 0 .. Size - 1 : k = d
    BY <2>7
  <2>10. Looking(k)' /\ Full(session', k)
    <3> HIDE DEF d
    <3> QED BY <2>1, <2>8, <2>9 DEF Looking
  <2>11. Search'
    BY <2>1, <2>9, <2>10 DEF Search
  <2>12. LoopTypeOK'
    BY <1>1, <1>2, <1>8, <2>1, <2>5, LoopTypes
  <2> QED BY <1>2, <1>3, <2>1, <2>5, <2>6, <2>11, <2>12 DEF LoopInductive
<1>15. CASE j # index /\ session.buf[j] # NoFrame /\ ~(skipped > 0 /\ l[j] > 0)
  <2> DEFINE u == [session EXCEPT !.head_seq = sn_add(@, skipped)]
  <2>1. /\ session' = release_frame(u, j) /\ queue' = Queued(session, j)
        /\ skipped' = 0 /\ j' = Wrap(j) /\ pc' = pc
    BY <1>15 DEF skip
  <2>2. Full(t, e) /\ e \in 0 .. Size - 1 /\ e + 1 \in 1 .. Size /\ e + 1 \in 0 .. Modulus
    BY <1>7, <1>10, <1>15
  <2>3. e \notin Blocked(t, l)
    <3>1. CASE skipped = 0
      <4>1. m = e /\ m # 0
        BY <1>6, <1>7, <3>1
      <4>2. Full(t, e - 1)
        BY <1>6, <4>1
      <4> QED BY <4>2 DEF Blocked
    <3>2. CASE skipped # 0
      <4>1. ~(l[At(t, e)] > 0)
        BY <1>6, <1>8, <1>15, <3>2
      <4> QED BY <4>1 DEF Blocked
    <3> QED BY <3>1, <3>2
  <2>4. u = Advance(t, e) /\ Released(t, e) = Released(t, m)
    BY <1>1, <1>5, <1>6, <1>7, SkipStep
  <2>5. Sound(u)
    <3>1. skipped \in Int
      BY <1>8
    <3> QED BY <1>1, <3>1, SoundStep
  <2>6. u.buf = session.buf
    <3>1. "head_seq" # "buf"
      OBVIOUS
    <3> QED BY <3>1
  <2> HIDE DEF u
  <2>7. session' = Advance(t, e + 1) /\ Sound(session')
    BY <1>1, <1>6, <1>7, <1>8, <2>1, <2>4, <2>5, AdvanceStep, SoundStep
  <2>8. queue' = Released(t, e + 1)
    <3> DEFINE f == Advance(t, e).buf[At(t, e)]
    <3>1. f # NoFrame => Released(t, e + 1) = Append(Released(t, e), f)
      BY <1>1, <1>7, ReleasedStep
    <3>2. f = session.buf[j]
      BY <1>6, <2>4, <2>6
    <3> HIDE DEF f
    <3> QED BY <1>5, <1>15, <2>1, <2>4, <3>1, <3>2 DEF Queued
  <2>9. Moved(e + 1)'
    BY <1>2, <2>7, <2>8 DEF Moved
  <2>10. j' = At(t, e + 1) /\ j' \in Slots
    BY <1>1, <1>6, <1>7, <2>1, AtRound, AtFacts
  <2>11. Skipping(e + 1, e + 1)'
    <3>1. e + 1 <= e + 1 /\ skipped' = e + 1 - (e + 1) /\ e + 1 - 1 = e
      BY <1>7, <2>1
    <3>2. \A d \in e + 1 .. e + 1 - 1 : ~Full(t, d)
      BY <1>7
    <3>3. \A d \in Blocked(t, l) : d >= e + 1
      <4>1. \A d \in Blocked(t, l) : d \in Nat /\ d # e
        BY <1>7, <2>3 DEF Blocked
      <4> QED BY <1>6, <1>7, <4>1
    <3>4. Full(t, e + 1 - 1)
      BY <2>2, <3>1
    <3> QED BY <1>2, <1>6, <2>10, <3>1, <3>2, <3>3, <3>4 DEF Skipping
  <2>12. Progress(e + 1)'
    BY <1>2, <2>1, <2>2, <2>9, <2>11 DEF Progress
  <2>13. Search'
    BY <1>2, <2>1 DEF Search
  <2>14. LoopTypeOK'
    <3>1. skipped' \in 0 .. Size
      BY <1>7, <2>1
    <3> QED BY <1>1, <1>2, <1>8, <2>1, <2>7, <2>10, <3>1, LoopTypes
  <2> QED BY <1>2, <2>1, <2>2, <2>7, <2>12, <2>13, <2>14 DEF LoopInductive
<1> QED BY <1>12, <1>13, <1>14, <1>15

\* Its loop over the frames in sequence.
LEMMA SequenceStep ==
  ASSUME LoopInductive, sequence
  PROVE  LoopInductive'
<1> DEFINE t == input.tid
           l == input.left
<1>1. LoopTypeOK /\ Sound(session) /\ Sound(t)
  BY CallFacts DEF LoopInductive
<1>2. pc = "sequence" /\ input.fn # "release_frames" /\ UNCHANGED <<input, j, skipped, armed>>
  BY DEF sequence, LoopInductive
<1>3. PICK m \in 0 .. Modulus : Progress(m)
  BY DEF LoopInductive
<1>4. Moved(m) /\ session = Advance(t, m) /\ InSequence(m)
  BY <1>2, <1>3 DEF Progress, Moved
<1>5. /\ m <= Size /\ index = At(t, m) /\ ~(t.len > 0 /\ ~Full(t, 0))
      /\ \A d \in 0 .. m - 1 : Full(t, d)
  BY <1>4 DEF InSequence
<1>6. Size \in Nat /\ Modulus \in Nat /\ Size <= Modulus /\ m \in Nat /\ m \in 0 .. Size
  BY <1>5, Sizes
<1>7. /\ j \in Slots /\ index \in Slots /\ skipped \in 0 .. Size
      /\ armed \in {NoTimer} \cup 1 .. Timeout + 1
  BY <1>1 DEF LoopTypeOK
<1>8. session.buf[index] # NoFrame <=> m < Size /\ Full(t, m)
  <2>1. CASE m < Size
    <3>1. m \in 0 .. Size - 1 /\ ~(m < m)
      BY <1>6, <2>1
    <3>2. session.buf[index] = t.buf[At(t, m)]
      BY <1>1, <1>4, <1>5, <1>6, <3>1, AdvancePlaces
    <3> QED BY <2>1, <3>2 DEF Full
  <2>2. CASE ~(m < Size)
    <3>1. m >= Size
      BY <1>6, <2>2
    <3>2. session.buf[index] = NoFrame
      BY <1>1, <1>4, <1>6, <1>7, <3>1, AdvancePlaces
    <3> QED BY <2>2, <3>2
  <2> QED BY <2>1, <2>2
<1>9. CASE session.buf[index] # NoFrame
  <2>1. /\ session' = release_frame(session, index) /\ queue' = Queued(session, index)
        /\ index' = HeadSlot(session') /\ pc' = pc
    BY <1>9 DEF sequence
  <2>2. Moved(m + 1)' /\ Sound(session')
    BY <1>1, <1>2, <1>4, <1>5, <1>6, <2>1, MovedStep
  <2>3. session' = Advance(t, m + 1)
    BY <1>2, <2>2 DEF Moved
  <2>4. index' = At(t, m + 1) /\ index' \in Slots
    <3>1. m + 1 \in Nat
      BY <1>6
    <3> QED BY <1>1, <2>1, <2>3, <3>1, AdvancePlaces, AtFacts
  <2>5. m + 1 <= Size /\ m + 1 \in 0 .. Modulus
    BY <1>6, <1>8, <1>9
  <2>6. \A d \in 0 .. m + 1 - 1 : Full(t, d)
    <3>1. \A d \in 0 .. m + 1 - 1 : d = m \/ d \in 0 .. m - 1
      BY <1>6
    <3> QED BY <1>5, <1>8, <1>9, <3>1
  <2>7. InSequence(m + 1)'
    BY <1>2, <1>5, <2>4, <2>5, <2>6 DEF InSequence
  <2>8. Progress(m + 1)'
    BY <1>2, <2>1, <2>2, <2>7 DEF Progress
  <2>9. Search'
    BY <1>2, <2>1 DEF Search
  <2>10. LoopTypeOK'
    BY <1>1, <1>2, <1>7, <2>1, <2>2, <2>4, LoopTypes
  <2> QED BY <1>2, <2>1, <2>2, <2>5, <2>8, <2>9, <2>10 DEF LoopInductive
<1>10. CASE session.buf[index] = NoFrame
  <2>1. pc' = "rest" /\ UNCHANGED <<session, queue, index>>
    BY <1>10 DEF sequence
  <2>2. m = Size \/ ~Full(t, m)
    BY <1>6, <1>8, <1>10
  <2>3. m = Count /\ Count' = Count
    <3>1. FirstEmpty(t) = m
      BY <1>5, <1>6, <2>2, SequenceCount
    <3> QED BY <1>2, <1>5, <3>1 DEF Count, StaReleaseCount
  <2>4. Moved(m)' /\ Sound(session')
    BY <1>1, <1>2, <1>4, <2>1 DEF Moved
  <2>5. Progress(m)'
    BY <2>1, <2>3, <2>4 DEF Progress
  <2>6. Search'
    BY <2>1 DEF Search
  <2>7. LoopTypeOK'
    BY <1>1, <1>2, <1>7, <2>1, <2>4, LoopTypes
  <2> QED BY <1>2, <1>3, <2>1, <2>4, <2>5, <2>6, <2>7 DEF LoopInductive
<1> QED BY <1>9, <1>10

\* Before the search for the first frame left.
LEMMA RestStep ==
  ASSUME LoopInductive, rest
  PROVE  LoopInductive'
<1>1. LoopTypeOK /\ Sound(session) /\ Sound(input.tid)
  BY CallFacts DEF LoopInductive
<1>2. /\ pc = "rest" /\ input.fn # "release_frames"
      /\ UNCHANGED <<input, session, skipped, queue>>
  BY DEF rest, LoopInductive
<1>3. PICK m \in 0 .. Modulus : Progress(m)
  BY DEF LoopInductive
<1>4. Moved(m) /\ m = Count /\ Count' = Count
  BY <1>2, <1>3 DEF Progress, Count
<1>5. Moved(m)' /\ Sound(session')
  BY <1>1, <1>2, <1>4 DEF Moved
<1>6. /\ j \in Slots /\ index \in Slots /\ skipped \in 0 .. Size
      /\ armed \in {NoTimer} \cup 1 .. Timeout + 1 /\ session.len \in Nat
  BY <1>1 DEF LoopTypeOK
<1>7. HeadSlot(session) = At(session, 0) /\ At(session, 0) \in Slots
  <2>1. Advance(session, 0) = session /\ HeadSlot(Advance(session, 0)) = At(session, 0)
    BY <1>1, AdvanceZero, AdvancePlaces
  <2> QED BY <1>1, <2>1, AtFacts
<1>8. CASE session.len > 0
  <2>1. index' = HeadSlot(session) /\ j' = HeadSlot(session) /\ pc' = "scan" /\ armed' = armed
    BY <1>8 DEF rest
  <2>2. Progress(m)'
    BY <1>4, <1>5, <2>1 DEF Progress
  <2>3. 0 \in 0 .. Size - 1
    BY Sizes
  <2>4. Looking(0)'
    BY <1>2, <1>7, <2>1 DEF Looking
  <2>5. Search'
    BY <1>2, <1>7, <1>8, <2>1, <2>3, <2>4 DEF Search
  <2>6. LoopTypeOK'
    BY <1>1, <1>2, <1>5, <1>6, <1>7, <2>1, LoopTypes
  <2> QED BY <1>2, <1>3, <1>5, <2>1, <2>2, <2>5, <2>6 DEF LoopInductive
<1>9. CASE ~(session.len > 0)
  <2>1. armed' = NoTimer /\ pc' = "done" /\ UNCHANGED <<index, j>>
    BY <1>9 DEF rest
  <2>2. Progress(m)'
    BY <1>4, <1>5, <2>1 DEF Progress
  <2>3. StaReleaseTimer(session, input.left) = NoTimer
    BY <1>9 DEF StaReleaseTimer
  <2>4. Search'
    BY <1>2, <2>1, <2>3 DEF Search
  <2>5. LoopTypeOK'
    BY <1>1, <1>2, <1>5, <1>6, <2>1, LoopTypes
  <2> QED BY <1>3, <1>5, <2>1, <2>2, <2>4, <2>5 DEF LoopInductive
<1> QED BY <1>8, <1>9

\* The bound of the search, (index - 1) % tid->size in C, is the last place
\* unless the head is in slot 0; then no slot equals it, except in a window of one.
LEMMA ScanBound ==
  ASSUME NEW t, Sound(t), NEW d \in 0 .. Size - 1, At(t, d) = CRem(At(t, 0) - 1, Size)
  PROVE  d = Size - 1
<1> DEFINE i == At(t, 0)
<1>1. Size \in Nat /\ Size > 0 /\ i \in 0 .. Size - 1 /\ At(t, d) \in 0 .. Size - 1
  BY AtFacts, Sizes DEF Slots
<1> HIDE DEF i
<1>2. CASE i = 0
  <2>1. CRem(i - 1, Size) = -(1 % Size)
    BY <1>2 DEF CRem
  <2>2. CASE Size = 1
    BY <2>2
  <2>3. CASE Size # 1
    <3>1. 1 \in 0 .. Size - 1 /\ 1 = Size * 0 + 1
      BY <1>1, <2>3
    <3>2. 1 % Size = 1
      BY <1>1, <3>1, ModUnique
    <3> QED BY <1>1, <2>1, <3>2 DEF i
  <2> QED BY <2>2, <2>3
<1>3. CASE i # 0
  <2>1. i - 1 \in 0 .. Size - 1 /\ i - 1 \in Int /\ i - 1 = Size * 0 + (i - 1) /\ ~(i - 1 < 0)
    BY <1>1, <1>3
  <2>2. (i - 1) % Size = i - 1
    BY <1>1, <2>1, ModUnique
  <2>3. CRem(i - 1, Size) = i - 1
    BY <2>1, <2>2 DEF CRem
  <2>4. At(t, d) = i - 1
    BY <2>3 DEF i
  <2>5. At(t, d + 1) = i
    <3>1. At(t, d + 1) = (i - 1 + 1) % Size
      BY <2>4, AtRound DEF Wrap
    <3>2. i - 1 + 1 = i /\ i \in Int /\ i = Size * 0 + i
      BY <1>1
    <3>3. i % Size = i
      BY <1>1, <3>2, ModUnique
    <3> QED BY <3>1, <3>2, <3>3
  <2>6. CASE d + 1 < Size
    <3>1. d + 1 \in Int /\ 0 \in Int /\ d + 1 - 0 < Size /\ 0 - (d + 1) < Size
      BY <1>1, <2>6
    <3>2. d + 1 = 0
      BY <2>5, <3>1, AtNear DEF i
    <3> QED BY <3>2
  <2> QED BY <1>1, <2>6
<1> QED BY <1>2, <1>3

\* The search for the first frame left.
LEMMA ScanStep ==
  ASSUME LoopInductive, scan
  PROVE  LoopInductive'
<1>1. LoopTypeOK /\ Sound(session) /\ Sound(input.tid)
  BY CallFacts DEF LoopInductive
<1>2. /\ pc = "scan" /\ input.fn # "release_frames"
      /\ UNCHANGED <<input, session, index, skipped, queue, armed>>
  BY DEF scan, LoopInductive
<1>3. PICK m \in 0 .. Modulus : Progress(m)
  BY DEF LoopInductive
<1>4. Moved(m) /\ m = Count /\ Count' = Count
  BY <1>2, <1>3 DEF Progress, Count
<1>5. Moved(m)' /\ Sound(session')
  BY <1>1, <1>2, <1>4 DEF Moved
<1>6. index = At(session, 0) /\ session.len > 0 /\ \E d \in 0 .. Size - 1 : Looking(d)
  BY <1>2 DEF LoopInductive, Search
<1>7. PICK d \in 0 .. Size - 1 : Looking(d)
  BY <1>6
<1>8. j = At(session, d) /\ \A c \in 0 .. d - 1 : ~Full(session, c)
  BY <1>7 DEF Looking
<1>9. /\ j \in Slots /\ index \in Slots /\ skipped \in 0 .. Size
      /\ armed \in {NoTimer} \cup 1 .. Timeout + 1 /\ Size \in Nat
  BY <1>1, Sizes DEF LoopTypeOK
<1>10. d = Size - 1 => Full(session, d)
  <2>1. PICK e \in 0 .. Size - 1 : Full(session, e)
    BY <1>1, <1>6, SomeFull
  <2>2. e >= d
    BY <1>8, <2>1
  <2>3. d = Size - 1 => e = d
    BY <1>9, <2>2
  <2> QED BY <2>1, <2>3
<1>11. session.buf[j] # NoFrame <=> Full(session, d)
  BY <1>8 DEF Full
<1>12. CASE j = CRem(index - 1, Size) \/ session.buf[j] # NoFrame
  <2>1. pc' = "arm" /\ j' = j
    BY <1>12 DEF scan
  <2>2. Full(session, d)
    <3>1. CASE j = CRem(index - 1, Size)
      <4>1. d = Size - 1
        BY <1>1, <1>6, <1>8, <3>1, ScanBound
      <4> QED BY <1>10, <4>1
    <3>2. CASE session.buf[j] # NoFrame
      BY <1>11, <3>2
    <3> QED BY <1>12, <3>1, <3>2
  <2>3. Looking(d)' /\ Full(session', d)
    BY <1>2, <1>8, <2>1, <2>2 DEF Looking
  <2>4. Search'
    BY <2>1, <2>3 DEF Search
  <2>5. Progress(m)'
    BY <1>4, <1>5, <2>1 DEF Progress
  <2>6. LoopTypeOK'
    BY <1>1, <1>2, <1>5, <1>9, <2>1, LoopTypes
  <2> QED BY <1>2, <1>3, <1>5, <2>1, <2>4, <2>5, <2>6 DEF LoopInductive
<1>13. CASE ~(j = CRem(index - 1, Size) \/ session.buf[j] # NoFrame)
  <2>1. j' = Wrap(j) /\ pc' = pc
    BY <1>13 DEF scan
  <2>2. ~Full(session, d) /\ d + 1 \in 0 .. Size - 1
    BY <1>9, <1>10, <1>11, <1>13
  <2>3. j' = At(session, d + 1) /\ j' \in Slots
    BY <1>1, <1>8, <2>1, AtRound, AtFacts
  <2>4. \A c \in 0 .. d + 1 - 1 : ~Full(session, c)
    <3>1. \A c \in 0 .. d + 1 - 1 : c = d \/ c \in 0 .. d - 1
      OBVIOUS
    <3> QED BY <1>8, <2>2, <3>1
  <2>5. Looking(d + 1)'
    BY <1>2, <2>3, <2>4 DEF Looking
  <2>6. Search'
    BY <1>2, <1>6, <2>1, <2>2, <2>5 DEF Search
  <2>7. Progress(m)'
    BY <1>2, <1>4, <1>5, <2>1 DEF Progress
  <2>8. LoopTypeOK'
    BY <1>1, <1>2, <1>5, <1>9, <2>1, <2>3, LoopTypes
  <2> QED BY <1>2, <1>3, <1>5, <2>1, <2>6, <2>7, <2>8 DEF LoopInductive
<1> QED BY <1>12, <1>13

\* The timer is set.
LEMMA ArmStep ==
  ASSUME LoopInductive, arm
  PROVE  LoopInductive'
<1>1. /\ LoopTypeOK /\ Sound(session) /\ input.left \in [Slots -> 0 .. Timeout]
      /\ Timeout \in Nat
  BY CallFacts, WindowAssumption DEF LoopInductive
<1>2. /\ pc = "arm" /\ pc' = "done" /\ armed' = input.left[j] + 1
      /\ UNCHANGED <<input, session, j, index, skipped, queue>>
  BY DEF arm
<1>3. PICK m \in 0 .. Modulus : Progress(m)
  BY DEF LoopInductive
<1>4. Moved(m) /\ m = Count /\ Count' = Count
  BY <1>2, <1>3 DEF Progress, Count
<1>5. Moved(m)' /\ Sound(session')
  BY <1>1, <1>2, <1>4 DEF Moved
<1>6. PICK d \in 0 .. Size - 1 : Looking(d) /\ Full(session, d)
  BY <1>2 DEF LoopInductive, Search
<1>7. j = At(session, d) /\ \A c \in 0 .. d - 1 : ~Full(session, c)
  BY <1>6 DEF Looking
<1>8. /\ j \in Slots /\ index \in Slots /\ skipped \in 0 .. Size
      /\ armed' \in 1 .. Timeout + 1
  BY <1>1, <1>2 DEF LoopTypeOK
<1>9. session.len > 0
  BY <1>1, <1>6, SomeFull
<1>10. StaReleaseTimer(session, input.left) = input.left[At(session, d)] + 1
  BY <1>6, <1>7, <1>9, FirstFrame
<1>11. Search'
  BY <1>2, <1>7, <1>10 DEF Search
<1>12. Progress(m)'
  BY <1>2, <1>4, <1>5 DEF Progress
<1>13. LoopTypeOK'
  BY <1>1, <1>2, <1>5, <1>8, LoopTypes
<1> QED BY <1>2, <1>3, <1>5, <1>11, <1>12, <1>13 DEF LoopInductive

\* Every iteration of every loop preserves it.
LEMMA LoopNextInductive == LoopInductive /\ [LoopNext]_loopvars => LoopInductive'
<1> SUFFICES ASSUME LoopInductive, [LoopNext]_loopvars PROVE LoopInductive'
  OBVIOUS
<1>1. CASE release_frames
  BY <1>1, ReleaseFramesStep
<1>2. CASE sta_release
  BY <1>2, ChooseStep
<1>3. CASE skip
  BY <1>3, SkipLoopStep
<1>4. CASE sequence
  BY <1>4, SequenceStep
<1>5. CASE rest
  BY <1>5, RestStep
<1>6. CASE scan
  BY <1>6, ScanStep
<1>7. CASE arm
  BY <1>7, ArmStep
<1>8. CASE UNCHANGED loopvars
  <2>1. /\ input' = input /\ pc' = pc /\ session' = session /\ j' = j /\ index' = index
        /\ skipped' = skipped /\ queue' = queue /\ armed' = armed
    BY <1>8 DEF loopvars
  <2>2. PICK m \in 0 .. Modulus : Progress(m)
    BY DEF LoopInductive
  <2>3. Moved(m)' /\ Count' = Count
    BY <2>1, <2>2 DEF Progress, Moved, Count
  <2>4. Progress(m)'
    BY <2>1, <2>2, <2>3 DEF Progress, Skipping, InSequence
  <2>5. Search'
    BY <2>1 DEF LoopInductive, Search, Looking
  <2>6. LoopTypeOK'
    BY <2>1 DEF LoopInductive, LoopTypeOK
  <2>7. /\ Sound(session')
        /\ pc' # "done" => (pc' = "release_frames" <=> input'.fn = "release_frames")
    BY <2>1 DEF LoopInductive
  <2> QED BY <2>2, <2>4, <2>5, <2>6, <2>7 DEF LoopInductive
<1> QED BY <1>1, <1>2, <1>3, <1>4, <1>5, <1>6, <1>7, <1>8 DEF LoopNext

\* The loops of r92su_reorder_release_frames and r92su_reorder_sta_release do
\* what ReorderWindow computes in one step and never leave the buffer, for every
\* size of the window and of the sequence space, every window and every timeout.
THEOREM LoopsAgreeAlways == LoopSpec => []LoopsAgree
<1>1. LoopInductive => LoopsAgree
  <2> SUFFICES ASSUME LoopInductive PROVE LoopsAgree
    OBVIOUS
  <2>1. LoopTypeOK
    BY DEF LoopInductive
  <2>2. PICK m \in 0 .. Modulus : Progress(m)
    BY DEF LoopInductive
  <2>3. pc = "done" => session = Advance(input.tid, Count) /\ queue = Released(input.tid, Count)
    BY <2>2 DEF Progress, Moved
  <2>4. pc = "done" /\ input.fn = "sta_release" => armed = StaReleaseTimer(session, input.left)
    BY DEF LoopInductive, Search
  <2> QED BY <2>1, <2>3, <2>4 DEF LoopsAgree
<1> QED BY <1>1, LoopInitInductive, LoopNextInductive, PTL DEF LoopSpec

=============================================================================
