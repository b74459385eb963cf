------------------------ MODULE ModemTransportProofs ------------------------
(***************************************************************************)
(* The byte stream keeps its order and its gaps on the way to the driver,  *)
(* whatever the sizes of the buffers in between.                           *)
(***************************************************************************)
EXTENDS ModemTransport, TLAPS

-----------------------------------------------------------------------------
(* Sequences *)

\* Concatenation, element by element
LEMMA Joined ==
    ASSUME NEW S, NEW s \in Seq(S), NEW t \in Seq(S)
    PROVE  /\ s \o t \in Seq(S) /\ Len(s \o t) = Len(s) + Len(t)
           /\ \A i \in 1 .. Len(s) : (s \o t)[i] = s[i]
           /\ \A i \in Len(s) + 1 .. Len(s) + Len(t) : (s \o t)[i] = t[i - Len(s)]
           /\ \A i \in 1 .. Len(t) : (s \o t)[Len(s) + i] = t[i]
OBVIOUS

LEMMA SameItems ==
    ASSUME NEW S, NEW s \in Seq(S), NEW t \in Seq(S), Len(s) = Len(t),
           \A i \in 1 .. Len(s) : s[i] = t[i]
    PROVE  s = t
OBVIOUS

LEMMA FitParts ==
    ASSUME NEW S, NEW s \in Seq(S), NEW room \in Nat
    PROVE  /\ Fit(s, room) \in Seq(S) /\ NoFit(s, room) \in Seq(S)
           /\ Fit(s, room) \o NoFit(s, room) = s
           /\ Len(Fit(s, room)) <= room
           /\ Len(s) <= room => Fit(s, room) = s
           /\ Len(s) > room => Len(Fit(s, room)) = room /\ Fit(s, room) # s
<1> DEFINE n == IF room < Len(s) THEN room ELSE Len(s)
<1>1. n \in 0 .. Len(s) /\ n <= room /\ Len(s) \in Nat
      OBVIOUS
<1> HIDE DEF n
<1>2. /\ SubSeq(s, 1, n) \in Seq(S) /\ Len(SubSeq(s, 1, n)) = n
      /\ \A i \in 1 .. n : SubSeq(s, 1, n)[i] = s[i]
      BY <1>1
<1>3. /\ SubSeq(s, n + 1, Len(s)) \in Seq(S) /\ Len(SubSeq(s, n + 1, Len(s))) = Len(s) - n
      /\ \A i \in 1 .. Len(s) - n : SubSeq(s, n + 1, Len(s))[i] = s[n + i]
      BY <1>1
<1>4. SubSeq(s, 1, n) \o SubSeq(s, n + 1, Len(s)) = s
      <2> DEFINE u == SubSeq(s, 1, n)
                 v == SubSeq(s, n + 1, Len(s))
      <2>1. /\ u \in Seq(S) /\ Len(u) = n /\ \A i \in 1 .. n : u[i] = s[i]
            /\ v \in Seq(S) /\ Len(v) = Len(s) - n /\ \A i \in 1 .. Len(s) - n : v[i] = s[n + i]
            BY <1>2, <1>3
      <2> HIDE DEF u, v
      <2>2. u \o v \in Seq(S) /\ Len(u \o v) = Len(s)
            BY <2>1, <1>1
      <2>3. ASSUME NEW i \in 1 .. Len(s)  PROVE  (u \o v)[i] = s[i]
            <3>1. CASE i \in 1 .. Len(u)
                  BY <3>1, <2>1, Joined
            <3>2. CASE i \in Len(u) + 1 .. Len(u) + Len(v)
                  <4>1. (u \o v)[i] = v[i - n]
                        BY <3>2, <2>1, Joined
                  <4>2. i - n \in 1 .. Len(s) - n /\ n + (i - n) = i
                        BY <3>2, <2>1, <1>1
                  <4> QED BY <4>1, <4>2, <2>1
            <3> QED BY <3>1, <3>2, <2>1, <1>1
      <2>4. u \o v = s
            BY <2>2, <2>3, SameItems
      <2> QED BY <2>4 DEF u, v
<1>5. Fit(s, room) = SubSeq(s, 1, n) /\ NoFit(s, room) = SubSeq(s, n + 1, Len(s))
      BY <1>2 DEF Fit, NoFit, n
<1>6. Len(s) <= room => SubSeq(s, 1, n) = s
      <2> SUFFICES ASSUME Len(s) <= room PROVE SubSeq(s, 1, n) = s
          OBVIOUS
      <2>1. n = Len(s)
            BY DEF n
      <2> QED BY <1>2, <2>1
<1>7. Len(s) > room => n = room /\ n # Len(s)
      BY DEF n
<1> QED BY <1>1, <1>2, <1>3, <1>4, <1>5, <1>6, <1>7

\* A sequence over a set is one over any larger set.
LEMMA Widened ==
    ASSUME NEW S, NEW T, S \subseteq T, NEW s \in Seq(S)
    PROVE  s \in Seq(T)
<1>1. Len(s) \in Nat /\ s \in [1 .. Len(s) -> S]
      OBVIOUS
<1>2. s \in [1 .. Len(s) -> T]
      BY <1>1
<1> QED BY <1>1, <1>2

LEMMA Reordered ==
    ASSUME NEW S, NEW s \in Seq(S), NEW t \in Seq(S), NEW u \in Seq(S)
    PROVE  (s \o t) \o u = s \o (t \o u)
OBVIOUS

-----------------------------------------------------------------------------
(* Bytes and their order *)

Byte == (Nat \ {0}) \X (1 .. Terminator)
Item == Byte \cup {Lost}

\* The next byte is one place on, and no byte is a marker.
LEMMA BytePlaces ==
    ASSUME NEW b \in Byte
    PROVE  /\ Place(b) \in Nat /\ b # Lost
           /\ After(b) \in Byte /\ Place(After(b)) = Place(b) + 1
<1> USE StreamAssumption
<1>1. Terminator \in Nat /\ Terminator >= 2
      BY DEF Terminator
<1>2. /\ b = <<b[1], b[2]>> /\ b[1] \in Nat /\ b[1] >= 1
      /\ b[2] \in Nat /\ b[2] >= 1 /\ b[2] <= Terminator
      BY <1>1 DEF Byte
<1>3. (b[1] - 1) * Terminator \in Nat
      BY <1>1, <1>2
<1>4. Place(b) \in Nat /\ b # Lost
      BY <1>2, <1>3, <1>1 DEF Place, Lost
<1>5. CASE b[2] = Terminator
      <2>1. After(b) = <<b[1] + 1, 1>>
            BY <1>5 DEF After, IsEnd
      <2>2. (b[1] + 1 - 1) * Terminator = (b[1] - 1) * Terminator + Terminator
            BY <1>1, <1>2
      <2>3. Place(After(b)) = (b[1] + 1 - 1) * Terminator + 1
            BY <2>1, <1>1, <1>2 DEF Place
      <2>4. Place(b) = (b[1] - 1) * Terminator + Terminator
            BY <1>5 DEF Place
      <2>5. After(b) \in Byte
            BY <2>1, <1>1, <1>2 DEF Byte
      <2> QED BY <2>2, <2>3, <2>4, <2>5, <1>3, <1>4, <1>1
<1>6. CASE b[2] # Terminator
      <2>1. After(b) = <<b[1], b[2] + 1>>
            BY <1>6 DEF After, IsEnd
      <2>2. Place(After(b)) = (b[1] - 1) * Terminator + (b[2] + 1)
            BY <2>1, <1>1, <1>2 DEF Place
      <2>3. After(b) \in Byte
            BY <2>1, <1>6, <1>1, <1>2 DEF Byte
      <2> QED BY <2>2, <2>3, <1>2, <1>3, <1>4 DEF Place
<1> QED BY <1>5, <1>6

\* Items in order, the bytes all before a place
Before(s, place) == \A i \in DOMAIN s : s[i] # Lost => Place(s[i]) < place
Ordered(s, place) == InOrder(s) /\ Before(s, place)

LEMMA OrderedLater ==
    ASSUME NEW s \in Seq(Item), NEW p \in Nat, Ordered(s, p)
    PROVE  Ordered(s, p + 1)
<1>1. \A i \in DOMAIN s : s[i] # Lost => Place(s[i]) \in Nat
      BY BytePlaces DEF Item
<1> QED BY <1>1 DEF Ordered, Before

\* The byte sent next goes last.
LEMMA OrderedNext ==
    ASSUME NEW s \in Seq(Item), NEW b \in Byte, Ordered(s, Place(b))
    PROVE  Ordered(Append(s, b), Place(After(b)))
<1> DEFINE t == Append(s, b)
<1>1. /\ Len(t) = Len(s) + 1 /\ t[Len(s) + 1] = b /\ DOMAIN t = 1 .. Len(s) + 1
      /\ \A i \in 1 .. Len(s) : t[i] = s[i]
      BY DEF Item
<1>2. Place(b) \in Nat /\ Place(After(b)) = Place(b) + 1
      BY BytePlaces
<1>3. \A i \in 1 .. Len(s) : s[i] # Lost => Place(s[i]) \in Nat /\ Place(s[i]) < Place(b)
      <2>1. \A i \in 1 .. Len(s) : s[i] \in Item /\ i \in DOMAIN s
            OBVIOUS
      <2>2. \A i \in 1 .. Len(s) : s[i] # Lost => Place(s[i]) \in Nat
            BY <2>1, BytePlaces DEF Item
      <2> QED BY <2>1, <2>2 DEF Ordered, Before
<1> HIDE DEF t
<1>4. Before(t, Place(After(b)))
      BY <1>1, <1>2, <1>3 DEF Before
<1>5. ASSUME NEW i \in DOMAIN t, NEW j \in DOMAIN t, i < j, t[i] # Lost, t[j] # Lost
      PROVE  Place(t[i]) < Place(t[j])
      <2>1. i \in 1 .. Len(s) /\ t[i] = s[i]
            BY <1>1, <1>5
      <2>2. CASE j \in 1 .. Len(s)
            BY <2>1, <2>2, <1>1, <1>5 DEF Ordered, InOrder
      <2>3. CASE j = Len(s) + 1
            BY <2>1, <2>3, <1>1, <1>3, <1>5
      <2> QED BY <1>1, <2>2, <2>3
<1>6. InOrder(t)
      BY <1>5 DEF InOrder
<1> QED BY <1>4, <1>6 DEF Ordered, t

\* What is left of a stream, one part of which has given way to at most one
\* marker, is still in order.
LEMMA OrderedGap ==
    ASSUME NEW a \in Seq(Item), NEW d \in Seq(Item), NEW b \in Seq(Item), NEW p \in Nat,
           Ordered(a \o (d \o b), p),
           NEW gap \in {<<>>, <<Lost>>}
    PROVE  Ordered((a \o gap) \o b, p)
<1> DEFINE s == a \o (d \o b)
           g == a \o gap
           t == g \o b
           At(i) == IF i <= Len(a) THEN i ELSE i - Len(g) + Len(a) + Len(d)
<1>1. gap \in Seq(Item) /\ \A i \in DOMAIN gap : gap[i] = Lost
      <2>1. Lost \in Item
            BY DEF Item
      <2>2. CASE gap = <<>>
            BY <2>2
      <2>3. CASE gap = <<Lost>>
            BY <2>1, <2>3
      <2> QED BY <2>2, <2>3
<1>2. d \o b \in Seq(Item) /\ g \in Seq(Item) /\ Len(g) = Len(a) + Len(gap)
      BY <1>1
<1>3. DOMAIN t = 1 .. Len(g) + Len(b) /\ DOMAIN s = 1 .. Len(a) + (Len(d) + Len(b))
      BY <1>2
<1>4. ASSUME NEW i \in 1 .. Len(a)  PROVE  t[i] = s[i]
      BY <1>1, <1>2
<1>5. ASSUME NEW i \in Len(a) + 1 .. Len(g)  PROVE  t[i] = Lost
      <2>1. t[i] = g[i]
            BY <1>2
      <2>2. g[i] = gap[i - Len(a)] /\ i - Len(a) \in DOMAIN gap
            BY <1>1, <1>2
      <2> QED BY <2>1, <2>2, <1>1
<1>6. ASSUME NEW i \in Len(g) + 1 .. Len(g) + Len(b)  PROVE  t[i] = s[At(i)]
      <2>1. t[i] = b[i - Len(g)]
            BY <1>2
      <2>2. At(i) = (i - Len(g)) + Len(a) + Len(d)
            BY <1>2
      <2>3. s[At(i)] = (d \o b)[(i - Len(g)) + Len(d)]
            <3>1. At(i) \in Len(a) + 1 .. Len(a) + Len(d \o b) /\ At(i) - Len(a) = (i - Len(g)) + Len(d)
                  BY <2>2, <1>2
            <3>2. \A k \in Len(a) + 1 .. Len(a) + Len(d \o b) : (a \o (d \o b))[k] = (d \o b)[k - Len(a)]
                  BY <1>2, Joined, SMTT(30)
            <3>3. s[At(i)] = (d \o b)[At(i) - Len(a)]
                  BY <3>1, <3>2
            <3> QED BY <3>1, <3>3
      <2>4. (d \o b)[(i - Len(g)) + Len(d)] = b[i - Len(g)]
            <3>1. i - Len(g) \in 1 .. Len(b)
                  BY <1>2
            <3>2. \A k \in 1 .. Len(b) : (d \o b)[Len(d) + k] = b[k]
                  BY Joined
            <3>3. Len(d) + (i - Len(g)) = (i - Len(g)) + Len(d)
                  BY <3>1
            <3> QED BY <3>1, <3>2, <3>3
      <2> QED BY <2>1, <2>3, <2>4
<1>7. \A i \in DOMAIN t : t[i] # Lost => At(i) \in DOMAIN s /\ t[i] = s[At(i)]
      <2>1. ASSUME NEW i \in DOMAIN t, t[i] # Lost
            PROVE  At(i) \in DOMAIN s /\ t[i] = s[At(i)]
            <3> HIDE DEF s, t, g
            <3>1. Len(g) \in Nat /\ Len(a) \in Nat /\ Len(b) \in Nat /\ Len(d) \in Nat /\ Len(g) >= Len(a)
                  BY <1>1, <1>2
            <3>2. CASE i \in 1 .. Len(a)
                  BY <3>1, <3>2, <1>3, <1>4
            <3>3. CASE i \in Len(a) + 1 .. Len(g)
                  BY <3>3, <2>1, <1>5
            <3>4. CASE i \in Len(g) + 1 .. Len(g) + Len(b)
                  BY <3>1, <3>4, <1>3, <1>6, SMTT(30)
            <3> QED BY <3>1, <3>2, <3>3, <3>4, <1>3
      <2> QED BY <2>1
<1>8. \A i, j \in DOMAIN t : i < j /\ t[i] # Lost /\ t[j] # Lost => At(i) < At(j)
      <2>1. ASSUME NEW i \in DOMAIN t, NEW j \in DOMAIN t, i < j, t[i] # Lost, t[j] # Lost
            PROVE  At(i) < At(j)
            <3> HIDE DEF s, t, g
            <3>1. Len(g) \in Nat /\ Len(a) \in Nat /\ Len(b) \in Nat /\ Len(d) \in Nat /\ Len(g) >= Len(a)
                  BY <1>1, <1>2
            <3>2. (i <= Len(a) \/ i > Len(g)) /\ (j <= Len(a) \/ j > Len(g))
                  <4>1. i \notin Len(a) + 1 .. Len(g) /\ j \notin Len(a) + 1 .. Len(g)
                        BY <2>1, <1>5
                  <4> QED BY <4>1, <2>1, <3>1, <1>3
            <3> QED BY <3>1, <3>2, <2>1, <1>3
      <2> QED BY <2>1
<1> HIDE DEF s, t, g, At
<1>9. InOrder(t)
      BY <1>7, <1>8 DEF Ordered, InOrder, s
<1>10. Before(t, p)
      BY <1>7 DEF Ordered, Before, s
<1> QED BY <1>9, <1>10 DEF Ordered, t, g

-----------------------------------------------------------------------------
(* The queue *)

Queue == [buf : Seq(Byte), head : Nat, losses : Seq(Nat), lastLoss : Nat]

\* Within its room, with markers ascending where it still has bytes, and none
\* behind the last one it remembers
Sound(q) ==
    /\ q \in Queue
    /\ Len(q.buf) <= Capacity
    /\ \A j \in DOMAIN q.losses :
          q.head <= q.losses[j] /\ q.losses[j] <= QueueTail(q) /\ q.losses[j] < q.lastLoss
    /\ \A i, j \in DOMAIN q.losses : i < j => q.losses[i] < q.losses[j]
    /\ q.lastLoss <= QueueTail(q) + 1

\* What was put in ends in a marker exactly if the queue remembers one there.
Marked(q, stream) ==
    (stream # <<>> /\ stream[Len(stream)] = Lost) <=> (q.lastLoss = QueueTail(q) + 1)

\* The same of a queue given by its parts
Parts(size, head, losses, last) ==
    /\ size <= Capacity
    /\ \A j \in 1 .. Len(losses) :
          head <= losses[j] /\ losses[j] <= head + size /\ losses[j] < last
    /\ \A i, j \in 1 .. Len(losses) : i < j => losses[i] < losses[j]
    /\ last <= head + size + 1

Between(head, losses, i, n) ==
    /\ n > 0 => losses[n] < head + i
    /\ n < Len(losses) => losses[n + 1] >= head + i

InPlace(buf, head, losses, s, from) ==
    /\ Len(s) = from + Len(buf) + Len(losses)
    /\ \A j \in 1 .. Len(losses) : s[from + (losses[j] - head) + j] = Lost
    /\ \A i \in 1 .. Len(buf), n \in 0 .. Len(losses) :
          Between(head, losses, i, n) => s[from + i + n] = buf[i]

Clear(head, r, losses) == \A j \in 1 .. Len(losses) : head + r <= losses[j]

Passed(buf, r, s, from) == \A k \in 1 .. r : from + k \in DOMAIN s /\ s[from + k] = buf[k]

Left(rest, buf, r) ==
    /\ Len(rest) = Len(buf) - r
    /\ \A i \in 1 .. Len(buf) - r : rest[i] = buf[r + i]

Ends(s, full) == (s # <<>> /\ s[Len(s)] = Lost) <=> full

LEMMA Parted ==
    ASSUME NEW buf \in Seq(Byte), NEW head \in Nat, NEW losses \in Seq(Nat), NEW last \in Nat,
           NEW s \in Seq(Item), NEW from \in Nat,
           NEW q, q = [buf |-> buf, head |-> head, losses |-> losses, lastLoss |-> last]
    PROVE  /\ Sound(q) <=> Parts(Len(buf), head, losses, last)
           /\ Holds(q, s, from) <=> InPlace(buf, head, losses, s, from)
           /\ Marked(q, s) <=> Ends(s, last = head + Len(buf) + 1)
<1>1. /\ q.buf = buf /\ q.head = head /\ q.losses = losses /\ q.lastLoss = last
      /\ q \in Queue /\ QueueTail(q) = head + Len(buf)
      BY DEF Queue, QueueTail
<1>2. DOMAIN losses = 1 .. Len(losses) /\ DOMAIN buf = 1 .. Len(buf)
      OBVIOUS
<1>3. Sound(q) <=> Parts(Len(buf), head, losses, last)
      BY <1>1, <1>2 DEF Sound, Parts
<1>4. Holds(q, s, from) <=> InPlace(buf, head, losses, s, from)
      BY <1>1, <1>2 DEF Holds, InPlace, Between
<1>5. Marked(q, s) <=> Ends(s, last = head + Len(buf) + 1)
      BY <1>1 DEF Marked, Ends
<1> QED BY <1>3, <1>4, <1>5

\* Bytes for which there is room go behind what is there.
LEMMA BytesPlaced ==
    ASSUME NEW buf \in Seq(Byte), NEW head \in Nat, NEW losses \in Seq(Nat), NEW last \in Nat,
           Parts(Len(buf), head, losses, last),
           NEW s \in Seq(Item), NEW from \in Nat, InPlace(buf, head, losses, s, from),
           Ends(s, last = head + Len(buf) + 1),
           NEW b \in Seq(Byte), Len(b) <= Capacity - Len(buf)
    PROVE  /\ Parts(Len(buf \o b), head, losses, last)
           /\ buf \o b \in Seq(Byte) /\ s \o b \in Seq(Item)
           /\ InPlace(buf \o b, head, losses, s \o b, from)
           /\ Ends(s \o b, last = head + Len(buf \o b) + 1)
<1> USE CapacityAssumption
<1> DEFINE t == s \o b
           both == buf \o b
<1>1. /\ Len(buf) \in Nat /\ Len(losses) \in Nat /\ Len(b) \in Nat /\ Len(s) \in Nat
      /\ \A j \in 1 .. Len(losses) : losses[j] \in Nat
      BY SMTT(30)
<1>2. /\ both \in Seq(Byte) /\ Len(both) = Len(buf) + Len(b)
      /\ \A i \in 1 .. Len(buf) : both[i] = buf[i]
      /\ \A i \in Len(buf) + 1 .. Len(buf) + Len(b) : both[i] = b[i - Len(buf)]
      BY Joined
<1>3. Parts(Len(both), head, losses, last)
      BY <1>1, <1>2, SMTT(30) DEF Parts
<1>4. b \in Seq(Item) /\ \A i \in 1 .. Len(b) : b[i] # Lost
      <2>1. \A i \in 1 .. Len(b) : b[i] \in Byte
            OBVIOUS
      <2>2. \A i \in 1 .. Len(b) : b[i] # Lost
            BY <2>1, BytePlaces
      <2>3. Byte \subseteq Item
            BY DEF Item
      <2> QED BY <2>2, <2>3, Widened
<1>5. /\ t \in Seq(Item) /\ Len(t) = Len(s) + Len(b)
      /\ \A i \in 1 .. Len(s) : t[i] = s[i]
      /\ \A i \in 1 .. Len(b) : t[Len(s) + i] = b[i]
      BY <1>4, Joined
<1>6. Len(s) = from + Len(buf) + Len(losses)
      BY DEF InPlace
<1>7. \A j \in 1 .. Len(losses) : s[from + (losses[j] - head) + j] = Lost
      BY DEF InPlace
<1> HIDE DEF t, both
<1>8. InPlace(both, head, losses, t, from)
      <2>1. Len(t) = from + Len(both) + Len(losses)
            BY <1>1, <1>2, <1>5, <1>6
      <2>2. ASSUME NEW j \in 1 .. Len(losses)  PROVE  t[from + (losses[j] - head) + j] = Lost
            <3>1. from + (losses[j] - head) + j \in 1 .. Len(s)
                  <4>1. losses[j] \in Nat /\ head <= losses[j] /\ losses[j] <= head + Len(buf)
                        BY <1>1 DEF Parts
                  <4>2. PICK k \in 0 .. Len(buf) : losses[j] - head = k
                        BY <4>1, <1>1, SMTT(30)
                  <4>3. from + k + j \in 1 .. Len(s)
                        BY <1>1, <1>6
                  <4> QED BY <4>2, <4>3
            <3> QED BY <3>1, <1>5, <1>7
      <2>3. ASSUME NEW i \in 1 .. Len(both), NEW n \in 0 .. Len(losses), Between(head, losses, i, n)
            PROVE  t[from + i + n] = both[i]
            <3>1. i \in 1 .. Len(buf) + Len(b)
                  BY <1>2
            <3>2. CASE i \in 1 .. Len(buf)
                  <4>1. s[from + i + n] = buf[i]
                        BY <2>3, <3>2 DEF InPlace
                  <4>2. from + i + n \in 1 .. Len(s)
                        BY <3>2, <1>1, <1>6
                  <4> QED BY <4>1, <4>2, <3>2, <1>2, <1>5
            <3>3. CASE i \in Len(buf) + 1 .. Len(buf) + Len(b)
                  <4>1. n = Len(losses)
                        <5>1. n < Len(losses) => n + 1 \in 1 .. Len(losses)
                              BY <1>1
                        <5>2. n < Len(losses) => losses[n + 1] <= head + Len(buf) /\ losses[n + 1] \in Nat
                              BY <5>1, <1>1 DEF Parts
                        <5>3. n < Len(losses) => losses[n + 1] >= head + i
                              BY <2>3 DEF Between
                        <5>4. ASSUME n < Len(losses)  PROVE  FALSE
                              <6>1. PICK o \in Nat : losses[n + 1] = o
                                    BY <5>2, <5>4
                              <6>2. o <= head + Len(buf) /\ o >= head + i
                                    BY <5>2, <5>3, <5>4, <6>1
                              <6> QED BY <6>2, <3>3, <1>1
                        <5> QED BY <5>4, <1>1
                  <4>2. i - Len(buf) \in 1 .. Len(b) /\ from + i + n = Len(s) + (i - Len(buf))
                        BY <4>1, <3>3, <1>1, <1>6
                  <4>3. t[Len(s) + (i - Len(buf))] = b[i - Len(buf)]
                        BY <4>2, <1>5
                  <4> QED BY <4>2, <4>3, <3>3, <1>2
            <3> QED BY <3>1, <3>2, <3>3, <1>1
      <2> QED BY <2>1, <2>2, <2>3 DEF InPlace
<1>9. Ends(t, last = head + Len(both) + 1)
      <2>1. CASE Len(b) = 0
            <3>1. t = s
                  BY <2>1, <1>1, <1>5, SameItems
            <3>2. Len(both) = Len(buf)
                  BY <2>1, <1>1, <1>2
            <3> QED BY <3>1, <3>2
      <2>2. CASE Len(b) > 0
            <3>1. Len(b) \in 1 .. Len(b)
                  BY <2>2, <1>1
            <3>2. t[Len(t)] = b[Len(b)] /\ b[Len(b)] # Lost
                  BY <3>1, <1>4, <1>5
            <3>3. last # head + Len(both) + 1
                  BY <2>2, <1>1, <1>2 DEF Parts
            <3> QED BY <3>2, <3>3 DEF Ends
      <2> QED BY <2>1, <2>2, <1>1
<1> QED BY <1>2, <1>3, <1>5, <1>8, <1>9 DEF t, both

\* A marker goes behind what is there.
LEMMA MarkerPlaced ==
    ASSUME NEW buf \in Seq(Byte), NEW head \in Nat, NEW losses \in Seq(Nat), NEW last \in Nat,
           Parts(Len(buf), head, losses, last), last # head + Len(buf) + 1,
           NEW s \in Seq(Item), NEW from \in Nat, InPlace(buf, head, losses, s, from),
           NEW tail, tail = head + Len(buf)
    PROVE  /\ Parts(Len(buf), head, Append(losses, tail), tail + 1)
           /\ Append(losses, tail) \in Seq(Nat) /\ Append(s, Lost) \in Seq(Item)
           /\ InPlace(buf, head, Append(losses, tail), Append(s, Lost), from)
           /\ Ends(Append(s, Lost), tail + 1 = head + Len(buf) + 1)
<1> DEFINE t == Append(s, Lost)
           more == Append(losses, tail)
<1>1. /\ Len(buf) \in Nat /\ Len(losses) \in Nat /\ Len(s) \in Nat /\ tail \in Nat
      /\ \A j \in 1 .. Len(losses) : losses[j] \in Nat
      OBVIOUS
<1>2. Lost \in Item
      BY DEF Item
<1>3. /\ t \in Seq(Item) /\ Len(t) = Len(s) + 1 /\ t[Len(s) + 1] = Lost
      /\ \A i \in 1 .. Len(s) : t[i] = s[i]
      BY <1>2
<1>4. /\ more \in Seq(Nat) /\ Len(more) = Len(losses) + 1 /\ more[Len(losses) + 1] = tail
      /\ \A j \in 1 .. Len(losses) : more[j] = losses[j]
      BY <1>1
<1>5. \A j \in 1 .. Len(losses) : losses[j] < tail /\ head <= losses[j]
      BY <1>1 DEF Parts
<1>6. Len(s) = from + Len(buf) + Len(losses)
      BY DEF InPlace
<1>7. \A j \in 1 .. Len(losses) : s[from + (losses[j] - head) + j] = Lost
      BY DEF InPlace
<1> HIDE DEF t, more
<1>8. Parts(Len(buf), head, more, tail + 1)
      <2>1. ASSUME NEW j \in 1 .. Len(more)
            PROVE  head <= more[j] /\ more[j] <= head + Len(buf) /\ more[j] < tail + 1
            <3>1. CASE j \in 1 .. Len(losses)
                  <4>1. more[j] = losses[j] /\ losses[j] \in Nat /\ losses[j] < tail /\ head <= losses[j]
                        BY <3>1, <1>1, <1>4, <1>5
                  <4> QED BY <4>1, <1>1
            <3>2. CASE j = Len(losses) + 1
                  BY <3>2, <1>1, <1>4
            <3> QED BY <3>1, <3>2, <1>1, <1>4
      <2>2. ASSUME NEW i \in 1 .. Len(more), NEW j \in 1 .. Len(more), i < j
            PROVE  more[i] < more[j]
            <3>1. i \in 1 .. Len(losses)
                  BY <2>2, <1>1, <1>4
            <3>2. CASE j \in 1 .. Len(losses)
                  BY <2>2, <3>1, <3>2, <1>4 DEF Parts
            <3>3. CASE j = Len(losses) + 1
                  BY <3>1, <3>3, <1>4, <1>5
            <3> QED BY <3>2, <3>3, <1>1, <1>4
      <2>3. Len(buf) <= Capacity /\ tail + 1 <= head + Len(buf) + 1
            BY <1>1 DEF Parts
      <2> QED BY <2>1, <2>2, <2>3 DEF Parts
<1>9. InPlace(buf, head, more, t, from)
      <2>1. Len(t) = from + Len(buf) + Len(more)
            BY <1>1, <1>3, <1>4, <1>6
      <2>2. ASSUME NEW j \in 1 .. Len(more)  PROVE  t[from + (more[j] - head) + j] = Lost
            <3>1. CASE j \in 1 .. Len(losses)
                  <4>1. losses[j] \in Nat /\ losses[j] < tail /\ head <= losses[j]
                        BY <3>1, <1>1, <1>5
                  <4>2. PICK k \in 0 .. Len(buf) : losses[j] - head = k
                        BY <4>1, <1>1, SMTT(30)
                  <4>3. from + k + j \in 1 .. Len(s)
                        BY <3>1, <1>1, <1>6
                  <4>4. from + (losses[j] - head) + j \in 1 .. Len(s)
                        BY <4>2, <4>3
                  <4> QED BY <3>1, <4>4, <1>3, <1>4, <1>7
            <3>2. CASE j = Len(losses) + 1
                  <4>1. from + (tail - head) + j = Len(s) + 1
                        BY <3>2, <1>1, <1>6
                  <4> QED BY <3>2, <4>1, <1>3, <1>4
            <3> QED BY <3>1, <3>2, <1>1, <1>4
      <2>3. ASSUME NEW i \in 1 .. Len(buf), NEW n \in 0 .. Len(more), Between(head, more, i, n)
            PROVE  t[from + i + n] = buf[i]
            <3>1. n # Len(losses) + 1
                  <4>1. n > 0 => more[n] < head + i
                        BY <2>3 DEF Between
                  <4> QED BY <4>1, <1>1, <1>4
            <3>2. n \in 0 .. Len(losses)
                  BY <3>1, <1>1, <1>4
            <3>3. Between(head, losses, i, n)
                  <4>1. n > 0 => n \in 1 .. Len(losses)
                        BY <3>2, <1>1
                  <4>2. n < Len(losses) => n + 1 \in 1 .. Len(losses) /\ n < Len(more)
                        BY <3>2, <1>1, <1>4, SMTT(30)
                  <4>3. /\ n > 0 => more[n] < head + i
                        /\ n < Len(more) => more[n + 1] >= head + i
                        BY <2>3 DEF Between
                  <4>4. /\ n > 0 => losses[n] < head + i
                        /\ n < Len(losses) => losses[n + 1] >= head + i
                        BY <4>1, <4>2, <4>3, <1>4
                  <4> QED BY <4>4 DEF Between
            <3>4. s[from + i + n] = buf[i]
                  BY <3>2, <3>3 DEF InPlace
            <3>5. from + i + n \in 1 .. Len(s)
                  BY <3>2, <1>1, <1>6
            <3> QED BY <3>4, <3>5, <1>3
      <2> QED BY <2>1, <2>2, <2>3 DEF InPlace
<1>10. Ends(t, tail + 1 = head + Len(buf) + 1)
      BY <1>1, <1>3 DEF Ends
<1> QED BY <1>3, <1>4, <1>8, <1>9, <1>10 DEF t, more

\* A marker at the front is taken off.
LEMMA MarkerTaken ==
    ASSUME NEW buf \in Seq(Byte), NEW head \in Nat, NEW losses \in Seq(Nat), NEW last \in Nat,
           Parts(Len(buf), head, losses, last), losses # <<>>, losses[1] = head,
           NEW s \in Seq(Item), NEW from \in Nat, InPlace(buf, head, losses, s, from)
    PROVE  /\ Parts(Len(buf), head, Tail(losses), last)
           /\ Tail(losses) \in Seq(Nat)
           /\ InPlace(buf, head, Tail(losses), s, from + 1)
           /\ from + 1 \in DOMAIN s /\ s[from + 1] = Lost
<1> DEFINE less == Tail(losses)
<1>1. /\ Len(buf) \in Nat /\ Len(losses) \in Nat /\ Len(losses) >= 1 /\ Len(s) \in Nat
      /\ \A j \in 1 .. Len(losses) : losses[j] \in Nat
      OBVIOUS
<1>2. /\ less \in Seq(Nat) /\ Len(less) = Len(losses) - 1
      /\ \A j \in 1 .. Len(losses) - 1 : less[j] = losses[j + 1]
      BY <1>1
<1>3. Len(s) = from + Len(buf) + Len(losses)
      BY DEF InPlace
<1>4. \A j \in 1 .. Len(losses) : s[from + (losses[j] - head) + j] = Lost
      BY DEF InPlace
<1> HIDE DEF less
<1>5. Parts(Len(buf), head, less, last)
      <2>1. \A j \in 1 .. Len(less) : j + 1 \in 1 .. Len(losses) /\ less[j] = losses[j + 1]
            BY <1>1, <1>2
      <2>2. \A i, j \in 1 .. Len(less) : i < j => i + 1 < j + 1
            BY <1>1, <1>2
      <2> QED BY <2>1, <2>2 DEF Parts
<1>6. s[from + 1] = Lost /\ from + 1 \in DOMAIN s
      <2>1. 1 \in 1 .. Len(losses) /\ from + (losses[1] - head) + 1 = from + 1
            BY <1>1
      <2>2. s[from + 1] = Lost
            <3>1. s[from + (losses[1] - head) + 1] = Lost
                  BY <2>1, <1>4
            <3> QED BY <3>1, <2>1
      <2>3. from + 1 \in 1 .. Len(s)
            BY <1>1, <1>3
      <2> QED BY <2>2, <2>3
<1>7. InPlace(buf, head, less, s, from + 1)
      <2>1. Len(s) = (from + 1) + Len(buf) + Len(less)
            BY <1>1, <1>2, <1>3
      <2>2. ASSUME NEW j \in 1 .. Len(less)  PROVE  s[(from + 1) + (less[j] - head) + j] = Lost
            <3>1. j + 1 \in 1 .. Len(losses) /\ less[j] = losses[j + 1]
                  BY <1>1, <1>2
            <3>2. PICK o \in Nat : losses[j + 1] = o
                  BY <1>1, <3>1
            <3>3. from + (o - head) + (j + 1) = (from + 1) + (o - head) + j
                  OBVIOUS
            <3> QED BY <3>1, <3>2, <3>3, <1>4
      <2>3. ASSUME NEW i \in 1 .. Len(buf), NEW n \in 0 .. Len(less), Between(head, less, i, n)
            PROVE  s[(from + 1) + i + n] = buf[i]
            <3>1. /\ n > 0 => less[n] < head + i
                  /\ n < Len(less) => less[n + 1] >= head + i
                  BY <2>3 DEF Between
            <3>2. n + 1 \in 0 .. Len(losses) /\ (from + 1) + i + n = from + i + (n + 1)
                  BY <1>1, <1>2
            <3>3. losses[n + 1] < head + i
                  <4>1. CASE n = 0
                        BY <4>1
                  <4>2. CASE n > 0
                        <5>1. n \in 1 .. Len(losses) - 1
                              BY <4>2, <1>1, <1>2
                        <5> QED BY <4>2, <5>1, <3>1, <1>2
                  <4> QED BY <4>1, <4>2
            <3>4. n + 1 < Len(losses) => losses[(n + 1) + 1] >= head + i
                  <4>1. n + 1 < Len(losses) => n < Len(less) /\ n + 1 \in 1 .. Len(losses) - 1
                        BY <1>1, <1>2, SMTT(30)
                  <4> QED BY <4>1, <3>1, <1>2
            <3>5. Between(head, losses, i, n + 1)
                  BY <3>3, <3>4 DEF Between
            <3>6. s[from + i + (n + 1)] = buf[i]
                  BY <3>2, <3>5 DEF InPlace
            <3> QED BY <3>2, <3>6
      <2> QED BY <2>1, <2>2, <2>3 DEF InPlace
<1> QED BY <1>2, <1>5, <1>6, <1>7 DEF less

\* Bytes in front of every marker are taken off.
LEMMA BytesTaken ==
    ASSUME NEW buf \in Seq(Byte), NEW head \in Nat, NEW losses \in Seq(Nat), NEW last \in Nat,
           Parts(Len(buf), head, losses, last),
           NEW s \in Seq(Item), NEW from \in Nat, InPlace(buf, head, losses, s, from),
           NEW r \in 0 .. Len(buf), Clear(head, r, losses),
           NEW rest \in Seq(Byte), Left(rest, buf, r)
    PROVE  /\ Parts(Len(rest), head + r, losses, last)
           /\ InPlace(rest, head + r, losses, s, from + r)
           /\ Passed(buf, r, s, from)
<1>1. /\ Len(buf) \in Nat /\ Len(losses) \in Nat /\ Len(s) \in Nat /\ r \in Nat /\ r <= Len(buf)
      /\ \A j \in 1 .. Len(losses) : losses[j] \in Nat
      OBVIOUS
<1>2. /\ Len(rest) = Len(buf) - r
      /\ \A i \in 1 .. Len(buf) - r : rest[i] = buf[r + i]
      BY DEF Left
<1>3. Len(s) = from + Len(buf) + Len(losses)
      BY DEF InPlace
<1>4. \A j \in 1 .. Len(losses) : s[from + (losses[j] - head) + j] = Lost
      BY DEF InPlace
<1>5. Parts(Len(rest), head + r, losses, last)
      <2>1. Len(rest) <= Capacity
            BY <1>1, <1>2, CapacityAssumption DEF Parts
      <2>2. (head + r) + Len(rest) = head + Len(buf)
            BY <1>1, <1>2
      <2> QED BY <2>1, <2>2 DEF Parts, Clear
<1>6. InPlace(rest, head + r, losses, s, from + r)
      <2>1. Len(s) = (from + r) + Len(rest) + Len(losses)
            BY <1>1, <1>2, <1>3
      <2>2. ASSUME NEW j \in 1 .. Len(losses)  PROVE  s[(from + r) + (losses[j] - (head + r)) + j] = Lost
            <3>1. PICK o \in Nat : losses[j] = o
                  BY <1>1
            <3>2. (from + r) + (o - (head + r)) + j = from + (o - head) + j
                  BY <1>1
            <3> QED BY <3>1, <3>2, <1>4
      <2>3. ASSUME NEW i \in 1 .. Len(rest), NEW n \in 0 .. Len(losses), Between(head + r, losses, i, n)
            PROVE  s[(from + r) + i + n] = rest[i]
            <3>1. r + i \in 1 .. Len(buf) /\ rest[i] = buf[r + i]
                  <4>1. i \in 1 .. Len(buf) - r
                        BY <1>2
                  <4>2. r + i \in 1 .. Len(buf)
                        BY <4>1, <1>1
                  <4> QED BY <4>1, <4>2, <1>2
            <3>2. (head + r) + i = head + (r + i) /\ (from + r) + i + n = from + (r + i) + n
                  BY <1>1, <1>2
            <3>3. Between(head, losses, r + i, n)
                  BY <2>3, <3>2 DEF Between
            <3>4. s[from + (r + i) + n] = buf[r + i]
                  BY <3>1, <3>3 DEF InPlace
            <3> QED BY <3>1, <3>2, <3>4
      <2> QED BY <2>1, <2>2, <2>3 DEF InPlace
<1>7. ASSUME NEW k \in 1 .. r  PROVE  from + k \in DOMAIN s /\ s[from + k] = buf[k]
      <2>1. k \in 1 .. Len(buf) /\ 0 \in 0 .. Len(losses) /\ from + k + 0 = from + k
            BY <1>1
      <2>2. 0 < Len(losses) => losses[0 + 1] >= head + k
            <3> USE DEF Clear
            <3>1. 0 < Len(losses) => 1 \in 1 .. Len(losses)
                  BY <1>1
            <3>2. 0 < Len(losses) => losses[1] \in Nat /\ head + r <= losses[1]
                  BY <3>1, <1>1
            <3>3. head + k <= head + r
                  BY <1>1
            <3>4. ASSUME 0 < Len(losses)  PROVE  losses[1] >= head + k
                  <4>1. PICK o \in Nat : losses[1] = o
                        BY <3>2, <3>4
                  <4> QED BY <3>2, <3>3, <3>4, <4>1, <1>1
            <3> QED BY <3>4
      <2>3. Between(head, losses, k, 0)
            BY <2>2 DEF Between
      <2>4. s[from + k + 0] = buf[k]
            BY <2>1, <2>3 DEF InPlace
      <2>5. from + k \in 1 .. Len(s)
            BY <2>1, <1>1, <1>3
      <2> QED BY <2>1, <2>4, <2>5
<1> QED BY <1>5, <1>6, <1>7 DEF Passed

-----------------------------------------------------------------------------
(* The queue's operations *)

LEMMA Whole ==
    ASSUME NEW q, Sound(q)
    PROVE  \E buf \in Seq(Byte), head \in Nat, losses \in Seq(Nat), last \in Nat :
              q = [buf |-> buf, head |-> head, losses |-> losses, lastLoss |-> last]
BY DEF Sound, Queue

LEMMA BytesQueued ==
    ASSUME NEW q, Sound(q),
           NEW s \in Seq(Item), NEW from \in Nat, Holds(q, s, from), Marked(q, s),
           NEW b \in Seq(Byte), Len(b) <= Capacity - Len(q.buf)
    PROVE  LET p == [q EXCEPT !.buf = @ \o b]
           IN  /\ Sound(p) /\ s \o b \in Seq(Item)
               /\ Holds(p, s \o b, from) /\ Marked(p, s \o b)
<1>1. PICK buf \in Seq(Byte), head \in Nat, losses \in Seq(Nat), last \in Nat :
         q = [buf |-> buf, head |-> head, losses |-> losses, lastLoss |-> last]
      BY Whole
<1>2. /\ Parts(Len(buf), head, losses, last) /\ InPlace(buf, head, losses, s, from)
      /\ Ends(s, last = head + Len(buf) + 1)
      BY <1>1, Parted
<1>3. q.buf = buf
      BY <1>1
<1>4. /\ Parts(Len(buf \o b), head, losses, last)
      /\ buf \o b \in Seq(Byte) /\ s \o b \in Seq(Item)
      /\ InPlace(buf \o b, head, losses, s \o b, from)
      /\ Ends(s \o b, last = head + Len(buf \o b) + 1)
      BY <1>2, <1>3, BytesPlaced
<1> DEFINE p == [q EXCEPT !.buf = @ \o b]
           both == buf \o b
<1>5. p = [buf |-> both, head |-> head, losses |-> losses, lastLoss |-> last]
      <2>1. p = [q EXCEPT !.buf = both]
            BY <1>3
      <2> HIDE DEF p, both
      <2> QED BY <2>1, <1>1
<1> HIDE DEF p, both
<1>6. /\ Parts(Len(both), head, losses, last)
      /\ both \in Seq(Byte) /\ s \o b \in Seq(Item)
      /\ InPlace(both, head, losses, s \o b, from)
      /\ Ends(s \o b, last = head + Len(both) + 1)
      BY <1>4 DEF both
<1>7. Sound(p) /\ Holds(p, s \o b, from) /\ Marked(p, s \o b)
      BY <1>5, <1>6, Parted
<1> QED BY <1>6, <1>7 DEF p

\* A gap is marked, and once.
LEMMA GapMarked ==
    ASSUME NEW q, Sound(q),
           NEW s \in Seq(Item), NEW from \in Nat, Holds(q, s, from), Marked(q, s)
    PROVE  /\ Sound(MarkLost(q)) /\ WithGap(s) \in Seq(Item)
           /\ Holds(MarkLost(q), WithGap(s), from) /\ Marked(MarkLost(q), WithGap(s))
<1>1. PICK buf \in Seq(Byte), head \in Nat, losses \in Seq(Nat), last \in Nat :
         q = [buf |-> buf, head |-> head, losses |-> losses, lastLoss |-> last]
      BY Whole
<1>2. /\ Parts(Len(buf), head, losses, last) /\ InPlace(buf, head, losses, s, from)
      /\ Ends(s, last = head + Len(buf) + 1)
      BY <1>1, Parted
<1>3. /\ q.lastLoss = last /\ q.losses = losses /\ QueueTail(q) = head + Len(buf)
      BY <1>1 DEF QueueTail
<1>4. CASE last = head + Len(buf) + 1
      <2>1. MarkLost(q) = q /\ WithGap(s) = s
            BY <1>2, <1>3, <1>4 DEF MarkLost, WithGap, Ends
      <2> QED BY <2>1
<1>5. CASE last # head + Len(buf) + 1
      <2> DEFINE tail == head + Len(buf)
      <2>1. /\ MarkLost(q) = [buf |-> buf, head |-> head, losses |-> Append(losses, tail), lastLoss |-> tail + 1]
            BY <1>1, <1>3, <1>5 DEF MarkLost
      <2>2. WithGap(s) = Append(s, Lost)
            BY <1>2, <1>5 DEF WithGap, Ends
      <2>3. tail + 1 \in Nat /\ tail = head + Len(buf)
            OBVIOUS
      <2> HIDE DEF tail
      <2>4. /\ Parts(Len(buf), head, Append(losses, tail), tail + 1)
            /\ Append(losses, tail) \in Seq(Nat) /\ Append(s, Lost) \in Seq(Item)
            /\ InPlace(buf, head, Append(losses, tail), Append(s, Lost), from)
            /\ Ends(Append(s, Lost), tail + 1 = head + Len(buf) + 1)
            BY <1>2, <1>5, <2>3, MarkerPlaced
      <2> DEFINE p == MarkLost(q)
                 t == Append(s, Lost)
                 more == Append(losses, tail)
                 now == tail + 1
      <2>5. /\ Parts(Len(buf), head, more, now)
            /\ more \in Seq(Nat) /\ t \in Seq(Item) /\ now \in Nat
            /\ InPlace(buf, head, more, t, from)
            /\ Ends(t, now = head + Len(buf) + 1)
            /\ p = [buf |-> buf, head |-> head, losses |-> more, lastLoss |-> now]
            BY <2>1, <2>3, <2>4
      <2> HIDE DEF p, t, more, now
      <2>6. Sound(p) /\ Holds(p, t, from) /\ Marked(p, t)
            BY <2>5, Parted
      <2> QED BY <2>2, <2>5, <2>6 DEF p, t
<1> QED BY <1>4, <1>5

\* push: what there is room for, and a gap if that is not all
LEMMA Pushed ==
    ASSUME NEW q, Sound(q),
           NEW s \in Seq(Item), NEW from \in Nat, Holds(q, s, from), Marked(q, s),
           NEW b \in Seq(Byte),
           NEW fit, fit = Fit(b, Capacity - Len(q.buf)),
           NEW t, t = IF fit = b THEN s \o b ELSE WithGap(s \o fit)
    PROVE  Sound(Push(q, b)) /\ t \in Seq(Item) /\ Holds(Push(q, b), t, from) /\ Marked(Push(q, b), t)
<1> USE CapacityAssumption
<1> DEFINE room == Capacity - Len(q.buf)
           p == [q EXCEPT !.buf = @ \o fit]
<1>1. room \in Nat
      <2>1. q.buf \in Seq(Byte) /\ Len(q.buf) <= Capacity
            BY DEF Sound, Queue
      <2> QED BY <2>1
<1>2. /\ fit \in Seq(Byte) /\ Len(fit) <= room
      /\ Len(b) <= room => fit = b
      /\ Len(b) > room => fit # b
      <2>1. fit = Fit(b, room)
            OBVIOUS
      <2> HIDE DEF room
      <2>2. /\ Fit(b, room) \in Seq(Byte) /\ Len(Fit(b, room)) <= room
            /\ Len(b) <= room => Fit(b, room) = b
            /\ Len(b) > room => Fit(b, room) # b
            BY <1>1, FitParts
      <2> QED BY <2>1, <2>2
<1>3. Push(q, b) = IF Len(b) > room THEN MarkLost(p) ELSE p
      BY DEF Push
<1>4. Sound(p) /\ s \o fit \in Seq(Item) /\ Holds(p, s \o fit, from) /\ Marked(p, s \o fit)
      BY <1>2, BytesQueued
<1> HIDE DEF p
<1>5. CASE Len(b) > room
      <2>1. Push(q, b) = MarkLost(p) /\ t = WithGap(s \o fit)
            BY <1>2, <1>3, <1>5
      <2> QED BY <2>1, <1>4, GapMarked
<1>6. CASE ~(Len(b) > room)
      <2>1. fit = b
            BY <1>1, <1>2, <1>6
      <2>2. Push(q, b) = p /\ t = s \o fit
            BY <2>1, <1>3, <1>6
      <2> QED BY <2>2, <1>4
<1> QED BY <1>5, <1>6

\* pop: the next items of what was put in
LEMMA Popped ==
    ASSUME NEW q, Sound(q), ~IsEmpty(q),
           NEW s \in Seq(Item), NEW from \in Nat, Holds(q, s, from), Marked(q, s)
    PROVE  /\ Sound(Pop(q).rest) /\ Pop(q).item \in Seq(Item)
           /\ Holds(Pop(q).rest, s, from + Len(Pop(q).item)) /\ Marked(Pop(q).rest, s)
           /\ \A k \in DOMAIN Pop(q).item : from + k \in DOMAIN s /\ Pop(q).item[k] = s[from + k]
<1>1. PICK buf \in Seq(Byte), head \in Nat, losses \in Seq(Nat), last \in Nat :
         q = [buf |-> buf, head |-> head, losses |-> losses, lastLoss |-> last]
      BY Whole
<1>2. /\ Parts(Len(buf), head, losses, last) /\ InPlace(buf, head, losses, s, from)
      /\ Ends(s, last = head + Len(buf) + 1)
      BY <1>1, Parted
<1>3. q.buf = buf /\ q.head = head /\ q.losses = losses
      BY <1>1
<1>4. CASE AtLoss(q)
      <2>1. losses # <<>> /\ losses[1] = head
            BY <1>3, <1>4 DEF AtLoss
      <2>2. /\ Pop(q).item = <<Lost>>
            /\ Pop(q).rest = [buf |-> buf, head |-> head, losses |-> Tail(losses), lastLoss |-> last]
            BY <1>1, <1>4 DEF Pop
      <2>3. /\ Parts(Len(buf), head, Tail(losses), last)
            /\ Tail(losses) \in Seq(Nat)
            /\ InPlace(buf, head, Tail(losses), s, from + 1)
            /\ from + 1 \in DOMAIN s /\ s[from + 1] = Lost
            BY <1>2, <2>1, MarkerTaken
      <2>4. <<Lost>> \in Seq(Item) /\ Len(<<Lost>>) = 1 /\ DOMAIN <<Lost>> = 1 .. 1 /\ <<Lost>>[1] = Lost
            BY DEF Item
      <2>5. /\ Sound(Pop(q).rest) /\ Marked(Pop(q).rest, s)
            /\ Holds(Pop(q).rest, s, from + 1)
            <3> DEFINE p == Pop(q).rest
                       less == Tail(losses)
            <3>1. /\ Parts(Len(buf), head, less, last) /\ less \in Seq(Nat)
                  /\ InPlace(buf, head, less, s, from + 1) /\ from + 1 \in Nat
                  /\ Ends(s, last = head + Len(buf) + 1)
                  /\ p = [buf |-> buf, head |-> head, losses |-> less, lastLoss |-> last]
                  BY <1>2, <2>2, <2>3
            <3> HIDE DEF p, less
            <3>2. Sound(p) /\ Holds(p, s, from + 1) /\ Marked(p, s)
                  BY <3>1, Parted
            <3> QED BY <3>2 DEF p
      <2> QED BY <2>2, <2>3, <2>4, <2>5
<1>5. CASE ~AtLoss(q)
      <2> DEFINE r == IF losses = <<>> THEN Len(buf) ELSE losses[1] - head
                 rest == SubSeq(buf, r + 1, Len(buf))
      <2>1. losses # <<>> => 1 \in 1 .. Len(losses) /\ losses[1] \in Nat
            OBVIOUS
      <2>2. r \in 0 .. Len(buf)
            <3>1. losses # <<>> => head <= losses[1] /\ losses[1] <= head + Len(buf)
                  BY <1>2, <2>1 DEF Parts
            <3> QED BY <2>1, <3>1
      <2>3. Clear(head, r, losses)
            <3>1. ASSUME NEW j \in 1 .. Len(losses)  PROVE  head + r <= losses[j]
                  <4>1. losses # <<>> /\ r = losses[1] - head /\ losses[j] \in Nat
                        BY <3>1
                  <4>2. head + r = losses[1]
                        BY <4>1, <2>1
                  <4>3. j = 1 \/ losses[1] < losses[j]
                        BY <1>2, <2>1, <4>1 DEF Parts
                  <4> QED BY <4>1, <4>2, <4>3, <2>1
            <3> QED BY <3>1 DEF Clear
      <2>4. Run(q) = SubSeq(buf, 1, r)
            <3>1. losses = <<>> => SubSeq(buf, 1, Len(buf)) = buf
                  BY SameItems
            <3> QED BY <1>3, <3>1 DEF Run
      <2> HIDE DEF r
      <2>5. /\ Run(q) \in Seq(Byte) /\ Len(Run(q)) = r
            /\ \A k \in 1 .. r : Run(q)[k] = buf[k]
            BY <2>2, <2>4
      <2>6. /\ Pop(q).item = Run(q)
            /\ Pop(q).rest = [buf |-> rest, head |-> head + r, losses |-> losses, lastLoss |-> last]
            BY <1>1, <1>5, <2>5 DEF Pop
      <2>7. rest \in Seq(Byte) /\ Left(rest, buf, r)
            BY <2>2 DEF Left
      <2> HIDE DEF rest
      <2>8. /\ Len(rest) = Len(buf) - r
            /\ Parts(Len(rest), head + r, losses, last)
            /\ InPlace(rest, head + r, losses, s, from + r)
            /\ Passed(buf, r, s, from)
            <3>1. /\ Parts(Len(rest), head + r, losses, last)
                  /\ InPlace(rest, head + r, losses, s, from + r)
                  /\ Passed(buf, r, s, from)
                  BY <1>2, <2>2, <2>3, <2>7, BytesTaken
            <3> QED BY <3>1, <2>7 DEF Left
      <2>9. head + r \in Nat /\ (head + r) + Len(rest) = head + Len(buf) /\ from + r \in Nat
            BY <2>2, <2>8
      <2>10. Sound(Pop(q).rest) /\ Marked(Pop(q).rest, s) /\ Holds(Pop(q).rest, s, from + r)
            <3> DEFINE p == Pop(q).rest
                       front == head + r
            <3>1. /\ Parts(Len(rest), front, losses, last) /\ rest \in Seq(Byte)
                  /\ InPlace(rest, front, losses, s, from + r) /\ from + r \in Nat /\ front \in Nat
                  /\ Ends(s, last = front + Len(rest) + 1)
                  /\ p = [buf |-> rest, head |-> front, losses |-> losses, lastLoss |-> last]
                  BY <1>2, <2>6, <2>8, <2>9, <2>7
            <3> HIDE DEF p, front
            <3>2. Sound(p) /\ Holds(p, s, from + r) /\ Marked(p, s)
                  BY <3>1, Parted
            <3> QED BY <3>2 DEF p
      <2>11. Byte \subseteq Item
            BY DEF Item
      <2>12. Run(q) \in Seq(Item)
            BY <2>5, <2>11, Widened
      <2>13. DOMAIN Run(q) = 1 .. r
            BY <2>5
      <2> QED BY <2>5, <2>6, <2>8, <2>10, <2>12, <2>13 DEF Passed
<1> QED BY <1>4, <1>5

-----------------------------------------------------------------------------
(* The inductive invariant *)

Types ==
    /\ next \in Byte /\ fifo \in Seq(Byte) /\ ring \in Seq(Byte)
    /\ pushed \in Seq(Item) /\ read \in Seq(Item)

Begins(s, t) == \A i \in DOMAIN s : i \in DOMAIN t /\ s[i] = t[i]

\* What was read is the first part of what was put in, what the queue holds the
\* rest.
Accounted ==
    /\ Sound(queue) /\ Marked(queue, pushed)
    /\ Begins(read, pushed) /\ Holds(queue, pushed, Len(read))

\* Bytes are in order on the whole way, and sent before the next.
Sent == Ordered(pushed \o (ring \o fifo), Place(next))

IInv == Types /\ Accounted /\ Sent

LEMMA Extended ==
    ASSUME NEW r \in Seq(Item), NEW s \in Seq(Item), NEW t \in Seq(Item), Begins(r, s)
    PROVE  Begins(r, s \o t)
<1>1. ASSUME NEW i \in DOMAIN r  PROVE  i \in DOMAIN (s \o t) /\ r[i] = (s \o t)[i]
      <2>1. i \in 1 .. Len(s) /\ r[i] = s[i]
            BY <1>1 DEF Begins
      <2>2. Len(s \o t) = Len(s) + Len(t) /\ DOMAIN (s \o t) = 1 .. Len(s) + Len(t)
            OBVIOUS
      <2>3. i \in DOMAIN (s \o t)
            BY <2>1, <2>2
      <2>4. (s \o t)[i] = s[i]
            BY <2>1, Joined
      <2> QED BY <2>1, <2>3, <2>4
<1> QED BY <1>1 DEF Begins

LEMMA GapAdded ==
    ASSUME NEW s \in Seq(Item)
    PROVE  \E gap \in {<<>>, <<Lost>>} : gap \in Seq(Item) /\ WithGap(s) = s \o gap
<1>1. Lost \in Item
      BY DEF Item
<1>2. CASE WithGap(s) = s
      <2>1. s \o <<>> = s /\ <<>> \in Seq(Item)
            OBVIOUS
      <2> QED BY <1>2, <2>1
<1>3. CASE WithGap(s) = Append(s, Lost)
      <2>1. s \o <<Lost>> = Append(s, Lost) /\ <<Lost>> \in Seq(Item)
            BY <1>1
      <2> QED BY <1>3, <2>1
<1> QED BY <1>2, <1>3 DEF WithGap

LEMMA Regrouped ==
    \A s, t, u \in Seq(Item) : (s \o t) \o u = s \o (t \o u)
BY Reordered

LEMMA ByteItems ==
    ASSUME NEW s \in Seq(Byte)
    PROVE  s \in Seq(Item)
<1>1. Byte \subseteq Item
      BY DEF Item
<1> QED BY <1>1, Widened

-----------------------------------------------------------------------------
(* The steps *)

LEMMA InitStep == Init => IInv
<1> SUFFICES ASSUME Init PROVE IInv
    OBVIOUS
<1> USE StreamAssumption, CapacityAssumption DEF Init
<1>1. Types
      BY DEF Types, Byte, Terminator
<1>2. Parts(0, 0, <<>>, 0) /\ InPlace(<<>>, 0, <<>>, <<>>, 0) /\ Ends(<<>>, 0 = 0 + 0 + 1)
      BY DEF Parts, InPlace, Ends
<1>3. /\ <<>> \in Seq(Byte) /\ <<>> \in Seq(Nat) /\ <<>> \in Seq(Item) /\ Len(<<>>) = 0
      /\ queue = [buf |-> <<>>, head |-> 0, losses |-> <<>>, lastLoss |-> 0]
      BY DEF NewQueue, NoLoss
<1>4. Sound(queue) /\ Holds(queue, <<>>, 0) /\ Marked(queue, <<>>)
      <2> DEFINE none == <<>>
      <2>1. /\ Parts(Len(none), 0, none, 0) /\ InPlace(none, 0, none, none, 0)
            /\ Ends(none, 0 = 0 + Len(none) + 1)
            /\ none \in Seq(Byte) /\ none \in Seq(Nat) /\ none \in Seq(Item)
            /\ queue = [buf |-> none, head |-> 0, losses |-> none, lastLoss |-> 0]
            BY <1>2, <1>3
      <2> HIDE DEF none
      <2>2. Sound(queue) /\ Holds(queue, none, 0) /\ Marked(queue, none)
            BY <2>1, Parted
      <2> QED BY <2>2 DEF none
<1>5. Accounted
      BY <1>3, <1>4 DEF Accounted, Begins
<1>6. pushed \o (ring \o fifo) = <<>>
      OBVIOUS
<1>7. Sent
      BY <1>6 DEF Sent, Ordered, InOrder, Before
<1> QED BY <1>1, <1>5, <1>7 DEF IInv

\* A step that leaves the pipe alone and keeps the order
LEMMA ArriveStep == IInv /\ Arrive => IInv'
<1> SUFFICES ASSUME IInv, Arrive PROVE IInv'
    OBVIOUS
<1> USE DEF IInv
<1>1. next' = After(next) /\ UNCHANGED <<ring, queue, pushed, read>>
      BY DEF Arrive
<1>2. Accounted'
      BY <1>1 DEF Accounted
<1> DEFINE stream == pushed \o (ring \o fifo)
<1>3. /\ ring \in Seq(Item) /\ fifo \in Seq(Item) /\ pushed \in Seq(Item) /\ stream \in Seq(Item)
      /\ next \in Byte /\ Place(next) \in Nat /\ After(next) \in Byte /\ Place(After(next)) = Place(next) + 1
      BY ByteItems, BytePlaces DEF Types
<1>4. CASE fifo' = Append(fifo, next)
      <2>1. next \in Item
            BY <1>3 DEF Item
      <2>2. pushed \o (ring \o Append(fifo, next)) = Append(stream, next)
            <3>1. ring \o Append(fifo, next) = Append(ring \o fifo, next)
                  BY <1>3, <2>1
            <3>2. \A t \in Seq(Item) : pushed \o Append(t, next) = Append(pushed \o t, next)
                  BY <1>3, <2>1
            <3>3. ring \o fifo \in Seq(Item)
                  BY <1>3
            <3> QED BY <3>1, <3>2, <3>3
      <2> HIDE DEF stream
      <2>3. Ordered(Append(stream, next), Place(After(next)))
            BY <1>3, OrderedNext DEF Sent, stream
      <2>4. Sent'
            BY <1>1, <1>4, <2>2, <2>3 DEF Sent
      <2>5. Types'
            BY <1>1, <1>3, <1>4 DEF Types
      <2> QED BY <1>2, <2>4, <2>5
<1>5. CASE fifo' = <<>>
      <2>1. stream = (pushed \o ring) \o (fifo \o <<>>)
            <3>1. fifo \o <<>> = fifo
                  BY <1>3
            <3>2. (pushed \o ring) \o fifo = pushed \o (ring \o fifo)
                  BY <1>3, Regrouped, ZenonT(60)
            <3> QED BY <3>1, <3>2, Zenon
      <2>2. <<>> \in Seq(Item) /\ pushed \o ring \in Seq(Item)
            BY <1>3
      <2>3. ((pushed \o ring) \o <<>>) \o <<>> = pushed \o (ring \o <<>>)
            BY <1>3
      <2> HIDE DEF stream
      <2>4. Ordered(((pushed \o ring) \o <<>>) \o <<>>, Place(next))
            <3>1. Ordered((pushed \o ring) \o (fifo \o <<>>), Place(next))
                  BY <2>1 DEF Sent, stream
            <3> QED BY <3>1, <1>3, <2>2, OrderedGap
      <2>5. pushed \o (ring \o <<>>) \in Seq(Item)
            BY <1>3
      <2>6. Ordered(pushed \o (ring \o <<>>), Place(After(next)))
            BY <1>3, <2>3, <2>4, <2>5, OrderedLater
      <2>7. Sent'
            BY <1>1, <1>5, <2>6 DEF Sent
      <2>8. Types'
            BY <1>1, <1>3, <1>5 DEF Types
      <2> QED BY <1>2, <2>7, <2>8
<1> QED BY <1>4, <1>5 DEF Arrive

LEMMA NoiseStep == IInv /\ Noise => IInv'
<1> SUFFICES ASSUME IInv, Noise PROVE IInv'
    OBVIOUS
<1> USE DEF IInv
<1>1. next' = After(next) /\ UNCHANGED <<fifo, ring, queue, pushed, read>>
      BY DEF Noise
<1>2. next \in Byte /\ Place(next) \in Nat /\ After(next) \in Byte /\ Place(After(next)) = Place(next) + 1
      BY BytePlaces DEF Types
<1>3. pushed \o (ring \o fifo) \in Seq(Item)
      BY ByteItems DEF Types
<1>4. Ordered(pushed \o (ring \o fifo), Place(After(next)))
      BY <1>2, <1>3, OrderedLater DEF Sent
<1> QED BY <1>1, <1>2, <1>4 DEF Types, Accounted, Sent

LEMMA InterruptStep == IInv /\ Interrupt => IInv'
<1> SUFFICES ASSUME IInv, Interrupt PROVE IInv'
    OBVIOUS
<1> USE DEF IInv
<1> DEFINE room == RING - Len(ring)
<1>1. /\ ring' = ring \o Fit(fifo, room) /\ fifo' = NoFit(fifo, room) /\ Len(ring) < RING
      /\ UNCHANGED <<next, queue, pushed, read>>
      BY DEF Interrupt
<1>2. room \in Nat /\ fifo \in Seq(Byte) /\ ring \in Seq(Byte)
      BY <1>1, RoomAssumption DEF Types
<1> HIDE DEF room
<1>3. /\ Fit(fifo, room) \in Seq(Byte) /\ NoFit(fifo, room) \in Seq(Byte)
      /\ Fit(fifo, room) \o NoFit(fifo, room) = fifo
      BY <1>2, FitParts
<1>4. ring' \o fifo' = ring \o fifo
      <2> DEFINE moved == Fit(fifo, room)
                 kept == NoFit(fifo, room)
      <2>1. ring \in Seq(Item) /\ moved \in Seq(Item) /\ kept \in Seq(Item)
            BY <1>2, <1>3, ByteItems, Zenon
      <2>2. ring' = ring \o moved /\ fifo' = kept /\ moved \o kept = fifo
            BY <1>1, <1>3
      <2> HIDE DEF moved, kept
      <2>3. (ring \o moved) \o kept = ring \o (moved \o kept)
            BY <2>1, Regrouped, ZenonT(60)
      <2> QED BY <2>2, <2>3, Zenon
<1>5. ring' \in Seq(Byte) /\ fifo' \in Seq(Byte)
      BY <1>1, <1>2, <1>3
<1> QED BY <1>1, <1>4, <1>5 DEF Types, Accounted, Sent

LEMMA DrainSomeStep == IInv /\ DrainSome => IInv'
<1> SUFFICES ASSUME IInv, DrainSome PROVE IInv'
    OBVIOUS
<1> USE DEF IInv
<1> DEFINE bytes == Fit(ring, BUF)
           rest == NoFit(ring, BUF)
           room == Capacity - Len(queue.buf)
           fit == Fit(bytes, room)
           dropped == NoFit(bytes, room)
           more == IF fit = bytes THEN pushed \o bytes ELSE WithGap(pushed \o fit)
<1>1. /\ ring' = rest /\ queue' = Push(queue, bytes) /\ pushed' = more
      /\ UNCHANGED <<next, fifo, read>>
      BY DEF DrainSome
<1>2. /\ BUF \in Nat /\ fifo \in Seq(Byte) /\ ring \in Seq(Byte)
      /\ pushed \in Seq(Item) /\ read \in Seq(Item) /\ next \in Byte
      BY RoomAssumption DEF Types
<1>3. room \in Nat
      <2>1. queue.buf \in Seq(Byte) /\ Len(queue.buf) <= Capacity
            BY DEF Accounted, Sound, Queue
      <2> QED BY <2>1, CapacityAssumption
<1>4. /\ bytes \in Seq(Byte) /\ rest \in Seq(Byte) /\ bytes \o rest = ring
      BY <1>2, FitParts
<1>5. fit = Fit(bytes, Capacity - Len(queue.buf))
      OBVIOUS
<1>6. more = IF fit = bytes THEN pushed \o bytes ELSE WithGap(pushed \o fit)
      OBVIOUS
<1> HIDE DEF bytes, rest, room
<1>7. /\ fit \in Seq(Byte) /\ dropped \in Seq(Byte) /\ fit \o dropped = bytes
      BY <1>3, <1>4, FitParts
<1> HIDE DEF fit, dropped, more
<1>8. Len(read) \in Nat
      BY <1>2
<1>9. Sound(Push(queue, bytes)) /\ more \in Seq(Item) /\ Holds(Push(queue, bytes), more, Len(read)) /\ Marked(Push(queue, bytes), more)
      BY <1>2, <1>4, <1>5, <1>6, <1>8, Pushed DEF Accounted
<1>10. /\ bytes \in Seq(Item) /\ rest \in Seq(Item) /\ fit \in Seq(Item) /\ dropped \in Seq(Item) /\ fifo \in Seq(Item)
       /\ rest \o fifo \in Seq(Item)
      <2>1. /\ bytes \in Seq(Item) /\ rest \in Seq(Item) /\ fit \in Seq(Item) /\ dropped \in Seq(Item) /\ fifo \in Seq(Item)
            BY <1>2, <1>4, <1>7, ByteItems
      <2> QED BY <2>1
<1>11. pushed \o (ring \o fifo) = pushed \o (bytes \o (rest \o fifo))
      <2>1. (bytes \o rest) \o fifo = bytes \o (rest \o fifo)
            BY <1>10, Regrouped, ZenonT(60)
      <2> QED BY <1>4, <2>1, Zenon
<1>12. bytes \o (rest \o fifo) = fit \o (dropped \o (rest \o fifo))
      <2>1. fit \in Seq(Item) /\ dropped \in Seq(Item) /\ rest \o fifo \in Seq(Item)
            BY <1>10
      <2>2. (fit \o dropped) \o (rest \o fifo) = fit \o (dropped \o (rest \o fifo))
            BY <2>1, Regrouped, ZenonT(60)
      <2>3. fit \o dropped = bytes
            BY <1>7
      <2> QED BY <2>2, <2>3
<1>13. Begins(read, more) /\ Ordered(more \o (rest \o fifo), Place(next))
      <2>1. CASE fit = bytes
            <3>1. more = pushed \o bytes
                  BY <1>6, <2>1
            <3>2. more \o (rest \o fifo) = pushed \o (bytes \o (rest \o fifo))
                  <4>1. (pushed \o bytes) \o (rest \o fifo) = pushed \o (bytes \o (rest \o fifo))
                        BY <1>2, <1>10, Regrouped, ZenonT(60)
                  <4> QED BY <3>1, <4>1, Zenon
            <3>3. Begins(read, more)
                  BY <3>1, <1>2, <1>10, Extended DEF Accounted
            <3> QED BY <3>2, <3>3, <1>11 DEF Sent
      <2>2. CASE fit # bytes
            <3>1. pushed \o fit \in Seq(Item)
                  BY <1>2, <1>10
            <3>2. PICK gap \in {<<>>, <<Lost>>} : gap \in Seq(Item) /\ WithGap(pushed \o fit) = (pushed \o fit) \o gap
                  BY <3>1, GapAdded
            <3>3. more = (pushed \o fit) \o gap
                  BY <1>6, <2>2, <3>2
            <3>4. dropped \o (rest \o fifo) \in Seq(Item)
                  BY <1>10
            <3>5. pushed \o (fit \o (dropped \o (rest \o fifo))) = (pushed \o fit) \o (dropped \o (rest \o fifo))
                  BY <1>2, <1>10, <3>4, Regrouped, ZenonT(60)
            <3>6. Ordered((pushed \o fit) \o (dropped \o (rest \o fifo)), Place(next))
                  BY <1>11, <1>12, <3>5 DEF Sent
            <3>7. Place(next) \in Nat
                  BY <1>2, BytePlaces
            <3>8. Ordered(((pushed \o fit) \o gap) \o (rest \o fifo), Place(next))
                  BY <3>1, <3>6, <3>7, <1>10, OrderedGap
            <3>9. Begins(read, pushed \o fit)
                  BY <1>2, <1>10, Extended DEF Accounted
            <3>10. Begins(read, (pushed \o fit) \o gap)
                  BY <3>1, <3>2, <3>9, <1>2, Extended
            <3> QED BY <3>3, <3>8, <3>10
      <2> QED BY <2>1, <2>2
<1>14. Types'
      BY <1>1, <1>2, <1>4, <1>9 DEF Types
<1>15. Accounted'
      BY <1>1, <1>9, <1>13 DEF Accounted
<1>16. Sent'
      BY <1>1, <1>13 DEF Sent
<1> QED BY <1>14, <1>15, <1>16

LEMMA MarkStep == IInv /\ Mark => IInv'
<1> SUFFICES ASSUME IInv, Mark PROVE IInv'
    OBVIOUS
<1> USE DEF IInv
<1>1. UNCHANGED <<next, fifo, ring, read>>
      BY DEF Mark
<1>2. /\ fifo \in Seq(Item) /\ ring \in Seq(Item) /\ ring \o fifo \in Seq(Item)
      /\ pushed \in Seq(Item) /\ read \in Seq(Item) /\ Len(read) \in Nat /\ Place(next) \in Nat
      BY ByteItems, BytePlaces DEF Types
<1>3. CASE reader.lost
      <2>1. queue' = MarkLost(queue) /\ pushed' = WithGap(pushed)
            BY <1>3 DEF Mark
      <2>2. Sound(queue') /\ pushed' \in Seq(Item) /\ Holds(queue', pushed', Len(read)) /\ Marked(queue', pushed')
            BY <1>2, <2>1, GapMarked DEF Accounted
      <2>3. PICK gap \in {<<>>, <<Lost>>} : gap \in Seq(Item) /\ WithGap(pushed) = pushed \o gap
            BY <1>2, GapAdded
      <2>4. Begins(read, pushed \o gap)
            BY <1>2, <2>3, Extended DEF Accounted
      <2>5. Ordered((pushed \o gap) \o (ring \o fifo), Place(next))
            <3>1. <<>> \in Seq(Item) /\ <<>> \o (ring \o fifo) = ring \o fifo
                  BY <1>2
            <3>2. Ordered(pushed \o (<<>> \o (ring \o fifo)), Place(next))
                  BY <3>1 DEF Sent
            <3> QED BY <1>2, <3>1, <3>2, OrderedGap
      <2> QED BY <1>1, <2>1, <2>2, <2>3, <2>4, <2>5 DEF Types, Accounted, Sent
<1>4. CASE ~reader.lost
      <2>1. queue' = queue /\ pushed' = pushed
            BY <1>4 DEF Mark
      <2> QED BY <1>1, <2>1 DEF Types, Accounted, Sent
<1> QED BY <1>3, <1>4

LEMMA ReadStep == IInv /\ Read => IInv'
<1> SUFFICES ASSUME IInv, Read PROVE IInv'
    OBVIOUS
<1> USE DEF IInv
<1> DEFINE item == Pop(queue).item
<1>1. /\ ~IsEmpty(queue) /\ queue' = Pop(queue).rest /\ read' = read \o item
      /\ UNCHANGED <<next, fifo, ring, pushed>>
      BY DEF Read
<1>2. pushed \in Seq(Item) /\ read \in Seq(Item) /\ Len(read) \in Nat
      BY DEF Types
<1>3. /\ Sound(queue') /\ item \in Seq(Item)
      /\ Holds(queue', pushed, Len(read) + Len(item)) /\ Marked(queue', pushed)
      /\ \A k \in DOMAIN item : Len(read) + k \in DOMAIN pushed /\ item[k] = pushed[Len(read) + k]
      BY <1>1, <1>2, Popped DEF Accounted
<1> HIDE DEF item
<1>4. read' \in Seq(Item) /\ Len(read') = Len(read) + Len(item) /\ DOMAIN read' = 1 .. Len(read) + Len(item)
      BY <1>1, <1>2, <1>3
<1>5. ASSUME NEW i \in DOMAIN read'  PROVE  i \in DOMAIN pushed /\ read'[i] = pushed[i]
      <2>1. CASE i \in 1 .. Len(read)
            <3>1. read'[i] = read[i]
                  BY <2>1, <1>1, <1>2, <1>3, Joined
            <3>2. i \in DOMAIN read
                  BY <2>1, <1>2
            <3> QED BY <3>1, <3>2 DEF Accounted, Begins
      <2>2. CASE i \in Len(read) + 1 .. Len(read) + Len(item)
            <3>1. read'[i] = item[i - Len(read)]
                  BY <2>2, <1>1, <1>2, <1>3, Joined
            <3>2. i - Len(read) \in DOMAIN item /\ Len(read) + (i - Len(read)) = i
                  BY <2>2, <1>2, <1>3
            <3> QED BY <3>1, <3>2, <1>3
      <2> QED BY <2>1, <2>2, <1>2, <1>3, <1>4
<1>6. Begins(read', pushed)
      BY <1>5 DEF Begins
<1> QED BY <1>1, <1>3, <1>4, <1>6 DEF Types, Accounted, Sent

LEMMA NextStep == IInv /\ [Next]_vars => IInv'
<1> SUFFICES ASSUME IInv, [Next]_vars PROVE IInv'
    OBVIOUS
<1>1. CASE Arrive
      BY <1>1, ArriveStep
<1>2. CASE Noise
      BY <1>2, NoiseStep
<1>3. CASE Interrupt
      BY <1>3, InterruptStep
<1>4. CASE DrainSome
      BY <1>4, DrainSomeStep
<1>5. CASE Mark
      BY <1>5, MarkStep
<1>6. CASE Read
      BY <1>6, ReadStep
<1>7. CASE TakeEvent \/ DrainFails \/ Drained \/ UNCHANGED vars
      <2>1. UNCHANGED <<next, fifo, ring, queue, pushed, read>>
            BY <1>7 DEF TakeEvent, DrainFails, Drained, vars
      <2> QED BY <2>1 DEF IInv, Types, Accounted, Sent
<1> QED BY <1>1, <1>2, <1>3, <1>4, <1>5, <1>6, <1>7 DEF Next

LEMMA Promised == IInv => StreamTrue
<1> SUFFICES ASSUME IInv PROVE StreamTrue
    OBVIOUS
<1> USE DEF IInv
<1>1. read \in Seq(Item) /\ pushed \in Seq(Item) /\ Begins(read, pushed)
      BY DEF Types, Accounted
<1>2. Len(read) <= Len(pushed)
      <2>1. CASE Len(read) = 0
            BY <2>1, <1>1
      <2>2. CASE Len(read) > 0
            <3>1. Len(read) \in DOMAIN read
                  BY <2>2, <1>1
            <3> QED BY <3>1, <1>1 DEF Begins
      <2> QED BY <2>1, <2>2, <1>1
<1>3. SubSeq(read, 1, Len(read)) = SubSeq(pushed, 1, Len(read))
      <2>1. /\ SubSeq(read, 1, Len(read)) \in Seq(Item) /\ Len(SubSeq(read, 1, Len(read))) = Len(read)
            /\ \A i \in 1 .. Len(read) : SubSeq(read, 1, Len(read))[i] = read[i]
            BY <1>1
      <2>2. /\ SubSeq(pushed, 1, Len(read)) \in Seq(Item) /\ Len(SubSeq(pushed, 1, Len(read))) = Len(read)
            /\ \A i \in 1 .. Len(read) : SubSeq(pushed, 1, Len(read))[i] = pushed[i]
            BY <1>1, <1>2
      <2>3. \A i \in 1 .. Len(read) : read[i] = pushed[i]
            BY <1>1 DEF Begins
      <2> QED BY <2>1, <2>2, <2>3, SameItems
<1>4. IsPrefix(read, pushed)
      BY <1>2, <1>3 DEF IsPrefix
<1> QED BY <1>4 DEF StreamTrue, Accounted, Sent, Ordered

\* The queue passes on what was put into it, each byte once and in order, with one
\* marker exactly where bytes were dropped or a loss was noted; and no byte is
\* repeated or overtaken between the modem and the layer above.
THEOREM StreamAlwaysTrue == Spec => []StreamTrue
<1>1. Init => IInv
      BY InitStep
<1>2. IInv /\ [Next]_vars => IInv'
      BY NextStep
<1>3. IInv => StreamTrue
      BY Promised
<1> QED BY <1>1, <1>2, <1>3, PTL DEF Spec
=============================================================================
