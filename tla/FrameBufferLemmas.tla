------------------------- MODULE FrameBufferLemmas -------------------------
(***************************************************************************)
(* Facts about the framebuffer's boxes and operations, for every screen    *)
(* size, which the proofs about FrameBufferSpec and DisplayService cite.   *)
(***************************************************************************)
EXTENDS FrameBuffer, WellFoundedInduction, TLAPS

-----------------------------------------------------------------------------
(* Boxes *)

\* A set of numbers that is not empty has a least element.
LEMMA Least ==
    ASSUME NEW S \in SUBSET Nat, S # {}
    PROVE  \E m \in S : \A k \in S : m <= k
<1>1. PICK m \in S : \A k \in S : <<k, m>> \notin OpToRel(<, Nat)
      BY WFMin, NatLessThanWellFounded, Zenon
<1>2. \A k \in S : ~(k < m)
      BY <1>1, Zenon DEF OpToRel
<1> QED BY <1>2

\* A set of numbers below a bound has a greatest element.
LEMMA Greatest ==
    ASSUME NEW N \in Nat, NEW S \in SUBSET (0 .. N), S # {}
    PROVE  \E m \in S : \A k \in S : k <= m
<1> DEFINE T == {N - k : k \in S}
<1>1. T \in SUBSET Nat /\ T # {}
      OBVIOUS
<1>2. PICK t \in T : \A k \in T : t <= k
      BY <1>1, Least
<1>3. PICK m \in S : t = N - m
      OBVIOUS
<1>4. \A k \in S : N - m <= N - k
      BY <1>2, <1>3
<1> QED BY <1>4

\* The box around some cells holds them, and each of its edges has one of them.
LEMMA AroundSome ==
    ASSUME NEW S \in SUBSET Cells, S # {}
    PROVE  /\ Around(S) \in Box
           /\ S \subseteq Inside(Around(S))
           /\ \A e \in {Around(S).x0, Around(S).x1 - 1} : \E c \in S : c[1] = e
           /\ \A e \in {Around(S).y0, Around(S).y1 - 1} : \E c \in S : c[2] = e
<1> USE SizeAssumption
<1> DEFINE Xs == {c[1] : c \in S}
           Ys == {c[2] : c \in S}
<1>1. Xs \in SUBSET (0 .. BYTES_PER_ROW - 1) /\ Xs # {}
      BY DEF Cells
<1>2. Ys \in SUBSET (0 .. HEIGHT - 1) /\ Ys # {}
      BY DEF Cells
<1>3. PICK x0 \in Xs : \A x \in Xs : x0 <= x
      <2>1. Xs \in SUBSET Nat  BY <1>1
      <2> HIDE DEF Xs
      <2> QED BY <1>1, <2>1, Least
<1>4. PICK y0 \in Ys : \A y \in Ys : y0 <= y
      <2>1. Ys \in SUBSET Nat  BY <1>2
      <2> HIDE DEF Ys
      <2> QED BY <1>2, <2>1, Least
<1>5. PICK xm \in Xs : \A x \in Xs : x <= xm
      <2> HIDE DEF Xs
      <2> QED BY <1>1, Greatest, BYTES_PER_ROW - 1 \in Nat
<1>6. PICK ym \in Ys : \A y \in Ys : y <= ym
      <2> HIDE DEF Ys
      <2> QED BY <1>2, Greatest, HEIGHT - 1 \in Nat
<1> DEFINE b == [x0 |-> x0, y0 |-> y0, x1 |-> xm + 1, y1 |-> ym + 1]
<1>7. b \in Box
      <2>1. /\ x0 \in 0 .. BYTES_PER_ROW - 1 /\ xm \in 0 .. BYTES_PER_ROW - 1
            /\ y0 \in 0 .. HEIGHT - 1 /\ ym \in 0 .. HEIGHT - 1
            <3> HIDE DEF Xs, Ys
            <3> QED BY <1>1, <1>2
      <2> HIDE DEF Xs, Ys
      <2> QED BY <2>1 DEF Box
<1>8. S \subseteq Inside(b)
      <2> SUFFICES ASSUME NEW c \in S PROVE c \in Inside(b)
          OBVIOUS
      <2>1. c \in Cells /\ c[1] \in Xs /\ c[2] \in Ys
            OBVIOUS
      <2>2. x0 <= c[1] /\ c[1] <= xm /\ y0 <= c[2] /\ c[2] <= ym
            BY <2>1, <1>3, <1>4, <1>5, <1>6
      <2>3. c[1] \in Nat /\ c[2] \in Nat /\ xm \in Nat /\ ym \in Nat
            BY <2>1, <1>1, <1>2
      <2> QED BY <2>1, <2>2, <2>3 DEF Inside
<1>9. /\ \A e \in {b.x0, b.x1 - 1} : \E c \in S : c[1] = e
      /\ \A e \in {b.y0, b.y1 - 1} : \E c \in S : c[2] = e
      <2>1. (\E c \in S : c[1] = x0) /\ (\E c \in S : c[1] = xm)
            OBVIOUS
      <2>2. (\E c \in S : c[2] = y0) /\ (\E c \in S : c[2] = ym)
            OBVIOUS
      <2>3. xm \in Nat /\ ym \in Nat
            <3> HIDE DEF Xs, Ys
            <3> QED BY <1>1, <1>2
      <2>4. b.x0 = x0 /\ b.x1 - 1 = xm /\ b.y0 = y0 /\ b.y1 - 1 = ym
            BY <2>3
      <2> HIDE DEF b, Xs, Ys
      <2> QED BY <2>1, <2>2, <2>4
<1> HIDE DEF b
<1>10. \E box \in Box :
          /\ S \subseteq Inside(box)
          /\ \A e \in {box.x0, box.x1 - 1} : \E c \in S : c[1] = e
          /\ \A e \in {box.y0, box.y1 - 1} : \E c \in S : c[2] = e
       BY <1>7, <1>8, <1>9
<1> QED BY <1>10 DEF Around
-----------------------------------------------------------------------------
(* The operations, field by field *)

\* Every box there is covers something.
LEMMA NoBoxIsNone == NoBox \notin Box /\ Inside(NoBox) = {}
<1>1. NoBox \notin Box
      BY DEF NoBox, Box
<1>2. \A c \in Cells : c[1] \in Nat
      BY SizeAssumption DEF Cells
<1>3. Inside(NoBox) = {}
      BY <1>2 DEF NoBox, Inside
<1> QED BY <1>1, <1>3

\* Nothing changed, no box; something changed, a box around it.
LEMMA AroundAny ==
    ASSUME NEW S \in SUBSET Cells
    PROVE  /\ Around(S) \in Box \cup {NoBox}
           /\ Around(S) = NoBox <=> S = {}
           /\ S \subseteq Inside(Around(S))
<1>1. CASE S = {}
      BY <1>1 DEF Around
<1>2. CASE S # {}
      BY <1>2, AroundSome, NoBoxIsNone
<1> QED BY <1>1, <1>2

\* The joined box holds both boxes.
LEMMA JoinedHolds ==
    ASSUME NEW a \in Box \cup {NoBox}, NEW b \in Box
    PROVE  /\ Joined(a, b) \in Box
           /\ Inside(a) \subseteq Inside(Joined(a, b))
           /\ Inside(b) \subseteq Inside(Joined(a, b))
<1> USE SizeAssumption
<1>1. CASE a = NoBox
      BY <1>1, NoBoxIsNone DEF Joined
<1>2. CASE a # NoBox
      <2>1. a \in Box
            BY <1>2
      <2> DEFINE j == [x0 |-> Lesser(a.x0, b.x0), y0 |-> Lesser(a.y0, b.y0),
                       x1 |-> Greater(a.x1, b.x1), y1 |-> Greater(a.y1, b.y1)]
      <2>2. Joined(a, b) = j
            BY <1>2 DEF Joined
      <2>3. /\ a.x0 \in Nat /\ a.y0 \in Nat /\ a.x1 \in Nat /\ a.y1 \in Nat
            /\ b.x0 \in Nat /\ b.y0 \in Nat /\ b.x1 \in Nat /\ b.y1 \in Nat
            BY <2>1 DEF Box
      <2>4. j \in Box
            BY <2>1 DEF Box, Lesser, Greater
      <2>5. \A c \in Cells : c[1] \in Nat /\ c[2] \in Nat
            BY DEF Cells
      <2>6. /\ j.x0 <= a.x0 /\ j.y0 <= a.y0 /\ a.x1 <= j.x1 /\ a.y1 <= j.y1
            /\ j.x0 <= b.x0 /\ j.y0 <= b.y0 /\ b.x1 <= j.x1 /\ b.y1 <= j.y1
            BY <2>3 DEF Lesser, Greater
      <2>7. j.x0 \in Nat /\ j.y0 \in Nat /\ j.x1 \in Nat /\ j.y1 \in Nat
            BY <2>4 DEF Box
      <2> HIDE DEF j
      <2>8. Inside(a) \subseteq Inside(j) /\ Inside(b) \subseteq Inside(j)
            BY <2>3, <2>5, <2>6, <2>7 DEF Inside
      <2> QED BY <2>2, <2>4, <2>8
<1> QED BY <1>1, <1>2

\* The screen's box holds every cell.
LEMMA ScreenHoldsAll == Screen \in Box /\ Inside(Screen) = Cells
<1> USE SizeAssumption
<1>1. Screen \in Box
      BY DEF Screen, Box
<1>2. Inside(Screen) = Cells
      BY DEF Screen, Inside, Cells
<1> QED BY <1>1, <1>2

\* `image` put over an image is an image.
LEMMA OverlayType ==
    ASSUME NEW under \in Image, NEW flush, flush.data \in Image
    PROVE  Overlay(under, flush) \in Image
BY DEF Overlay, Image

\* What is in the struct.
LEMMA Fields ==
    ASSUME NEW f \in FrameBufferType
    PROVE  /\ f.desired \in Image /\ f.committed \in Image
           /\ f.dirty \in Box \cup {NoBox} /\ f.known \in BOOLEAN
           /\ f.flight \in Flush
           /\ f.flight.kind \in {"None", "Full", "Partial"} /\ f.flight.data \in Image
           /\ Flushing(f) <=> f.flight.kind # "None"
           /\ ~Flushing(f) => f.flight = NoFlush
           /\ Flushing(f) => f.flight.box \in Box
<1>1. Blank \in Image
      BY DEF Blank, Image, Ink
<1> QED BY <1>1 DEF FrameBufferType, Flush, Flushing, NoFlush

-----------------------------------------------------------------------------
(* What the struct says of the image                                       *)

\* With the contents known, what the panel will show once the flush in flight
\* is done differs from `desired` only inside the dirty box.
Accounted(f) == f.known =>
    LET after == IF Flushing(f) THEN Overlay(f.committed, f.flight) ELSE f.committed IN
    \A c \in Cells : f.desired[c] # after[c] => c \in Inside(f.dirty)

\* While a full flush is in flight the contents are unknown, the flush covers
\* the screen, and what was drawn since is in the dirty box: why the contents
\* can be taken as known once the flush succeeds.
FullCovers(f) == f.flight.kind = "Full" =>
    /\ ~f.known
    /\ f.flight.box = Screen
    /\ \A c \in Cells : f.desired[c] # f.flight.data[c] => c \in Inside(f.dirty)

Sound(f) == f \in FrameBufferType /\ Accounted(f) /\ FullCovers(f)

\* A new buffer holds an image, of unknown contents.
LEMMA NewSound ==
    /\ Sound(NewBuffer)
    /\ NewBuffer.known = FALSE /\ NewBuffer.flight = NoFlush /\ NoFlush.kind = "None"
<1>1. Blank \in Image
      BY DEF Blank, Image, Ink
<1>2. NewBuffer \in FrameBufferType
      BY <1>1 DEF NewBuffer, FrameBufferType, Flush
<1> QED BY <1>2 DEF NewBuffer, NoFlush, Sound, Accounted, FullCovers

\* A drawing call, whatever is in flight, changes `desired` only where it marks
\* it dirty.
LEMMA DrawnSound ==
    ASSUME NEW f, Sound(f), NEW b \in Box, NEW image \in Image
    PROVE  LET g == Drawn(f, b, image) IN
           /\ Sound(g)
           /\ g.committed = f.committed /\ g.known = f.known /\ g.flight = f.flight
           /\ g.desired = [c \in Cells |-> IF c \in Inside(b) THEN image[c] ELSE f.desired[c]]
<1> DEFINE painted == [c \in Cells |-> IF c \in Inside(b) THEN image[c] ELSE f.desired[c]]
           g == Drawn(f, b, image)
<1>1. f \in FrameBufferType
      BY DEF Sound
<1>2. /\ g.desired = painted /\ g.dirty = Joined(f.dirty, b)
      /\ g.committed = f.committed /\ g.known = f.known /\ g.flight = f.flight
      /\ g = [f EXCEPT !.desired = painted, !.dirty = Joined(f.dirty, b)]
      BY <1>1 DEF Drawn, FrameBufferType
<1>3. painted \in Image
      BY <1>1, Fields DEF Image
<1>4. \A c \in Cells : painted[c] # f.desired[c] => c \in Inside(b)
      OBVIOUS
<1>5. /\ Joined(f.dirty, b) \in Box
      /\ Inside(f.dirty) \subseteq Inside(Joined(f.dirty, b))
      /\ Inside(b) \subseteq Inside(Joined(f.dirty, b))
      BY <1>1, Fields, JoinedHolds
<1> HIDE DEF painted, g
<1>6. g \in FrameBufferType
      BY <1>1, <1>2, <1>3, <1>5 DEF FrameBufferType
<1>7. Accounted(g)
      BY <1>2, <1>4, <1>5 DEF Sound, Accounted, Flushing
<1>8. FullCovers(g)
      BY <1>2, <1>4, <1>5 DEF Sound, FullCovers
<1> QED BY <1>2, <1>6, <1>7, <1>8 DEF Sound, g, painted

\* invalidate() forgets what the panel shows and nothing else.
LEMMA InvalidatedSound ==
    ASSUME NEW f, Sound(f)
    PROVE  LET g == Invalidated(f) IN
           /\ Sound(g)
           /\ g.committed = f.committed /\ g.known = FALSE /\ g.flight = f.flight
           /\ g.desired = f.desired
<1> DEFINE g == Invalidated(f)
<1>1. f \in FrameBufferType
      BY DEF Sound
<1>2. /\ g.desired = f.desired /\ g.dirty = f.dirty /\ g.committed = f.committed
      /\ g.known = FALSE /\ g.flight = f.flight
      /\ g \in FrameBufferType
      BY <1>1 DEF Invalidated, FrameBufferType
<1> HIDE DEF g
<1>3. Accounted(g) /\ FullCovers(g)
      BY <1>2 DEF Sound, Accounted, FullCovers
<1> QED BY <1>2, <1>3 DEF Sound, g

\* begin_flush with the contents known sends the tight box around what differs,
\* or nothing if nothing does.
LEMMA FlushOfKnown ==
    ASSUME NEW f, Sound(f), ~Flushing(f), f.known
    PROVE  \/ /\ FlushOf(f) = NoFlush
              /\ \A c \in Cells : f.desired[c] = f.committed[c]
           \/ \E b \in Box :
              /\ FlushOf(f) = Partial(b, f.desired)
              /\ \A c \in Cells : f.desired[c] # f.committed[c] => c \in Inside(b)
              /\ \A x \in {b.x0, b.x1 - 1} : \E c \in Inside(b) :
                    c[1] = x /\ f.desired[c] # f.committed[c]
              /\ \A y \in {b.y0, b.y1 - 1} : \E c \in Inside(b) :
                    c[2] = y /\ f.desired[c] # f.committed[c]
<1> DEFINE changed == {c \in Inside(f.dirty) : f.desired[c] # f.committed[c]}
           b == Around(changed)
<1>1. changed \in SUBSET Cells
      BY DEF Inside
<1>2. \A c \in Cells : f.desired[c] # f.committed[c] => c \in changed
      BY DEF Sound, Accounted
<1>3. FlushOf(f) = IF b = NoBox THEN NoFlush ELSE Partial(b, f.desired)
      BY DEF FlushOf, ChangedWithin
<1>4. CASE changed = {}
      BY <1>1, <1>2, <1>3, <1>4, AroundAny
<1>5. CASE changed # {}
      <2>1. \A c \in changed : f.desired[c] # f.committed[c]
            OBVIOUS
      <2> HIDE DEF changed
      <2>2. b \in Box /\ b # NoBox /\ changed \subseteq Inside(b)
            BY <1>1, <1>5, AroundSome, NoBoxIsNone
      <2>3. /\ \A e \in {b.x0, b.x1 - 1} : \E c \in changed : c[1] = e
            /\ \A e \in {b.y0, b.y1 - 1} : \E c \in changed : c[2] = e
            BY <1>1, <1>5, AroundSome
      <2> HIDE DEF b
      <2> QED BY <1>2, <1>3, <2>1, <2>2, <2>3
<1> QED BY <1>4, <1>5

\* A flush takes along everything that differs; if it sends nothing, nothing
\* does.
LEMMA BegunSound ==
    ASSUME NEW f, Sound(f)
    PROVE  LET g == Begun(f) IN
           /\ Sound(g)
           /\ g.committed = f.committed /\ g.known = f.known /\ g.desired = f.desired
           /\ Flushing(f) => g = f /\ FlushOf(f) = NoFlush
           /\ ~Flushing(f) => g.flight = FlushOf(f) /\ g.dirty = NoBox
           /\ ~Flushing(g) => g.known
<1> DEFINE g == Begun(f)
<1>1. f \in FrameBufferType
      BY DEF Sound
<1>2. CASE Flushing(f)
      <2>1. g = f /\ FlushOf(f) = NoFlush
            BY <1>2 DEF Begun, FlushOf
      <2> QED BY <1>2, <2>1
<1>3. CASE ~Flushing(f)
      <2>1. /\ g = [f EXCEPT !.dirty = NoBox, !.flight = FlushOf(f)]
            /\ g.desired = f.desired /\ g.dirty = NoBox /\ g.committed = f.committed
            /\ g.known = f.known /\ g.flight = FlushOf(f)
            BY <1>1, <1>3 DEF Begun, FrameBufferType
      <2> HIDE DEF g
      <2>2. CASE ~f.known
            <3>1. FlushOf(f) = Full(f.desired)
                  BY <1>3, <2>2 DEF FlushOf
            <3>2. /\ g.flight.kind = "Full" /\ g.flight.box = Screen
                  /\ g.flight.data = f.desired
                  BY <2>1, <3>1 DEF Full
            <3>3. FlushOf(f) \in Flush
                  BY <3>1, <1>1, Fields, ScreenHoldsAll DEF Full, Flush
            <3>4. g \in FrameBufferType
                  BY <1>1, <2>1, <3>3 DEF FrameBufferType
            <3>5. Accounted(g) /\ FullCovers(g)
                  BY <2>1, <2>2, <3>2 DEF Accounted, FullCovers
            <3>6. Flushing(g)
                  BY <3>2 DEF Flushing, NoFlush
            <3> QED BY <1>3, <2>1, <3>4, <3>5, <3>6 DEF Sound, g
      <2>3. CASE f.known
            <3>1. CASE FlushOf(f) = NoFlush /\ \A c \in Cells : f.desired[c] = f.committed[c]
                  <4>1. g.flight.kind = "None" /\ ~Flushing(g)
                        BY <2>1, <3>1 DEF NoFlush, Flushing
                  <4>2. g \in FrameBufferType
                        BY <1>1, <2>1, <3>1 DEF FrameBufferType, Flush
                  <4>3. Accounted(g) /\ FullCovers(g)
                        BY <2>1, <3>1, <4>1 DEF Accounted, FullCovers
                  <4> QED BY <1>3, <2>1, <2>3, <4>2, <4>3 DEF Sound, g
            <3>2. ASSUME NEW b \in Box, FlushOf(f) = Partial(b, f.desired),
                         \A c \in Cells : f.desired[c] # f.committed[c] => c \in Inside(b)
                  PROVE  Sound(g) /\ Flushing(g)
                  <4>1. /\ g.flight.kind = "Partial" /\ g.flight.box = b
                        /\ g.flight.data = f.desired /\ Flushing(g)
                        BY <2>1, <3>2 DEF Partial, Flushing, NoFlush
                  <4>2. FlushOf(f) \in Flush
                        BY <3>2, <1>1, Fields DEF Partial, Flush
                  <4>3. g \in FrameBufferType
                        BY <1>1, <2>1, <4>2 DEF FrameBufferType
                  <4>4. \A c \in Cells : Overlay(f.committed, g.flight)[c] = f.desired[c]
                        BY <3>2, <4>1 DEF Overlay
                  <4>5. Accounted(g)
                        BY <2>1, <4>1, <4>4 DEF Accounted
                  <4>6. FullCovers(g)
                        BY <4>1 DEF FullCovers
                  <4> QED BY <4>1, <4>3, <4>5, <4>6 DEF Sound
            <3> QED BY <1>3, <2>1, <2>3, <3>1, <3>2, FlushOfKnown DEF g
      <2> QED BY <2>2, <2>3, <1>1, Fields
<1> QED BY <1>2, <1>3, <1>1, Fields DEF Begun

\* end_flush: a success adds what was sent to what counts as shown, all of it
\* after a full flush; after a failure nothing is known.
LEMMA EndedSound ==
    ASSUME NEW f, Sound(f), Flushing(f), NEW ok \in BOOLEAN
    PROVE  LET g == Ended(f, ok) IN
           /\ Sound(g)
           /\ g.desired = f.desired /\ g.flight = NoFlush
           /\ ~ok => ~g.known
           /\ ok /\ f.flight.kind = "Full" =>
                 g.known /\ g.committed = f.flight.data /\ f.flight.box = Screen
           /\ ok /\ f.flight.kind = "Partial" =>
                 g.known = f.known /\ g.committed = Overlay(f.committed, f.flight)
<1> DEFINE g == Ended(f, ok)
<1>1. f \in FrameBufferType
      BY DEF Sound
<1>2. NoFlush \in Flush /\ NoFlush.kind = "None"
      BY DEF Flush, NoFlush
<1>3. CASE ~ok
      <2>1. g = [f EXCEPT !.flight = NoFlush, !.known = FALSE]
            BY <1>3 DEF Ended
      <2>2. g.known = FALSE /\ g.flight = NoFlush /\ g.desired = f.desired /\ g \in FrameBufferType
            BY <1>1, <1>2, <2>1 DEF FrameBufferType
      <2> HIDE DEF g
      <2>3. Sound(g)
            BY <1>2, <2>2 DEF Sound, Accounted, FullCovers
      <2> QED BY <1>3, <2>2, <2>3 DEF g
<1>4. CASE ok /\ f.flight.kind = "Full"
      <2>1. g = [f EXCEPT !.flight = NoFlush, !.known = TRUE, !.committed = f.flight.data]
            BY <1>4 DEF Ended
      <2>2. /\ g.desired = f.desired /\ g.dirty = f.dirty /\ g.known = TRUE
            /\ g.committed = f.flight.data /\ g.flight = NoFlush
            BY <1>1, <2>1 DEF FrameBufferType
      <2>3. g \in FrameBufferType
            BY <1>1, <1>2, <2>1, Fields DEF FrameBufferType
      <2> HIDE DEF g
      <2>4. Sound(g) /\ f.flight.box = Screen
            BY <1>2, <1>4, <2>2, <2>3 DEF Sound, Accounted, FullCovers, Flushing
      <2> QED BY <1>4, <2>2, <2>4 DEF g
<1>5. CASE ok /\ f.flight.kind = "Partial"
      <2>1. g = [f EXCEPT !.flight = NoFlush, !.committed = Overlay(f.committed, f.flight)]
            BY <1>5 DEF Ended
      <2>2. /\ g.desired = f.desired /\ g.dirty = f.dirty /\ g.known = f.known
            /\ g.committed = Overlay(f.committed, f.flight) /\ g.flight = NoFlush
            BY <1>1, <2>1 DEF FrameBufferType
      <2>3. Overlay(f.committed, f.flight) \in Image
            BY <1>1, Fields, OverlayType
      <2>4. g \in FrameBufferType
            BY <1>1, <1>2, <2>1, <2>3 DEF FrameBufferType
      <2> HIDE DEF g
      <2>5. Sound(g)
            BY <1>2, <2>2, <2>4 DEF Sound, Accounted, FullCovers, Flushing
      <2> QED BY <1>5, <2>2, <2>5 DEF g
<1>6. f.flight.kind \in {"Full", "Partial"}
      BY <1>1, Fields
<1>7. \/ ~ok
      \/ ok /\ f.flight.kind = "Full"
      \/ ok /\ f.flight.kind = "Partial"
      BY <1>6
<1> QED BY <1>3, <1>4, <1>5, <1>7, Zenon
=============================================================================
