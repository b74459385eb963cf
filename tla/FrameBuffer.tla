---------------------------- MODULE FrameBuffer ----------------------------
(***************************************************************************)
(* The two-buffer framebuffer (core/src/framebuffer.rs): programs draw     *)
(* into `desired` at any time; a flush sends the panel what differs from   *)
(* `committed` and commits it only when the draw succeeded. The operators  *)
(* work on the struct, so that FrameBufferSpec (one owner and a panel) and *)
(* DisplayService (the kernel) compose them.                               *)
(*                                                                         *)
(* The screen is a grid of bytes (8 pixels side by side), the unit of      *)
(* every comparison and region in the code; a byte is 0 or 1.              *)
(***************************************************************************)
EXTENDS Integers, FiniteSets

CONSTANTS BYTES_PER_ROW, HEIGHT

ASSUME SizeAssumption == BYTES_PER_ROW \in Nat \ {0} /\ HEIGHT \in Nat \ {0}

Cells == (0 .. BYTES_PER_ROW - 1) \X (0 .. HEIGHT - 1)
Ink == {0, 1}
Image == [Cells -> Ink]
Blank == [c \in Cells |-> 1]

Box == [x0 : 0 .. BYTES_PER_ROW - 1, y0 : 0 .. HEIGHT - 1,
        x1 : 1 .. BYTES_PER_ROW, y1 : 1 .. HEIGHT]
NoBox == [x0 |-> 0, y0 |-> 0, x1 |-> 0, y1 |-> 0]
Screen == [x0 |-> 0, y0 |-> 0, x1 |-> BYTES_PER_ROW, y1 |-> HEIGHT]

Inside(b) == {c \in Cells : b.x0 <= c[1] /\ c[1] < b.x1 /\ b.y0 <= c[2] /\ c[2] < b.y1}

Lesser(a, b) == IF a < b THEN a ELSE b
Greater(a, b) == IF a < b THEN b ELSE a

\* mark_dirty: the smallest box around two, of which the first may be empty
Joined(a, b) ==
    IF a = NoBox THEN b
    ELSE [x0 |-> Lesser(a.x0, b.x0), y0 |-> Lesser(a.y0, b.y0),
          x1 |-> Greater(a.x1, b.x1), y1 |-> Greater(a.y1, b.y1)]

\* The smallest box around a set of cells
Around(S) ==
    IF S = {} THEN NoBox
    ELSE CHOOSE b \in Box :
        /\ S \subseteq Inside(b)
        /\ \A e \in {b.x0, b.x1 - 1} : \E c \in S : c[1] = e
        /\ \A e \in {b.y0, b.y1 - 1} : \E c \in S : c[2] = e

NoFlush == [kind |-> "None", box |-> NoBox, data |-> Blank]
Full(image) == [kind |-> "Full", box |-> Screen, data |-> image]
Partial(b, image) == [kind |-> "Partial", box |-> b, data |-> image]

\* `image` shown in the flush's region over `under`
Overlay(under, flush) ==
    [c \in Cells |-> IF c \in Inside(flush.box) THEN flush.data[c] ELSE under[c]]

-----------------------------------------------------------------------------
(* struct FrameBuffer *)

NewBuffer == [desired |-> Blank, committed |-> Blank, dirty |-> NoBox,
              known |-> FALSE, flight |-> NoFlush]

Flushing(f) == f.flight # NoFlush
\* Mutant: only what was drawn needs a flush.
NeedsFlushDirty(f) == ~Flushing(f) /\ f.dirty # NoBox
NeedsFlush(f) == ~Flushing(f) /\ (~f.known \/ f.dirty # NoBox)

\* Any drawing call: paints cells of b and marks all of b dirty
Drawn(f, b, image) ==
    [f EXCEPT !.desired = [c \in Cells |-> IF c \in Inside(b) THEN image[c] ELSE @[c]],
              !.dirty = Joined(@, b)]

Invalidated(f) == [f EXCEPT !.known = FALSE]

\* Mutant: all of the dirty box is sent.
AllWithin(f, b) == b
ChangedWithin(f, b) == Around({c \in Inside(b) : f.desired[c] # f.committed[c]})

\* What begin_flush returns, and the buffer it leaves behind
FlushOf(f) ==
    IF Flushing(f) THEN NoFlush
    ELSE IF ~f.known THEN Full(f.desired)
    ELSE LET b == ChangedWithin(f, f.dirty) IN
         IF b = NoBox THEN NoFlush ELSE Partial(b, f.desired)

Begun(f) == IF Flushing(f) THEN f ELSE [f EXCEPT !.dirty = NoBox, !.flight = FlushOf(f)]

\* Mutants: a failed draw leaves the contents known; the dirty box is cleared
\* when the flush ends.
EndedKnown(f, ok) ==
    IF ok /\ f.flight.kind = "Full"
      THEN [f EXCEPT !.flight = NoFlush, !.known = TRUE, !.committed = f.flight.data]
      ELSE [f EXCEPT !.flight = NoFlush, !.committed = IF ok THEN Overlay(@, f.flight) ELSE @]

EndedClean(f, ok) ==
    CASE ~ok -> [f EXCEPT !.flight = NoFlush, !.known = FALSE, !.dirty = NoBox]
      [] ok /\ f.flight.kind = "Full" ->
            [f EXCEPT !.flight = NoFlush, !.dirty = NoBox, !.known = TRUE, !.committed = f.flight.data]
      [] ok /\ f.flight.kind = "Partial" ->
            [f EXCEPT !.flight = NoFlush, !.dirty = NoBox, !.committed = Overlay(@, f.flight)]

\* end_flush with a flush in flight
Ended(f, ok) ==
    CASE ~ok -> [f EXCEPT !.flight = NoFlush, !.known = FALSE]
      [] ok /\ f.flight.kind = "Full" ->
            [f EXCEPT !.flight = NoFlush, !.known = TRUE, !.committed = f.flight.data]
      [] ok /\ f.flight.kind = "Partial" ->
            [f EXCEPT !.flight = NoFlush, !.committed = Overlay(@, f.flight)]

Flush == {NoFlush} \cup [kind : {"Full", "Partial"}, box : Box, data : Image]

FrameBufferType ==
    [desired : Image, committed : Image, dirty : Box \cup {NoBox},
     known : BOOLEAN, flight : Flush]
=============================================================================
