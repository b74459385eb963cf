------------------------- MODULE FrameBufferProofs -------------------------
(***************************************************************************)
(* Proofs about FrameBufferSpec, for every screen size, any number of      *)
(* draws and failures, and any first image on the panel. What the          *)
(* operations do to the struct is in FrameBufferLemmas.                    *)
(***************************************************************************)
EXTENDS FrameBufferSpec, FrameBufferLemmas

\* Sound(fb) holds NothingMissed, and FullCovers, which makes it inductive.
IInv == TypeOK /\ CommittedIsShown /\ Tight /\ Sound(fb)

LEMMA InitInvariant == Init => IInv
BY NewSound, BoundsAssumption
   DEF Init, IInv, TypeOK, CommittedIsShown, Tight, Sound

\* A draw changes neither what counts as shown nor the flush in flight.
LEMMA DrawKeeps == IInv /\ Draw => IInv'
<1> SUFFICES ASSUME IInv, Draw PROVE IInv'
    OBVIOUS
<1>1. PICK b \in Box, image \in Image : fb' = Drawn(fb, b, image)
      BY DEF Draw
<1>2. Sound(fb)
      BY DEF IInv
<1>3. Sound(fb') /\ fb'.committed = fb.committed /\ fb'.known = fb.known /\ fb'.flight = fb.flight
      BY <1>1, <1>2, DrawnSound
<1>4. TypeOK'
      <2>1. fb' \in FrameBufferType
            BY <1>3 DEF Sound
      <2> QED BY <2>1, BoundsAssumption DEF IInv, TypeOK, Draw
<1>5. CommittedIsShown' /\ Tight'
      BY <1>3 DEF IInv, CommittedIsShown, Tight, Draw
<1> QED BY <1>3, <1>4, <1>5 DEF IInv, Sound

LEMMA InvalidateKeeps == IInv /\ Invalidate => IInv'
<1> SUFFICES ASSUME IInv, Invalidate PROVE IInv'
    OBVIOUS
<1>1. fb' = Invalidated(fb) /\ Sound(fb)
      BY DEF Invalidate, IInv
<1>2. Sound(fb') /\ fb'.committed = fb.committed /\ fb'.known = FALSE /\ fb'.flight = fb.flight
      BY <1>1, InvalidatedSound
<1>3. TypeOK'
      <2>1. fb' \in FrameBufferType
            BY <1>2 DEF Sound
      <2> QED BY <2>1, BoundsAssumption DEF IInv, TypeOK, Invalidate
<1>4. CommittedIsShown' /\ Tight'
      BY <1>2 DEF IInv, CommittedIsShown, Tight
<1> QED BY <1>2, <1>3, <1>4 DEF IInv, Sound

\* With the contents known, the flush is the tight box around what differs.
LEMMA BeginFlushKeeps == IInv /\ BeginFlush => IInv'
<1> SUFFICES ASSUME IInv, BeginFlush PROVE IInv'
    OBVIOUS
<1>1. Sound(fb) /\ ~Flushing(fb) /\ fb' = Begun(fb) /\ panel' = panel
      BY DEF IInv, BeginFlush, NeedsFlush
<1>2. /\ Sound(fb') /\ fb'.committed = fb.committed /\ fb'.known = fb.known
      /\ fb'.flight = FlushOf(fb)
      BY <1>1, BegunSound
<1>3. TypeOK'
      <2>1. fb' \in FrameBufferType
            BY <1>2 DEF Sound
      <2> QED BY <2>1, BoundsAssumption DEF IInv, TypeOK, BeginFlush
<1>4. CommittedIsShown'
      BY <1>1, <1>2 DEF IInv, CommittedIsShown
<1>5. Tight'
      <2>1. CASE ~fb.known
            BY <1>1, <1>2, <2>1 DEF FlushOf, Full, Tight
      <2>2. CASE fb.known /\ FlushOf(fb) = NoFlush
            BY <1>2, <2>2 DEF NoFlush, Tight
      <2>3. CASE fb.known /\ FlushOf(fb) # NoFlush
            <3>1. PICK b \in Box :
                  /\ FlushOf(fb) = Partial(b, fb.desired)
                  /\ \A x \in {b.x0, b.x1 - 1} : \E c \in Inside(b) :
                        c[1] = x /\ fb.desired[c] # fb.committed[c]
                  /\ \A y \in {b.y0, b.y1 - 1} : \E c \in Inside(b) :
                        c[2] = y /\ fb.desired[c] # fb.committed[c]
                  BY <1>1, <2>3, FlushOfKnown
            <3>2. fb'.flight.box = b /\ fb'.flight.data = fb.desired
                  BY <1>2, <3>1 DEF Partial
            <3> QED BY <1>2, <3>1, <3>2 DEF Tight
      <2> QED BY <2>1, <2>2, <2>3
<1> QED BY <1>2, <1>3, <1>4, <1>5 DEF IInv, Sound

\* A draw that succeeded: committed and panel take the same cells of the same image.
LEMMA DrawSucceedsKeeps == IInv /\ DrawSucceeds => IInv'
<1> SUFFICES ASSUME IInv, DrawSucceeds PROVE IInv'
    OBVIOUS
<1>1. Sound(fb) /\ panel \in Image /\ fb \in FrameBufferType
      BY DEF IInv, TypeOK
<1>2. Flushing(fb) /\ fb' = Ended(fb, TRUE) /\ panel' = Overlay(panel, fb.flight)
      BY DEF DrawSucceeds
<1>3. /\ Sound(fb') /\ fb'.flight = NoFlush
      /\ fb.flight.kind = "Full" =>
            fb'.known /\ fb'.committed = fb.flight.data /\ fb.flight.box = Screen
      /\ fb.flight.kind = "Partial" =>
            fb'.known = fb.known /\ fb'.committed = Overlay(fb.committed, fb.flight)
      BY <1>1, <1>2, EndedSound
<1>4. TypeOK'
      <2>1. fb' \in FrameBufferType /\ panel' \in Image
            BY <1>1, <1>2, <1>3, Fields, OverlayType DEF Sound
      <2> QED BY <2>1 DEF IInv, TypeOK, DrawSucceeds
<1>5. CommittedIsShown'
      <2>1. CASE fb.flight.kind = "Full"
            <3>1. panel' = fb.flight.data
                  BY <1>1, <1>2, <1>3, <2>1, Fields, ScreenHoldsAll DEF Overlay, Image
            <3> QED BY <1>3, <2>1, <3>1 DEF CommittedIsShown
      <2>2. CASE fb.flight.kind = "Partial"
            BY <1>2, <1>3, <2>2 DEF IInv, CommittedIsShown
      <2> QED BY <1>1, <1>2, <2>1, <2>2, Fields
<1>6. Tight'
      BY <1>3 DEF Tight, NoFlush
<1> QED BY <1>3, <1>4, <1>5, <1>6 DEF IInv, Sound

\* A draw that failed: the contents are unknown, whatever the panel shows.
LEMMA DrawFailsKeeps == IInv /\ DrawFails => IInv'
<1> SUFFICES ASSUME IInv, DrawFails PROVE IInv'
    OBVIOUS
<1>1. Sound(fb) /\ fb \in FrameBufferType /\ panel \in Image
      BY DEF IInv, TypeOK
<1>2. Flushing(fb) /\ fb' = Ended(fb, FALSE)
      BY DEF DrawFails
<1>3. Sound(fb') /\ ~fb'.known /\ fb'.flight = NoFlush
      BY <1>1, <1>2, EndedSound
<1>4. panel' \in Image
      <2>1. PICK garbage \in Image : panel' = Overlay(panel, [fb.flight EXCEPT !.data = garbage])
            BY DEF DrawFails
      <2>2. [fb.flight EXCEPT !.data = garbage].data = garbage
            BY <1>1, Fields DEF Flush, NoFlush
      <2> QED BY <1>1, <2>1, <2>2, OverlayType
<1>5. TypeOK'
      <2>1. draws' = draws /\ invalidates' = invalidates
            BY DEF DrawFails
      <2>2. failures' \in 0 .. MaxFailures
            <3>1. failures \in 0 .. MaxFailures /\ failures < MaxFailures /\ failures' = failures + 1
                  BY DEF IInv, TypeOK, DrawFails
            <3> QED BY <3>1, BoundsAssumption
      <2> QED BY <1>3, <1>4, <2>1, <2>2 DEF IInv, TypeOK, Sound
<1> QED BY <1>3, <1>5 DEF IInv, CommittedIsShown, Tight, NoFlush, Sound

LEMMA Invariant == Spec => []IInv
<1>1. Init => IInv
      BY InitInvariant
<1>2. IInv /\ [Next]_vars => IInv'
      <2> SUFFICES ASSUME IInv, [Next]_vars PROVE IInv'
          OBVIOUS
      <2>1. CASE Draw           BY <2>1, DrawKeeps
      <2>2. CASE Invalidate     BY <2>2, InvalidateKeeps
      <2>3. CASE BeginFlush     BY <2>3, BeginFlushKeeps
      <2>4. CASE DrawSucceeds   BY <2>4, DrawSucceedsKeeps
      <2>5. CASE DrawFails      BY <2>5, DrawFailsKeeps
      <2>6. CASE UNCHANGED vars
            BY <2>6 DEF vars, IInv, TypeOK, CommittedIsShown, Tight, Sound, Accounted, FullCovers
      <2> QED BY <2>1, <2>2, <2>3, <2>4, <2>5, <2>6 DEF Next
<1> QED BY <1>1, <1>2, PTL DEF Spec

-----------------------------------------------------------------------------
(* The theorems *)

\* Every reachable framebuffer is well-formed: a region that is marked dirty or
\* sent lies on the screen (what mark_dirty and changed_within return).
THEOREM TypeCorrect == Spec => []TypeOK
<1>1. IInv => TypeOK
      BY DEF IInv
<1> QED BY <1>1, Invariant, PTL

\* What counts as known is what the panel shows, on any screen, after any number
\* of draws, flushes, failures and invalidates (framebuffer.rs:19-20).
THEOREM CommittedAlwaysShown == Spec => []CommittedIsShown
<1>1. IInv => CommittedIsShown
      BY DEF IInv
<1> QED BY <1>1, Invariant, PTL

\* No drawn byte is ever left out of the flushes to come (framebuffer.rs:11-16).
THEOREM NothingEverMissed == Spec => []NothingMissed
<1>1. IInv => NothingMissed
      BY DEF IInv, Sound, Accounted, NothingMissed
<1> QED BY <1>1, Invariant, PTL

\* A partial flush is never larger than what changed (framebuffer.rs:21-22).
THEOREM AlwaysTight == Spec => []Tight
<1>1. IInv => Tight
      BY DEF IInv
<1> QED BY <1>1, Invariant, PTL

=============================================================================
