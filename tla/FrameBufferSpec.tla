-------------------------- MODULE FrameBufferSpec --------------------------
(***************************************************************************)
(* The framebuffer with one owner, which draws and flushes in any order    *)
(* the caller invariants of core/src/framebuffer.rs allow, against a panel *)
(* (external) that may fail a draw.                                        *)
(***************************************************************************)
EXTENDS FrameBuffer

CONSTANTS MaxDraws, MaxFailures, MaxInvalidates

ASSUME BoundsAssumption == MaxDraws \in Nat /\ MaxFailures \in Nat /\ MaxInvalidates \in Nat

VARIABLES
    fb,
    panel,          \* what the panel really shows (external)
    draws, failures, invalidates

vars == <<fb, panel, draws, failures, invalidates>>

Init ==
    /\ fb = NewBuffer
    /\ panel \in Image
    /\ draws = 0 /\ failures = 0 /\ invalidates = 0

Draw ==
    /\ draws < MaxDraws
    /\ draws' = draws + 1
    /\ \E b \in Box, image \in Image :
          /\ b.x0 < b.x1 /\ b.y0 < b.y1
          /\ fb' = Drawn(fb, b, image)
    /\ UNCHANGED <<panel, failures, invalidates>>

Invalidate ==
    /\ invalidates < MaxInvalidates
    /\ invalidates' = invalidates + 1
    /\ fb' = Invalidated(fb)
    /\ UNCHANGED <<panel, draws, failures>>

BeginFlush ==
    /\ NeedsFlush(fb)
    /\ fb' = Begun(fb)
    /\ UNCHANGED <<panel, draws, failures, invalidates>>

DrawSucceeds ==
    /\ Flushing(fb)
    /\ fb' = Ended(fb, TRUE)
    /\ panel' = Overlay(panel, fb.flight)
    /\ UNCHANGED <<draws, failures, invalidates>>

\* A failed draw may leave anything in its region.
DrawFails ==
    /\ Flushing(fb)
    /\ failures < MaxFailures
    /\ failures' = failures + 1
    /\ fb' = Ended(fb, FALSE)
    /\ \E garbage \in Image : panel' = Overlay(panel, [fb.flight EXCEPT !.data = garbage])
    /\ UNCHANGED <<draws, invalidates>>

Next == Draw \/ Invalidate \/ BeginFlush \/ DrawSucceeds \/ DrawFails

\* The kernel pumps after every event and every draw gets a response.
Fairness == WF_vars(BeginFlush) /\ WF_vars(DrawSucceeds)
Spec == Init /\ [][Next]_vars
FairSpec == Spec /\ Fairness

-----------------------------------------------------------------------------
TypeOK ==
    /\ fb \in FrameBufferType
    /\ panel \in Image
    /\ draws \in 0 .. MaxDraws
    /\ failures \in 0 .. MaxFailures
    /\ invalidates \in 0 .. MaxInvalidates

\* "committed changes only on end_flush(true), so it never claims more than the
\* panel was told to show" (framebuffer.rs:19-20): whenever the contents count
\* as known, committed is what the panel really shows.
CommittedIsShown == fb.known => fb.committed = panel

\* Nothing drawn is ever forgotten, also when it is drawn under a flush: what
\* the panel will show once the flush in flight is done differs from `desired`
\* only inside the dirty box (framebuffer.rs:11-16).
NothingMissed == fb.known =>
    LET after == IF Flushing(fb) THEN Overlay(fb.committed, fb.flight) ELSE fb.committed IN
    \A c \in Cells : fb.desired[c] # after[c] => c \in Inside(fb.dirty)

\* "A partial region is ... tight: its edge rows and byte columns each contain
\* a changed byte" (framebuffer.rs:21-22).
Tight == fb.flight.kind = "Partial" => LET b == fb.flight.box IN
    /\ \A x \in {b.x0, b.x1 - 1} : \E c \in Inside(b) :
          c[1] = x /\ fb.flight.data[c] # fb.committed[c]
    /\ \A y \in {b.y0, b.y1 - 1} : \E c \in Inside(b) :
          c[2] = y /\ fb.flight.data[c] # fb.committed[c]

\* The panel ends up showing what was drawn, whatever draws failed on the way.
Settled == ~NeedsFlush(fb) /\ ~Flushing(fb) /\ panel = fb.desired
Converges == <>[]Settled
=============================================================================
