---------------------------- MODULE PanelEffects ----------------------------
(***************************************************************************)
(* What a finished request leaves of the panel and of what the e-paper     *)
(* protocol (core/src/spi/epaper.rs) believes of it: the promises of its   *)
(* head comment, as the effect of a whole job. DisplayService builds its   *)
(* e-paper task from them, PanelTask states them as a specification, and   *)
(* SpiTask implements that one transaction at a time.                      *)
(***************************************************************************)
EXTENDS FrameBuffer

VARIABLES
    epKnown,        \* the protocol thinks it knows the contents
    epPower,        \* it thinks the drive voltages are on
    volts,          \* the drive voltages are on
    panel           \* what the panel shows

epVars == <<epKnown, epPower, volts, panel>>

\* A partial draw on unknown contents, or a bad window: nothing is sent.
Refusable(flush) == flush.box = NoBox \/ (flush.kind = "Partial" /\ ~epKnown)
Refused(flush) == Refusable(flush) /\ UNCHANGED epVars

\* A partial draw ends with a soft reset, which switches the voltages off.
Shown(flush) ==
    /\ ~Refusable(flush)
    /\ panel' = Overlay(panel, flush)
    /\ epKnown' = TRUE
    /\ epPower' = (flush.kind = "Full") /\ volts' = epPower'

\* A bus fault or a timeout at any step of a draw
Spoilt(flush) ==
    /\ ~Refusable(flush)
    /\ \E garbage \in Image : panel' = Overlay(panel, [flush EXCEPT !.data = garbage])
    /\ epKnown' = FALSE /\ epPower' = FALSE /\ volts' \in BOOLEAN

SwitchedOff ==
    /\ epPower' = FALSE
    /\ volts' = (volts /\ ~epPower)
    /\ UNCHANGED <<epKnown, panel>>

SwitchOffFailed ==
    /\ epKnown' = FALSE /\ epPower' = FALSE /\ volts' \in {volts, FALSE}
    /\ UNCHANGED panel
=============================================================================
