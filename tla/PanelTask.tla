----------------------------- MODULE PanelTask -----------------------------
(***************************************************************************)
(* What the spi task promises its caller: every request gets exactly one   *)
(* response, with its id, in request order (spi_service.rs, scheduler.rs), *)
(* and each is carried out, refused or spoilt as a whole (PanelEffects).   *)
(***************************************************************************)
EXTENDS PanelEffects, Sequences

CONSTANT Requests

VARIABLES
    pending,        \* requests not yet answered, oldest first: [id, request]
    answers         \* responses sent: [id, ok]

taskVars == <<epVars, pending, answers>>

Init ==
    /\ pending = <<>> /\ answers = <<>>
    /\ epKnown = FALSE /\ epPower = FALSE /\ volts \in BOOLEAN /\ panel \in Image

Submit(request) ==
    /\ pending' = Append(pending, [id |-> Len(answers) + Len(pending), request |-> request])
    /\ UNCHANGED <<epVars, answers>>

Answer(ok) ==
    /\ pending # <<>>
    /\ pending' = Tail(pending)
    /\ answers' = Append(answers, [id |-> Head(pending).id, ok |-> ok])

Oldest == Head(pending).request
Draw == Answer(TRUE) /\ Oldest.op = "Draw" /\ Shown(Oldest.flush)
Fail == Answer(FALSE) /\ Oldest.op = "Draw" /\ (Refused(Oldest.flush) \/ Spoilt(Oldest.flush))
PowerOff == Answer(TRUE) /\ Oldest.op = "PowerOff" /\ SwitchedOff
FailPowerOff == Answer(FALSE) /\ Oldest.op = "PowerOff" /\ SwitchOffFailed

Next == (\E r \in Requests : Submit(r)) \/ Draw \/ Fail \/ PowerOff \/ FailPowerOff
Spec == Init /\ [][Next]_taskVars
=============================================================================
