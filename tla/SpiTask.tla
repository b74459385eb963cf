------------------------------ MODULE SpiTask ------------------------------
(***************************************************************************)
(* The spi task: its handle and loop (device/src/spi_service.rs), the      *)
(* scheduler (core/src/spi/scheduler.rs), the bus and the e-paper          *)
(* protocol, with the panel's controller at the other end of the wire and  *)
(* mock protocols, as its tests have, in the slots of the devices that     *)
(* have none yet. One turn of `ready`'s loop is one step, and so is every  *)
(* other point at which another actor may come between: the channel, the   *)
(* notification, arming and re-reading the BUSY pin.                       *)
(*                                                                         *)
(* "Now" is abstract: whether the time the e-paper job waits for, or the   *)
(* bring-up retry, has come. SETTLE_MS is longer than BUSY takes to fall.  *)
(***************************************************************************)
EXTENDS Epaper, Bus

CONSTANTS
    Requests,           \* what the kernel may ask for
    Slots,              \* 0 .. n - 1, slot 0 the e-paper
    MaxRequests, MaxOutstanding, MaxOthers

ASSUME SlotsAssumption == IsFiniteSet(Slots) /\ 0 \in Slots /\ Slots = 0 .. Cardinality(Slots) - 1
ASSUME RequestsAssumption == Requests \subseteq Requestable
ASSUME CountsAssumption == MaxRequests \in Nat /\ MaxOutstanding \in Nat /\ MaxOthers \in Nat

VARIABLES
    (* SpiHandle *)
    channel,        \* (id, request) sent to the task
    asked,          \* next_id
    owesNotify,     \* between send and notify
    (* the task *)
    pc,             \* "Recv", "Scan", "Send", "Reread", "Wait"
    notified,
    out,            \* responses of this step
    turn, k,        \* whose turn is next; how many were passed over
    retry,          \* bring-up failed: "Later" until the time has come, "Now"
    ids,            \* ids of the e-paper slot
    ep,             \* the Epaper
    want,           \* whether a mock device has a transaction ready
    armed,          \* the interrupt on BUSY high is enabled
    (* time, the panel *)
    due,            \* the time the job waits for has come
    chip,
    (* history and bounds *)
    answers,        \* responses sent to the kernel
    before,         \* what the panel and the protocol were when the job began
    passed,         \* transactions of each device while another was ready
    others

handleVars == <<channel, asked, owesNotify>>
scanVars == <<turn, k, passed>>
wireVars == <<busVars, broken, faults>>
vars == <<handleVars, pc, notified, out, scanVars, retry, ids, ep, want, armed, due, chip,
          answers, before, wireVars, others>>

Seen == [screen |-> chip.screen, volts |-> chip.powered, known |-> ep.known, power |-> ep.power]

Init ==
    /\ channel = <<>> /\ asked = 0 /\ owesNotify = FALSE
    /\ pc = "Recv" /\ notified = FALSE /\ out = <<>>
    /\ turn = 0 /\ k = 0 /\ retry = "Now" /\ ids = <<>>
    /\ ep = NewEpaper /\ want = [i \in Slots \ {0} |-> FALSE]
    /\ armed = FALSE /\ due = FALSE
    /\ \E volts \in BOOLEAN : chip = NewPanel(Blank, volts)
    /\ answers = <<>> /\ before = Seen
    /\ passed = [i \in Slots |-> [j \in Slots |-> 0]]
    /\ others = 0
    /\ BusInit

-----------------------------------------------------------------------------
(* SpiHandle::submit, called by the kernel *)

Submit(request) ==
    /\ asked < MaxRequests /\ asked - Len(answers) < MaxOutstanding /\ ~owesNotify
    /\ channel' = Append(channel, [id |-> asked, request |-> request])
    /\ asked' = asked + 1 /\ owesNotify' = TRUE
    /\ UNCHANGED <<pc, notified, out, scanVars, retry, ids, ep, want, armed, due, chip, answers,
                   before, wireVars, others>>

Notify ==
    /\ owesNotify /\ owesNotify' = FALSE
    /\ notified' = TRUE
    /\ UNCHANGED <<channel, asked, pc, out, scanVars, retry, ids, ep, want, armed, due, chip,
                   answers, before, wireVars, others>>

-----------------------------------------------------------------------------
(* task_loop *)

\* try_recv until it is empty
Recv ==
    /\ pc = "Recv" /\ channel # <<>>
    /\ channel' = Tail(channel)
    /\ ids' = Append(ids, Head(channel).id)
    /\ ep' = Submitted(ep, Head(channel).request)
    /\ UNCHANGED <<asked, owesNotify, pc, notified, out, scanVars, retry, want, armed, due, chip,
                   answers, before, wireVars, others>>

\* step: bring the bus up first, unless it is too early to try again.
Begin ==
    /\ pc = "Recv" /\ channel = <<>>
    /\ \/ up /\ pc' = "Scan" /\ UNCHANGED <<wireVars, retry>>
       \/ ~up /\ retry = "Later" /\ pc' = "Send" /\ UNCHANGED <<wireVars, retry>>
       \/ ~up /\ retry = "Now" /\ BroughtUp /\ pc' = "Scan" /\ UNCHANGED retry
       \/ ~up /\ retry = "Now" /\ BringUpFails /\ pc' = "Send" /\ retry' = "Later"
    /\ k' = 0
    /\ UNCHANGED <<handleVars, notified, out, turn, passed, ids, ep, want, armed, due, chip,
                   answers, before, others>>

Slot == (turn + k) % Cardinality(Slots)
Scanning(i) == pc = "Scan" /\ Slot = i

\* No transaction ready in this slot: the next one, until all were passed over.
Skip ==
    /\ k' = k + 1
    /\ pc' = IF k' = Cardinality(Slots) THEN "Send" ELSE "Scan"
    /\ UNCHANGED <<turn, passed>>

TxReady == HasJob(ep) /\ ep.job.steps # <<>> /\ IsTx(Step(ep))
Ready(i) == IF i = 0 THEN TxReady ELSE want[i]

\* Mutant of Ran: the device that ran keeps its turn.
RanKeepsTurn(i) ==
    /\ turn' = i
    /\ k' = 0
    /\ passed' = [a \in Slots |-> [b \in Slots |->
          IF a = i \/ ~Ready(a) THEN 0 ELSE IF b = i THEN Lesser(passed[a][b] + 1, 2) ELSE passed[a][b]]]
    /\ UNCHANGED pc

\* A transaction of slot i ran: the slot after it is next.
Ran(i) ==
    /\ turn' = (i + 1) % Cardinality(Slots)
    /\ k' = 0
    /\ passed' = [a \in Slots |-> [b \in Slots |->
          IF a = i \/ ~Ready(a) THEN 0 ELSE IF b = i THEN Lesser(passed[a][b] + 1, 2) ELSE passed[a][b]]]
    /\ UNCHANGED pc

\* collect
Respond(ok) ==
    /\ out' = Append(out, [id |-> Head(ids), ok |-> ok])
    /\ ids' = Tail(ids)

RunOther(i) ==
    /\ i # 0 /\ Scanning(i) /\ want[i]
    /\ want' = [want EXCEPT ![i] = FALSE]
    /\ \E arrived \in {"nothing", "prefix", "all"}, ok \in BOOLEAN : Run(arrived, ok, {})
    /\ Ran(i)
    /\ UNCHANGED <<handleVars, notified, out, retry, ids, ep, armed, due, chip, answers, before, others>>

SkipOther(i) ==
    /\ i # 0 /\ Scanning(i) /\ ~want[i]
    /\ Skip
    /\ UNCHANGED <<handleVars, notified, out, retry, ids, ep, want, armed, due, chip, answers,
                   before, wireVars, others>>

-----------------------------------------------------------------------------
(* ready and advance, on the e-paper slot *)

InEpaper == Scanning(0) /\ UNCHANGED <<handleVars, notified, retry, want, armed, answers>>
Within == InEpaper /\ UNCHANGED <<pc, turn, k, passed>>

Idle ==
    /\ ~HasJob(ep) /\ ep.queue = <<>>
    /\ InEpaper /\ Skip
    /\ UNCHANGED <<out, ids, ep, due, chip, before, wireVars, others>>

RefuseRequest ==
    /\ ~HasJob(ep) /\ ep.queue # <<>> /\ Refuses(ep, Head(ep.queue))
    /\ Within
    /\ ep' = Dequeued(ep)
    /\ Respond(FALSE)
    /\ UNCHANGED <<due, chip, before, wireVars, others>>

StartJob ==
    /\ ~HasJob(ep) /\ ep.queue # <<>> /\ ~Refuses(ep, Head(ep.queue))
    /\ Within
    /\ ep' = Started(ep)
    /\ before' = Seen
    /\ UNCHANGED <<out, ids, due, chip, wireVars, others>>

FinishJob ==
    /\ HasJob(ep) /\ ep.job.steps = <<>>
    /\ Within
    /\ ep' = Finished(ep)
    /\ Respond(TRUE)
    /\ UNCHANGED <<due, chip, before, wireVars, others>>

AtStep(kind) == HasJob(ep) /\ ep.job.steps # <<>> /\ Step(ep).t = kind

SetFlag ==
    /\ AtStep("Set")
    /\ Within
    /\ ep' = Flagged(ep)
    /\ UNCHANGED <<out, ids, due, chip, before, wireVars, others>>

\* bus.run, then advance(Tx(result))
RunTx ==
    /\ TxReady
    /\ InEpaper
    /\ \E arrived \in {"nothing", "prefix", "all"}, ok \in BOOLEAN :
          /\ Run(arrived, ok, IF arrived = "nothing" THEN {} ELSE Misuse(chip, Step(ep)))
          /\ chip' \in CASE arrived = "nothing" -> {chip}
                         [] arrived = "prefix" -> TookPrefix(chip, Step(ep))
                         [] arrived = "all" -> {Took(chip, Step(ep))}
          /\ IF ok THEN ep' = Advanced(ep) /\ UNCHANGED <<out, ids>>
                   ELSE ep' = Failed(ep) /\ Respond(FALSE)
    /\ Ran(0)
    /\ UNCHANGED <<due, before, others>>

\* A Busy step settles first, then waits for the pin.
BeginWait ==
    /\ AtStep("Busy") /\ ep.job.wait = "None"
    /\ Within
    /\ ep' = Waiting(ep, "Settling") /\ due' = FALSE
    /\ UNCHANGED <<out, ids, chip, before, wireVars, others>>

Settled ==
    /\ AtStep("Busy") /\ ep.job.wait = "Settling" /\ due
    /\ Within
    /\ ep' = Waiting(ep, "Pin") /\ due' = FALSE
    /\ UNCHANGED <<out, ids, chip, before, wireVars, others>>

PinReached ==
    /\ AtStep("Busy") /\ ep.job.wait = "Pin" /\ ~PinLow(chip)
    /\ Within
    /\ ep' = Advanced(ep) /\ due' = FALSE
    /\ UNCHANGED <<out, ids, chip, before, wireVars, others>>

TimedOut ==
    /\ AtStep("Busy") /\ ep.job.wait = "Pin" /\ PinLow(chip) /\ due
    /\ Within
    /\ ep' = Failed(ep) /\ due' = FALSE
    /\ Respond(FALSE)
    /\ UNCHANGED <<chip, before, wireVars, others>>

KeepWaiting ==
    /\ AtStep("Busy") /\ ~due
    /\ ep.job.wait = "Settling" \/ (ep.job.wait = "Pin" /\ PinLow(chip))
    /\ InEpaper /\ Skip
    /\ UNCHANGED <<out, ids, ep, due, chip, before, wireVars, others>>

EpaperSteps ==
    \/ Idle \/ RefuseRequest \/ StartJob \/ FinishJob \/ SetFlag \/ RunTx
    \/ BeginWait \/ Settled \/ PinReached \/ TimedOut \/ KeepWaiting

-----------------------------------------------------------------------------
(* the end of task_loop's round *)

PinAwaited == up /\ HasJob(ep) /\ ep.job.wait = "Pin"

\* The responses go to the kernel's inbox; then the interrupt is enabled on an
\* awaited pin, and after that the pin is read again.
SendAndArm ==
    /\ pc = "Send" /\ pc' = IF PinAwaited THEN "Reread" ELSE "Wait"
    /\ answers' = answers \o out /\ out' = <<>>
    /\ armed' = (armed \/ PinAwaited)
    /\ UNCHANGED <<handleVars, notified, scanVars, retry, ids, ep, want, due, chip, before,
                   wireVars, others>>

Reread ==
    /\ pc = "Reread"
    /\ pc' = IF PinLow(chip) THEN "Wait" ELSE "Recv"
    /\ UNCHANGED <<handleVars, notified, out, scanVars, retry, ids, ep, want, armed, due, chip,
                   answers, before, wireVars, others>>

\* wake's deadline
DeadlinePassed == IF up THEN HasJob(ep) /\ ep.job.wait # "None" /\ due ELSE retry = "Now"

\* Mutant of Wake: only a notification ends the wait.
WakeNotified ==
    /\ pc = "Wait" /\ notified
    /\ pc' = "Recv" /\ notified' = FALSE
    /\ UNCHANGED <<handleVars, out, scanVars, retry, ids, ep, want, armed, due, chip, answers,
                   before, wireVars, others>>

Wake ==
    /\ pc = "Wait" /\ (notified \/ DeadlinePassed)
    /\ pc' = "Recv" /\ notified' = FALSE
    /\ UNCHANGED <<handleVars, out, scanVars, retry, ids, ep, want, armed, due, chip, answers,
                   before, wireVars, others>>

-----------------------------------------------------------------------------
(* time, the interrupt, the panel, the other devices *)

SettleTime ==
    /\ HasJob(ep) /\ ep.job.wait = "Settling" /\ ~due /\ chip.busy # "Lag"
    /\ due' = TRUE
    /\ UNCHANGED <<handleVars, pc, notified, out, scanVars, retry, ids, ep, want, armed, chip,
                   answers, before, wireVars, others>>

BusyDeadline ==
    /\ HasJob(ep) /\ ep.job.wait = "Pin" /\ ~due
    /\ Counted(TRUE)
    /\ due' = TRUE
    /\ UNCHANGED <<handleVars, pc, notified, out, scanVars, retry, ids, ep, want, armed, chip,
                   answers, before, busVars, broken, others>>

RetryTime ==
    /\ retry = "Later" /\ ~up /\ retry' = "Now"
    /\ UNCHANGED <<handleVars, pc, notified, out, scanVars, ids, ep, want, armed, due, chip,
                   answers, before, wireVars, others>>

\* A level interrupt: taken as soon as BUSY reads high, then disabled.
Interrupt ==
    /\ armed /\ ~PinLow(chip)
    /\ armed' = FALSE /\ notified' = TRUE
    /\ UNCHANGED <<handleVars, pc, out, scanVars, retry, ids, ep, want, due, chip, answers,
                   before, wireVars, others>>

PanelWorks ==
    /\ \/ chip.busy = "Lag" /\ chip' = [chip EXCEPT !.busy = "Low"]
       \/ chip.busy = "Low" /\ chip' = [chip EXCEPT !.busy = "No"]
    /\ UNCHANGED <<handleVars, pc, notified, out, scanVars, retry, ids, ep, want, armed, due,
                   answers, before, wireVars, others>>

\* A mock device gets a request: the task is notified of it.
OtherWants(i) ==
    /\ i # 0 /\ ~want[i] /\ others < MaxOthers
    /\ others' = others + 1
    /\ want' = [want EXCEPT ![i] = TRUE] /\ notified' = TRUE
    /\ UNCHANGED <<handleVars, pc, out, scanVars, retry, ids, ep, armed, due, chip, answers,
                   before, wireVars>>

-----------------------------------------------------------------------------
Task ==
    \/ Recv \/ Begin \/ EpaperSteps
    \/ \E i \in Slots : RunOther(i) \/ SkipOther(i)
    \/ SendAndArm \/ Reread \/ Wake

Time == SettleTime \/ RetryTime

Next ==
    \/ \E r \in Requests : Submit(r)
    \/ Notify \/ Task \/ Time \/ BusyDeadline \/ Interrupt \/ PanelWorks
    \/ \E i \in Slots : OtherWants(i)

\* The kernel finishes its submit, the task runs, time goes by, interrupts are
\* taken and the panel ends what it began. Faults and timeouts are bounded.
Fairness ==
    /\ WF_vars(Notify) /\ WF_vars(Task) /\ WF_vars(SettleTime) /\ WF_vars(RetryTime)
    /\ WF_vars(Interrupt) /\ WF_vars(PanelWorks)
Spec == Init /\ [][Next]_vars
FairSpec == Spec /\ Fairness

-----------------------------------------------------------------------------
\* What the wire and the controller demand, whatever failed before: no byte
\* while the panel is busy, no refresh with the drive voltages off, no data
\* without its command or beyond its window (epaper/tests/sim.rs), no chip
\* select before the last device released the bus or before CMD0 (bus.rs B2,
\* B4).
HardwareRules == broken = {}

\* S1: "a device with a transaction ready runs before any other device runs
\* two" (scheduler.rs:11).
RoundRobin == \A i, j \in Slots : passed[i][j] <= 1

\* Every request is answered (scheduler.rs:15), whatever fails.
AllAnswered == asked > Len(answers) ~> asked = Len(answers)

\* The task keeps what PanelTask promises: one answer for each request, in
\* order, and the effect of each as a whole, once it is answered.
Outstanding ==
    (IF HasJob(ep) THEN <<ep.job.request>> ELSE <<>>) \o ep.queue
Pending ==
    [n \in 1 .. Len(ids) |-> [id |-> ids[n], request |-> Outstanding[n]]] \o channel
Meanwhile == IF HasJob(ep) THEN before ELSE Seen

Promise == INSTANCE PanelTask WITH
    epKnown <- Meanwhile.known, epPower <- Meanwhile.power,
    volts <- Meanwhile.volts, panel <- Meanwhile.screen,
    pending <- Pending, answers <- answers \o out
KeepsPromise == Promise!Spec
=============================================================================
