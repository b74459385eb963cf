--------------------------- MODULE DisplayService ---------------------------
(***************************************************************************)
(* The kernel's display service and lock (core/src/kernel.rs, power.rs)    *)
(* run by the device's main loop (device/src/main.rs), with its inbox of   *)
(* keys and spi responses, and the e-paper task at the other end: it takes *)
(* one draw or power-off at a time and answers it later (PanelEffects; the *)
(* task itself is SpiTask). Handling one event is one step, with           *)
(* everything the handler does, the pump at its end included.              *)
(*                                                                         *)
(* The keyboard holds its line low while its chip has strokes in it, and   *)
(* that line wakes the processor (device/src/sleep.rs); the input task     *)
(* takes them out and posts the keys (InputTask has it in full). Releases, *)
(* Shift, Sym and Alt are strokes that post nothing.                       *)
(*                                                                         *)
(* "Now" is abstract: all the code tests of it is whether PANEL_IDLE_MS    *)
(* went by since the last draw.                                            *)
(***************************************************************************)
EXTENDS PanelEffects, Sequences

CONSTANTS
    TermImages,     \* what the terminal may show; the boot screen is one
    BootImage,
    LockImage,      \* the lockscreen
    ByeImage,       \* the terminal with the goodbye line of `poweroff`
    MaxStrokes, MaxSilent, MaxDrawFailures, MaxOffFailures

ASSUME ImagesAssumption ==
    /\ TermImages \subseteq Image
    /\ BootImage \in TermImages /\ {LockImage, ByeImage} \subseteq Image
ASSUME BoundsAssumption ==
    {MaxStrokes, MaxSilent, MaxDrawFailures, MaxOffFailures} \subseteq Nat

VARIABLES
    (* Kernel and Display *)
    fb,
    locked,
    term,           \* what the terminal holds
    inFlight,       \* "None", "Draw" or "PowerOff"
    panelOn,        \* drive voltages may be on
    powerOffNow,    \* power off as soon as nothing else is pending
    (* the main loop *)
    pc,             \* "Boot", "Wait", "Check" (may we sleep?), "Asleep",
                    \* "Roused" (waits, sent there by the keyboard's line),
                    \* "Finish" and "Drain" (finish_display), "Down"
    inbox,          \* keys and spi responses, in order
    elapsed,        \* PANEL_IDLE_MS went by since the last draw
    job,            \* the request the e-paper task works on
    (* the keyboard and the input task *)
    chip,           \* strokes in the chip, oldest first
    held,           \* the stroke the task has taken and is to post
    (* history and bounds *)
    waitedOut,      \* finish_display gave up
    offFailed,      \* a power-off failed, and nothing was drawn since
    strokes, silents, drawFailures, offFailures

kernelVars == <<fb, locked, term, inFlight, panelOn, powerOffNow>>
keyboard == <<chip, held>>
taskBounds == <<drawFailures, offFailures>>
bounds == <<strokes, silents, taskBounds>>
\* What no handler of the main loop touches
outside == <<keyboard, epVars, offFailed, bounds>>
vars == <<kernelVars, pc, inbox, elapsed, job, waitedOut, outside>>

NoJob == [op |-> "None"]
DrawJob(flush) == [op |-> "Draw", flush |-> flush]
OffJob == [op |-> "PowerOff"]
Jobs == {NoJob, OffJob} \cup [op : {"Draw"}, flush : Flush]

KeyEvent(k) == [t |-> "Key", key |-> k]
Response(ok) == [t |-> "Spi", ok |-> ok]
TypeKey(image) == [k |-> "Type", image |-> image]
LockKey == [k |-> "Lock"]
OffKey == [k |-> "PowerOff"]
Keys == {LockKey, OffKey} \cup {TypeKey(i) : i \in TermImages}
Silent == [k |-> "Silent"]
Strokes == Keys \cup {Silent}

Init ==
    /\ fb = Drawn(NewBuffer, Screen, BootImage)
    /\ locked = FALSE /\ term = BootImage
    /\ inFlight = "None" /\ panelOn = FALSE /\ powerOffNow = FALSE
    /\ pc = "Boot" /\ inbox = <<>> /\ elapsed = FALSE
    /\ job = NoJob /\ epKnown = FALSE /\ epPower = FALSE
    /\ volts \in BOOLEAN /\ panel \in {LockImage, ByeImage}
    /\ chip = <<>> /\ held = Silent
    /\ waitedOut = FALSE /\ offFailed = FALSE
    /\ strokes = 0 /\ silents = 0 /\ drawFailures = 0 /\ offFailures = 0

-----------------------------------------------------------------------------
(* Display *)

Busy == inFlight # "None"
\* Mutant: a request in flight does not count.
IdleWhileBusy == ~NeedsFlush(fb) /\ ~(panelOn /\ powerOffNow)
Idle == ~Busy /\ ~NeedsFlush(fb) /\ ~(panelOn /\ powerOffNow)

\* Mutant of pump: sends whatever is due with a request in flight, too
PumpAnyway(f, on, now, due, busy) ==
    LET flush == FlushOf(f)
        draws == flush # NoFlush
        off == ~draws /\ on /\ (now \/ due)
    IN
    /\ panelOn' = on /\ powerOffNow' = now
    /\ fb' = Begun(f)
    /\ inFlight' = CASE draws -> "Draw"
                     [] off -> "PowerOff"
                     [] OTHER -> IF busy THEN inFlight ELSE "None"
    /\ job' = CASE draws -> DrawJob(flush) [] off -> OffJob [] OTHER -> job

\* pump: f, on and now are fb, panelOn and powerOffNow as the handler leaves
\* them, busy whether a request is in flight, due whether PANEL_IDLE_MS is
\* over.
Pump(f, on, now, due, busy) ==
    LET flush == FlushOf(f)
        draws == ~busy /\ flush # NoFlush
        off == ~busy /\ ~draws /\ on /\ (now \/ due)
    IN
    /\ panelOn' = on /\ powerOffNow' = now
    /\ fb' = IF busy THEN f ELSE Begun(f)
    /\ inFlight' = CASE draws -> "Draw"
                     [] off -> "PowerOff"
                     [] busy -> inFlight
                     [] OTHER -> "None"
    /\ job' = CASE draws -> DrawJob(flush) [] off -> OffJob [] OTHER -> job

\* Event::Deadline and events that change nothing: pump only
PumpOnly == Pump(fb, panelOn, powerOffNow, elapsed, Busy)

\* Mutants of on_response: a draw does not switch the panel on; a power-off is
\* not recorded.
OnDrawnStaysOff(ok) ==
    /\ inFlight = "Draw"
    /\ elapsed' = FALSE
    /\ Pump(Ended(fb, ok), panelOn, powerOffNow, FALSE, FALSE)

OnPoweredOffForgets ==
    /\ inFlight = "PowerOff"
    /\ Pump(fb, panelOn, powerOffNow, elapsed, FALSE)
    /\ UNCHANGED elapsed

\* on_response, then the pump
OnDrawn(ok) ==
    /\ inFlight = "Draw"
    /\ elapsed' = FALSE
    /\ Pump(Ended(fb, ok), TRUE, powerOffNow, FALSE, FALSE)

OnPoweredOff ==
    /\ inFlight = "PowerOff"
    /\ Pump(fb, FALSE, FALSE, elapsed, FALSE)
    /\ UNCHANGED elapsed

-----------------------------------------------------------------------------
(* Kernel::on_key, then the pump *)

Painted(image) == Drawn(fb, Screen, image)

\* Mutant: unlocking renders while it is still locked.
ExitLockTooLate ==
    /\ locked /\ locked' = FALSE
    /\ Pump(Invalidated(fb), panelOn, powerOffNow, elapsed, Busy)
    /\ UNCHANGED term

EnterLock ==
    /\ ~locked /\ locked' = TRUE
    /\ Pump(Invalidated(Painted(LockImage)), panelOn, TRUE, elapsed, Busy)
    /\ UNCHANGED term

ExitLock ==
    /\ locked /\ locked' = FALSE
    /\ Pump(Invalidated(Painted(term)), panelOn, powerOffNow, elapsed, Busy)
    /\ UNCHANGED term

\* Any input that changes what the terminal shows
TypeText(image) ==
    /\ ~locked
    /\ term' = image
    /\ Pump(Painted(image), panelOn, powerOffNow, elapsed, Busy)
    /\ UNCHANGED locked

\* The shell's `poweroff`; main then goes into finish_display.
ShellPowerOff ==
    /\ ~locked
    /\ term' = ByeImage
    /\ Pump(Painted(ByeImage), panelOn, TRUE, elapsed, Busy)
    /\ UNCHANGED locked

IgnoredKey ==
    /\ locked
    /\ PumpOnly
    /\ UNCHANGED <<locked, term>>

-----------------------------------------------------------------------------
(* The main loop *)

\* First pass: draw the boot screen.
Boot ==
    /\ pc = "Boot" /\ pc' = "Check"
    /\ PumpOnly
    /\ UNCHANGED <<locked, term, inbox, elapsed, waitedOut, outside>>

Received(event) ==
    /\ inbox # <<>> /\ event = Head(inbox)
    /\ inbox' = Tail(inbox)
    /\ UNCHANGED <<waitedOut, outside>>

\* wait()
Waiting == pc \in {"Wait", "Roused"}

HandleKey(key) ==
    /\ Waiting
    /\ Received(KeyEvent(key))
    /\ \/ key = LockKey /\ (EnterLock \/ ExitLock)
       \/ key.k = "Type" /\ TypeText(key.image)
       \/ key = OffKey /\ ShellPowerOff
       \/ key # LockKey /\ IgnoredKey
    /\ pc' = IF key = OffKey /\ ~locked THEN "Finish" ELSE "Check"
    /\ UNCHANGED elapsed

\* finish_display: keys are dropped.
DropKey ==
    /\ pc = "Drain" /\ pc' = "Finish"
    /\ \E key \in Keys : Received(KeyEvent(key))
    /\ UNCHANGED <<kernelVars, elapsed, job>>

Looped == pc' = IF pc = "Drain" THEN "Finish" ELSE "Check"

HandleSpi ==
    /\ Waiting \/ pc = "Drain"
    /\ Looped
    /\ \E ok \in BOOLEAN :
          /\ Received(Response(ok))
          /\ OnDrawn(ok) \/ OnPoweredOff
    /\ UNCHANGED <<locked, term>>

\* wait() timed out: only with a deadline to wait for, and nothing received
HandleDeadline ==
    /\ Waiting \/ pc = "Drain"
    /\ Looped
    /\ inbox = <<>>
    /\ ~Busy /\ panelOn /\ elapsed
    /\ PumpOnly
    /\ UNCHANGED <<locked, term, inbox, elapsed, waitedOut, outside>>

\* sleep::enter: refused at once while the keyboard's line is low.
LineLow == chip # <<>>

\* Locked with the lockscreen drawn, and nothing received: sleep.
CheckSleep ==
    /\ pc = "Check"
    /\ pc' = CASE ~(locked /\ Idle) \/ inbox # <<>> -> "Wait"
                [] locked /\ Idle /\ inbox = <<>> -> IF LineLow THEN "Roused" ELSE "Asleep"
    /\ UNCHANGED <<kernelVars, inbox, elapsed, job, waitedOut, outside>>

\* The line wakes the processor, whatever stroke it is; the loop goes on to
\* wait for the next event.
Wake ==
    /\ pc = "Asleep" /\ LineLow
    /\ pc' = "Roused"
    /\ UNCHANGED <<kernelVars, inbox, elapsed, job, waitedOut, outside>>

\* The head of finish_display's loop; SHUTDOWN_DISPLAY_WAIT may be over.
FinishDisplay ==
    /\ pc = "Finish"
    /\ \/ ~Idle /\ pc' = "Drain" /\ UNCHANGED waitedOut
       \/ pc' = "Down" /\ waitedOut' = ~Idle
    /\ UNCHANGED <<kernelVars, inbox, elapsed, job, outside>>

-----------------------------------------------------------------------------
(* Time and the user. The time since the last draw matters only while the  *)
(* panel is on: the next draw starts it again.                             *)

Elapse ==
    /\ panelOn /\ ~elapsed /\ pc # "Down"
    /\ elapsed' = TRUE
    /\ UNCHANGED <<kernelVars, pc, inbox, job, waitedOut, outside>>

Strike(stroke) ==
    /\ pc # "Down"
    /\ strokes < MaxStrokes /\ strokes' = strokes + 1
    /\ chip' = Append(chip, stroke)
    /\ UNCHANGED <<kernelVars, pc, inbox, elapsed, job, held, epVars, waitedOut, offFailed, taskBounds>>

PressKey ==
    /\ \E key \in Keys : Strike(key)
    /\ UNCHANGED silents

\* A key is released, or Shift, Sym or Alt pressed.
StrikeSilent ==
    /\ Strike(Silent)
    /\ silents < MaxSilent /\ silents' = silents + 1

-----------------------------------------------------------------------------
(* The input task: takes a stroke, which frees the line if it was the last,  *)
(* and posts the key if it is one.                                         *)

Awake == pc \notin {"Asleep", "Down"}

TakeStroke ==
    /\ Awake /\ held = Silent /\ chip # <<>>
    /\ held' = Head(chip) /\ chip' = Tail(chip)
    /\ UNCHANGED <<kernelVars, pc, inbox, elapsed, job, epVars, waitedOut, offFailed, bounds>>

PostKey ==
    /\ Awake /\ held # Silent
    /\ inbox' = Append(inbox, KeyEvent(held)) /\ held' = Silent
    /\ UNCHANGED <<kernelVars, pc, elapsed, job, chip, epVars, waitedOut, offFailed, bounds>>

Input == TakeStroke \/ PostKey

-----------------------------------------------------------------------------
(* The e-paper task: finishes its job, or refuses it, and responds.        *)

Respond(ok) ==
    /\ pc # "Down"
    /\ job' = NoJob
    /\ inbox' = Append(inbox, Response(ok))
    /\ UNCHANGED <<kernelVars, pc, elapsed, waitedOut, keyboard, strokes, silents>>

RefusePartial ==
    /\ job.op = "Draw" /\ Refused(job.flush)
    /\ Respond(FALSE)
    /\ UNCHANGED <<offFailed, taskBounds>>

DrawSucceeds ==
    /\ job.op = "Draw" /\ Shown(job.flush)
    /\ Respond(TRUE)
    /\ offFailed' = FALSE
    /\ UNCHANGED taskBounds

DrawFails ==
    /\ job.op = "Draw" /\ Spoilt(job.flush)
    /\ drawFailures < MaxDrawFailures /\ drawFailures' = drawFailures + 1
    /\ Respond(FALSE)
    /\ UNCHANGED <<offFailed, offFailures>>

PowerOffSucceeds ==
    /\ job.op = "PowerOff" /\ SwitchedOff
    /\ Respond(TRUE)
    /\ UNCHANGED <<offFailed, taskBounds>>

PowerOffFails ==
    /\ job.op = "PowerOff" /\ SwitchOffFailed
    /\ offFailures < MaxOffFailures /\ offFailures' = offFailures + 1
    /\ Respond(FALSE)
    /\ offFailed' = TRUE
    /\ UNCHANGED drawFailures

-----------------------------------------------------------------------------
Loop ==
    \/ Boot
    \/ \E key \in Keys : HandleKey(key)
    \/ DropKey \/ HandleSpi \/ HandleDeadline
    \/ CheckSleep \/ Wake \/ FinishDisplay

Task ==
    \/ RefusePartial \/ DrawSucceeds \/ DrawFails
    \/ PowerOffSucceeds \/ PowerOffFails

Next == Loop \/ Input \/ Task \/ Elapse \/ PressKey \/ StrikeSilent

\* The loop never stops, the input task runs, the e-paper task answers every
\* request, time goes by. The user presses what he likes.
Fairness == WF_vars(Loop) /\ WF_vars(Input) /\ WF_vars(Task) /\ WF_vars(Elapse)
Spec == Init /\ [][Next]_vars
FairSpec == Spec /\ Fairness

-----------------------------------------------------------------------------
TypeOK ==
    /\ fb \in FrameBufferType
    /\ locked \in BOOLEAN /\ panelOn \in BOOLEAN /\ powerOffNow \in BOOLEAN
    /\ term \in TermImages \cup {ByeImage}
    /\ inFlight \in {"None", "Draw", "PowerOff"}
    /\ pc \in {"Boot", "Wait", "Check", "Asleep", "Roused", "Finish", "Drain", "Down"}
    /\ chip \in Seq(Strokes) /\ held \in Strokes
    /\ inbox \in Seq({KeyEvent(k) : k \in Keys} \cup {Response(ok) : ok \in BOOLEAN})
    /\ job \in Jobs
    /\ elapsed \in BOOLEAN /\ waitedOut \in BOOLEAN /\ offFailed \in BOOLEAN
    /\ epKnown \in BOOLEAN /\ epPower \in BOOLEAN /\ volts \in BOOLEAN
    /\ panel \in Image

Responses == {i \in DOMAIN inbox : inbox[i].t = "Spi"}

\* "At most one spi request in flight; every response is matched to it"
\* (kernel.rs:23): what the kernel waits for is being worked on or answered in
\* its inbox, once, and nothing else is.
Matched ==
    /\ Cardinality(Responses) + (IF job = NoJob THEN 0 ELSE 1) = (IF Busy THEN 1 ELSE 0)
    /\ job # NoJob => job.op = inFlight
    /\ Flushing(fb) <=> inFlight = "Draw"

\* "What the framebuffer believes is on the panel changes only on a successful
\* draw" (kernel.rs:24): between draws, what it believes is what is there.
CommittedIsShown == fb.known /\ inFlight # "Draw" => fb.committed = panel

\* The invariants the kernel states of itself (kernel.rs:22-24).
KernelInvariants == Matched /\ CommittedIsShown

\* The device never sleeps on anything but the lockscreen (main.rs:175), nor
\* switches off on anything but the goodbye message unless it gave up waiting
\* (main.rs:203-204), whatever was drawn or failed before.
LeftShowing ==
    /\ pc = "Asleep" => locked /\ panel = LockImage
    /\ pc = "Down" /\ ~waitedOut => panel = ByeImage

\* Locked and left alone the device goes to sleep (main.rs:175-183), whatever
\* failed and whatever came while the lockscreen was drawn. Only the keyboard's
\* line keeps it awake: a stroke that comes when it sleeps or is about to, even
\* one that posts nothing, sends the loop into wait(), and it looks again after
\* the next event only (main.rs:136, 194); with the panel off none need come.
Sleeps == <>[](pc # "Down" => (locked <=> pc \in {"Asleep", "Roused"}))

\* Left alone, the panel shows what the kernel last drew and, awake, its
\* drive voltages are off (kernel.rs:17-19) whatever failed before. A power-off
\* that fails is not repeated: it takes the next draw to make up for it.
ShowsLast == <>[](pc # "Down" => panel = IF locked THEN LockImage ELSE term)
GoesDark == <>[](Waiting /\ ~offFailed => ~volts)

\* The documentation says more than the code does:
\* "Locked with the lockscreen drawn and the panel off: sleep until a key"
\* (main.rs:175); the drive voltages go off "at once when locking".
AsleepIsDark == pc = "Asleep" /\ drawFailures + offFailures = 0 => ~volts
=============================================================================
