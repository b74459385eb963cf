------------------------------ MODULE InputTask ------------------------------
(* The input task, the I2C bus it owns and the chips on it:
   device/src/input_service.rs, device/src/keyboard.rs, device/src/i2c_bus.rs.

   One step is one I2C transaction, one look at the interrupt line or one
   channel operation, so keys are pressed, the interrupt fires and requests
   arrive between any two of them.  A transaction may fail, a bounded number of times.

   Two processes: the keyboard chip with the interrupt line (Press, Isr) and
   the task.  The main loop is added by Handset.tla, through `inbox`, `asks`
   and `answer`.  Battery::new() and Charger::new() read a register and ignore
   the outcome; they are left out. *)
EXTENDS KeyMapper, Gauge, Faults

CONSTANTS
    FifoCap,   \* strokes the keyboard chip holds
    OnUsb      \* the charger sees USB power

ASSUME InputAssumption ==
    /\ FifoCap \in Nat \ {0}
    /\ OnUsb \in BOOLEAN
    /\ "Spi" \notin {AltKeys[k] : k \in DOMAIN AltKeys}  \* an event of the panel's

VARIABLES
    chip,     \* the TCA8418: configured, FIFO, K_INT
    task,     \* the input task: where it is and what it holds
    mapper,   \* KeyMapper
    gauge,    \* the BQ27220
    charger,  \* the BQ25896
    irq,      \* GPIO15: the interrupt is armed, the task has been notified
    asks,     \* requests sent to the task
    answer,   \* the reply to the one request there is, or None
    inbox,    \* the kernel's inbox
    asleep,   \* the processor is in light sleep
    due       \* what the strokes pressed so far still owe the kernel

inputVars == <<chip, task, mapper, gauge, charger, irq, asks, answer, inbox,
               asleep, due>>

None == [is |-> "none"]
Empty == <<>>
Stroke(k, down) == [k |-> k, down |-> down]

(* The event the spi task posts when the display is done, and the others. *)
SpiEvent == [key |-> "Spi"]
KeysIn(events) ==
    LET f[i \in 0..Len(events)] ==
          IF i = 0 THEN Empty
          ELSE IF events[i] = SpiEvent THEN f[i - 1]
          ELSE Append(f[i - 1], events[i])
    IN f[Len(events)]

(* The events so far and the toggles, `so`, after one stroke more, and after a
   sequence of them. *)
Gains(so, stroke) ==
    LET y == Process(so.mapper, stroke)
    IN [events |-> IF y.event = NoEvent THEN so.events
                   ELSE Append(so.events, y.event),
        mapper |-> y.mapper]
Gives(so, strokes) ==
    LET f[i \in 0..Len(strokes)] ==
          IF i = 0 THEN so ELSE Gains(f[i - 1], strokes[i])
    IN f[Len(strokes)]

TaskInit ==
    [pc |-> "setup", setup |-> 1, stroke |-> None, steps |-> Empty,
     who |-> None, seen |-> ChargerInit, keyboard |-> TRUE]

InputInit(faults) ==
    /\ chip = [on |-> FALSE, fifo |-> Empty, int |-> FALSE]
    /\ task = TaskInit
    /\ mapper = NoModifiers
    /\ gauge = GaugeInit
    /\ charger = ChargerInit
    /\ irq = [armed |-> FALSE, notified |-> FALSE]
    /\ asks = Empty
    /\ answer = None
    /\ inbox = Empty
    /\ asleep = FALSE
    /\ due = [events |-> Empty, mapper |-> NoModifiers]
    /\ TroubleInit(faults)

----------------------------------------------------------------------------
(* The chip and the interrupt. *)

(* A stroke enters the FIFO and sets K_INT; a full FIFO drops it.  What it is
   to give is worked out here, from the strokes alone. *)
Press(k, down) ==
    /\ chip.on
    /\ IF Len(chip.fifo) < FifoCap
       THEN /\ chip' = [chip EXCEPT !.fifo = Append(@, Stroke(k, down)),
                                    !.int = TRUE]
            /\ due' = Gains(due, Stroke(k, down))
            /\ UNCHANGED trouble
       ELSE /\ trouble' = [trouble EXCEPT !.lost = TRUE]
            /\ UNCHANGED <<chip, due>>
    /\ UNCHANGED <<task, mapper, gauge, charger, irq, asks, answer, inbox,
                   asleep>>

(* The level interrupt: it notifies the task and stays disabled until the task
   arms it again. *)
Isr ==
    /\ ~asleep
    /\ irq.armed
    /\ chip.int
    /\ irq' = [armed |-> FALSE, notified |-> TRUE]
    /\ UNCHANGED <<chip, task, mapper, gauge, charger, asks, answer, inbox,
                   asleep, due, trouble>>

(* ext0 wakes the processor while the keyboard holds the line low. *)
Wake ==
    /\ asleep
    /\ chip.int
    /\ asleep' = FALSE
    /\ UNCHANGED <<chip, task, mapper, gauge, charger, irq, asks, answer,
                   inbox, due, trouble>>

GaugeSettles ==
    /\ Unsettled(gauge)
    /\ gauge' = Settled(gauge)
    /\ UNCHANGED <<chip, task, mapper, charger, irq, asks, answer, inbox,
                   asleep, due, trouble>>

WatchdogExpires ==
    /\ charger.watchdog
    /\ ~charger.longPress
    /\ charger' = Reverted(charger)
    /\ UNCHANGED <<chip, task, mapper, gauge, irq, asks, answer, inbox, asleep,
                   due, trouble>>

----------------------------------------------------------------------------
(* The task's transactions. *)

(* The task is at `pc` and the processor runs. *)
TaskAt(pc) == ~asleep /\ ~charger.shipped /\ task.pc = pc

(* The transaction fails: counted, and the stroke held, if any, is lost. *)
Faulty == Mishap(IF task.stroke = None THEN "nothing" ELSE "lost")

Busy == <<irq, asks, answer, inbox, asleep, due>>

(* Boot: disable_watchdog() and disable_long_press_reset() each read, write if
   the field is set, and read back; a failure ends that call alone and is only
   logged.  Keyboard::new() then configures the matrix and flushes the FIFO; a
   failure there leaves the task without a keyboard for good. *)
SetupSteps ==
    << [field |-> "watchdog", do |-> "read"],
       [field |-> "watchdog", do |-> "write"],
       [field |-> "watchdog", do |-> "check"],
       [field |-> "longPress", do |-> "read"],
       [field |-> "longPress", do |-> "write"],
       [field |-> "longPress", do |-> "check"],
       [field |-> "keyboard", do |-> "configure"],
       [field |-> "keyboard", do |-> "flush"] >>

ThisSetup == SetupSteps[task.setup]
(* The index of the first step about another field, after `i`. *)
NextField(i) ==
    CHOOSE j \in i..(Len(SetupSteps) + 1) :
        /\ j = Len(SetupSteps) + 1 \/ SetupSteps[j].field # SetupSteps[i].field
        /\ \A m \in i..(j - 1) : SetupSteps[m].field = SetupSteps[i].field

SetupAt(i, keyboard) ==
    [task EXCEPT !.pc = IF i > Len(SetupSteps) THEN "count" ELSE "setup",
                 !.setup = IF i > Len(SetupSteps) THEN @ ELSE i,
                 !.keyboard = keyboard,
                 !.seen = IF i > Len(SetupSteps) THEN ChargerInit ELSE charger]

Setup ==
    /\ TaskAt("setup")
    /\ LET s == ThisSetup
           next == IF s.do = "read" /\ ~charger[s.field] THEN 2 ELSE 1
       IN /\ task' = SetupAt(task.setup + next, TRUE)
          /\ charger' = IF s.do = "write" THEN Cleared(charger, s.field)
                        ELSE charger
          /\ chip' = CASE s.do = "configure" -> [chip EXCEPT !.on = TRUE]
                       [] s.do = "flush" ->
                            [chip EXCEPT !.fifo = Empty, !.int = FALSE]
                       [] OTHER -> chip
          /\ trouble' = [trouble EXCEPT
                 !.lost = @ \/ (s.do = "flush" /\ chip.fifo # Empty)]
    /\ UNCHANGED <<mapper, gauge, Busy>>

SetupFails ==
    /\ TaskAt("setup")
    /\ LET k == ThisSetup.field = "keyboard"
       IN /\ task' = SetupAt(NextField(task.setup), ~k)
          /\ Mishap(IF k THEN "lost" ELSE "nothing")
    /\ UNCHANGED <<chip, mapper, gauge, charger, Busy>>

----------------------------------------------------------------------------
(* Keyboard::poll(), until it returns None. *)

(* The key count: none left ends the polling. *)
Count ==
    /\ TaskAt("count")
    /\ task' = [task EXCEPT !.pc = IF task.keyboard /\ chip.fifo # Empty
                                   THEN "read" ELSE "serve"]
    /\ UNCHANGED <<chip, mapper, gauge, charger, trouble, Busy>>

ReadStroke ==
    /\ TaskAt("read")
    /\ task' = [task EXCEPT !.pc = "left", !.stroke = Head(chip.fifo)]
    /\ chip' = [chip EXCEPT !.fifo = Tail(@)]
    /\ UNCHANGED <<mapper, gauge, charger, trouble, Busy>>

(* The count again: K_INT is cleared only if nothing is left. *)
Left ==
    /\ TaskAt("left")
    /\ task' = [task EXCEPT !.pc = IF chip.fifo = Empty THEN "clear" ELSE "post"]
    /\ UNCHANGED <<chip, mapper, gauge, charger, trouble, Busy>>

ClearInt ==
    /\ TaskAt("clear")
    /\ chip' = [chip EXCEPT !.int = FALSE]
    /\ task' = [task EXCEPT !.pc = "post"]
    /\ UNCHANGED <<mapper, gauge, charger, trouble, Busy>>

(* The stroke goes through the mapper, and its event to the kernel.  The second
   is what the task does; the first forgets the toggles the key has changed. *)
PostForgets ==
    /\ TaskAt("post")
    /\ LET y == Process(mapper, task.stroke)
       IN inbox' = IF y.event = NoEvent THEN inbox ELSE Append(inbox, y.event)
    /\ task' = [task EXCEPT !.pc = "count", !.stroke = None]
    /\ UNCHANGED <<chip, mapper, gauge, charger, irq, asks, answer, asleep, due,
                   trouble>>
Post ==
    /\ TaskAt("post")
    /\ LET y == Process(mapper, task.stroke)
       IN /\ mapper' = y.mapper
          /\ inbox' = IF y.event = NoEvent THEN inbox
                      ELSE Append(inbox, y.event)
    /\ task' = [task EXCEPT !.pc = "count", !.stroke = None]
    /\ UNCHANGED <<chip, gauge, charger, irq, asks, answer, asleep, due, trouble>>

(* A failed transaction ends the polling, with whatever stroke it held. *)
PollFails ==
    /\ task.pc \in {"count", "read", "left", "clear"}
    /\ TaskAt(task.pc)
    /\ task.keyboard
    /\ Faulty
    /\ task' = [task EXCEPT !.pc = "serve", !.stroke = None]
    /\ UNCHANGED <<chip, mapper, gauge, charger, Busy>>

----------------------------------------------------------------------------
(* The requests: each gets one reply. *)

Serve ==
    /\ TaskAt("serve")
    /\ IF asks = Empty
       THEN /\ task' = [task EXCEPT !.pc = IF task.keyboard THEN "arm"
                                           ELSE "wait"]
            /\ UNCHANGED asks
       ELSE /\ task' = [task EXCEPT
                   !.pc = "work", !.who = Head(asks),
                   !.steps = IF Head(asks).dev = "charger"
                             THEN << [step |-> "seen"], [step |-> "ship"] >>
                             ELSE GaugeSteps(Head(asks).op)]
            /\ asks' = Tail(asks)
    /\ UNCHANGED <<chip, mapper, gauge, charger, irq, answer, inbox, asleep,
                   due, trouble>>

Answered(result) ==
    /\ answer' = [is |-> "answer", result |-> result]
    /\ task' = [task EXCEPT !.pc = "serve", !.who = None, !.steps = Empty,
                            !.seen = ChargerInit]

(* One step of the request is done, which may not be the last. *)
Stepped(keep) ==
    IF Len(task.steps) = 1
    THEN Answered("ok")
    ELSE /\ task' = [keep EXCEPT !.steps = Tail(@)]
         /\ UNCHANGED answer

Work ==
    /\ TaskAt("work")
    /\ LET s == Head(task.steps)
       IN \/ /\ s.step = "write"
             /\ gauge' = Told(gauge, s)
             /\ Stepped(task)
             /\ UNCHANGED charger
          \/ /\ s.step = "until"
             /\ OperationStatus(gauge)[s.bit] = s.value
             /\ Stepped(task)
             /\ UNCHANGED <<gauge, charger>>
          \/ /\ s.step = "read"
             /\ Stepped(task)
             /\ UNCHANGED <<gauge, charger>>
          \/ /\ s.step = "seen"
             /\ Stepped([task EXCEPT !.seen = charger])
             /\ UNCHANGED <<gauge, charger>>
          \/ /\ s.step = "ship"
             /\ charger' = Shipped(charger, task.seen, OnUsb)
             /\ Stepped(task)
             /\ UNCHANGED gauge
    /\ UNCHANGED <<chip, mapper, irq, asks, inbox, asleep, due, trouble>>

(* A transaction fails: the operation ends there with Bus.  A bit that does
   not come up in time ends it with Timeout, at the same cost. *)
WorkFails ==
    /\ TaskAt("work")
    /\ Mishap("nothing")
    /\ \/ Answered("bus")
       \/ /\ Head(task.steps).step = "until"
          /\ Answered("timeout")
    /\ UNCHANGED <<chip, mapper, gauge, charger, irq, asks, inbox, asleep, due>>

----------------------------------------------------------------------------
(* Waiting: the interrupt, which has disabled itself, is armed before the line is
   read again, or, in the first of the two, is not. *)

ArmForgets ==
    /\ TaskAt("arm")
    /\ task' = [task EXCEPT !.pc = "look"]
    /\ UNCHANGED <<chip, mapper, gauge, charger, trouble, Busy>>
Arm ==
    /\ TaskAt("arm")
    /\ irq' = [irq EXCEPT !.armed = TRUE]
    /\ task' = [task EXCEPT !.pc = "look"]
    /\ UNCHANGED <<chip, mapper, gauge, charger, asks, answer, inbox, asleep,
                   due, trouble>>

Look ==
    /\ TaskAt("look")
    /\ task' = [task EXCEPT !.pc = IF chip.int THEN "count" ELSE "wait"]
    /\ UNCHANGED <<chip, mapper, gauge, charger, trouble, Busy>>

Notified ==
    /\ TaskAt("wait")
    /\ irq.notified
    /\ irq' = [irq EXCEPT !.notified = FALSE]
    /\ task' = [task EXCEPT !.pc = "count"]
    /\ UNCHANGED <<chip, mapper, gauge, charger, asks, answer, inbox, asleep,
                   due, trouble>>

TaskStep ==
    \/ Setup \/ Count \/ ReadStroke \/ Left \/ ClearInt \/ Post
    \/ Serve \/ Work \/ Arm \/ Look \/ Notified

InputNext ==
    \/ Isr \/ Wake \/ GaugeSettles \/ WatchdogExpires
    \/ TaskStep
    \/ SetupFails \/ PollFails \/ WorkFails

(* The task's thread, the interrupt and the chips get their turn. *)
InputFairness ==
    /\ WF_inputVars(TaskStep)
    /\ WF_inputVars(Isr)
    /\ WF_inputVars(Wake)
    /\ WF_inputVars(GaugeSettles)

----------------------------------------------------------------------------
(* The strokes the task has not delivered yet, oldest first. *)
Undelivered ==
    (IF task.stroke = None THEN Empty ELSE << task.stroke >>) \o chip.fifo

(* Keys reach the kernel in the order pressed, each once and with the modifiers
   that were on when it was pressed: what lies in the inbox and what the
   undelivered strokes will give is exactly what is due, and so are the
   modifiers they will leave.  A failed transfer may
   lose the stroke just read, and the boot flush and a full FIFO drop some;
   after that nothing is claimed. *)
KeysTrue ==
    ~trouble.lost =>
        Gives([events |-> KeysIn(inbox), mapper |-> mapper], Undelivered) = due
=============================================================================
