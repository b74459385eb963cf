-------------------------------- MODULE Handset --------------------------------
(* The handset: the main loop of device/src/main.rs, the kernel's key handling
   (core/src/kernel.rs), the lock (core/src/power.rs) and the in-call loop, over
   the shell and its programs (Programs.tla) and the input task (InputTask.tla).

   The main thread runs one program at a time and blocks in it; keys pile up in
   the inbox meanwhile.  One step is one call of a driver, one event taken, or
   one look at the inbox.  The user types one of Scripts, stroke by stroke.

   Of the display this module keeps only whether it is done with the lock screen
   or the last message: DisplayService.tla has the rest.  The 15 s after which
   finish_display() gives up are left out, a draw being shorter. *)
EXTENDS Programs, InputTask

CONSTANTS
    Scripts, \* sessions: what the flash holds, how many failures there may be,
             \* the strokes, and how many of them are typed patiently
    MaxAhead \* unheard keys an impatient user still adds one to

ASSUME HandsetAssumption == MaxAhead \in Nat

VARIABLES
    script, \* the strokes being typed, and how many of them patiently
    typed,  \* how much of it has been
    main,   \* the main thread: where it is and the job it is at
    ui,     \* terminal, interactive mode, and the last thing said
    screen  \* the display: idle, busy, or done and not yet heard of

mainVars == <<script, typed, main, ui, screen>>
vars == <<inputVars, worldVars, trouble, mainVars>>

MainAt(pc) == ~asleep /\ ~charger.shipped /\ main.pc = pc

HandsetInit ==
    /\ \E i \in DOMAIN Scripts :
          /\ script = [strokes |-> Scripts[i].strokes, patient |-> Scripts[i].patient]
          /\ InputInit(Scripts[i].faults)
          /\ WorldInit(Scripts[i].flash, Scripts[i].texts, Scripts[i].radio)
    /\ typed = 0
    /\ main = [pc |-> "job", job |-> BootJob, to |-> "boot", locked |-> FALSE,
               volume |-> MaxVolume]
    /\ ui = [term |-> NewTerminal, mode |-> NoMode, said |-> Nothing]
    /\ screen = "idle"

----------------------------------------------------------------------------
(* The user, and the display. *)

Strokes == script.strokes

(* The user waits until nothing is going on, for the first strokes of a script,
   and from then on only until few keys are unheard. *)
Calm ==
    /\ main.pc \in {"take", "poll", "key"}
    /\ inbox = <<>>
    /\ Undelivered = <<>>
    /\ screen = "idle"
    /\ ModemIdle
Unheard == Len(Undelivered) + Len(inbox)
MayType ==
    /\ task.pc # "setup"
    /\ IF typed < script.patient THEN Calm ELSE Unheard <= MaxAhead

Gone == charger.shipped \/ main.pc \in {"off", "shipped"}

UserTypes ==
    /\ ~Gone
    /\ typed < Len(Strokes)
    /\ MayType
    /\ Press(Strokes[typed + 1].k, Strokes[typed + 1].down)
    /\ typed' = typed + 1
    /\ UNCHANGED <<worldVars, script, main, ui, screen>>

ScreenDone ==
    /\ screen = "busy"
    /\ screen' = "done"
    /\ inbox' = Append(inbox, SpiEvent)
    /\ UNCHANGED <<chip, task, mapper, gauge, charger, irq, asks, answer,
                   asleep, due, trouble, worldVars, script, typed, main, ui>>

----------------------------------------------------------------------------
(* A job, step by step. *)

Now == Head(main.job.steps)
Running(do) ==
    /\ MainAt("job")
    /\ main.job.steps # <<>>
    /\ Now.do = do

(* The step went well or not, and the modem said `got`. *)
StepDone(ok, got) ==
    LET job == main.job
        status == Now.do = "at" /\ Now.cmd \in ToSet(StatusCommands)
        reply == [ok |-> ok, info |-> got]
    IN main' = [main EXCEPT
        !.job = IF ok \/ ~Now.must
                THEN [job EXCEPT !.steps = Tail(job.steps), !.sent = FALSE, !.got = got,
                                 !.replies = IF status THEN Append(job.replies, reply)
                                             ELSE job.replies]
                ELSE [job EXCEPT !.steps = <<>>, !.sent = FALSE,
                                 !.yield = [is |-> "text", text |-> Failed]]]

OnlyMain == UNCHANGED <<inputVars, script, typed, ui, screen>>

Expand ==
    /\ MainAt("job")
    /\ main.job.steps # <<>>
    /\ Now.do \in Expanding
    /\ main' = [main EXCEPT !.job.steps = Expanded(Now.do) \o Tail(main.job.steps)]
    /\ UNCHANGED <<worldVars, trouble>>
    /\ OnlyMain

DriverCall ==
    /\ MainAt("job")
    /\ main.job.steps # <<>>
    /\ \E ok \in BOOLEAN :
          /\ WorldStep(Now, ok)
          /\ StepDone(ok, main.job.got)
    /\ OnlyMain

(* send_raw() and send_with_body(): refused without power or while data is up;
   else what lies in the UART is dropped and the command written.  power_on()
   says AT until it is answered. *)
Refused == ~driver.powered \/ driver.data
Spoken == IF Now.do = "hello" THEN "AT" ELSE Now.cmd

SendCommand ==
    /\ Running("at") \/ Running("hello")
    /\ ~main.job.sent
    /\ IF Refused
       THEN StepDone(FALSE, <<>>) /\ UNCHANGED <<modem, uart>>
       ELSE /\ modem' = Sent(modem, Spoken,
                             IF Now.do = "hello" THEN "" ELSE Now.arg)
            /\ uart' = IF Spoken = "body" THEN uart ELSE <<>>
            /\ main' = [main EXCEPT !.job.sent = TRUE, !.job.got = <<>>]
    /\ UNCHANGED <<driver, air, wifi, nvs, mail, bridge, trouble>>
    /\ OnlyMain

ReadAnswer ==
    /\ Running("at") \/ Running("hello")
    /\ main.job.sent
    /\ uart # <<>>
    /\ uart' = <<>>
    /\ LET r == Reading(uart, IF Now.do = "hello" THEN "final" ELSE Now.to)
           got == main.job.got \o r.info
       IN IF r.settled /\ (r.ok \/ Now.do = "at")
          THEN StepDone(r.ok, IF r.ok THEN got ELSE <<>>)
          ELSE main' = [main EXCEPT !.job.sent = ~r.settled, !.job.got = got]
    /\ UNCHANGED <<driver, modem, air, wifi, nvs, mail, bridge, trouble>>
    /\ OnlyMain

(* The deadline passes: with nothing left to come it must, else it is a fault. *)
CommandTimesOut ==
    /\ Running("at")
    /\ main.job.sent
    /\ uart = <<>>
    /\ Unlucky(ModemSilent)
    /\ StepDone(FALSE, <<>>)
    /\ UNCHANGED worldVars
    /\ OnlyMain

HelloAgain ==
    /\ Running("hello")
    /\ main.job.sent
    /\ ModemSilent
    /\ main' = [main EXCEPT !.job.sent = FALSE]
    /\ UNCHANGED <<worldVars, trouble>>
    /\ OnlyMain

(* POWER_ON_TIMEOUT: the driver takes the modem to be off. *)
HelloGivesUp ==
    /\ Running("hello")
    /\ ~main.job.sent
    /\ Mishap("gaveUp")
    /\ driver' = [driver EXCEPT !.powered = FALSE]
    /\ StepDone(FALSE, <<>>)
    /\ UNCHANGED <<modem, uart, air, wifi, nvs, mail, bridge>>
    /\ OnlyMain

(* A call of the battery or the charger proxy: a request to the input task, a
   nudge, and the wait for its reply. *)
AskInput ==
    /\ Running("ask")
    /\ ~main.job.sent
    /\ asks' = Append(asks, [dev |-> Now.dev, op |-> Now.op])
    /\ irq' = [irq EXCEPT !.notified = TRUE]
    /\ main' = [main EXCEPT !.job.sent = TRUE]
    /\ UNCHANGED <<chip, task, mapper, gauge, charger, answer, inbox, asleep,
                   due, trouble, worldVars, script, typed, ui, screen>>

InputAnswers ==
    /\ Running("ask")
    /\ main.job.sent
    /\ answer # None
    /\ answer' = None
    /\ StepDone(answer.result = "ok", <<>>)
    /\ UNCHANGED <<chip, task, mapper, gauge, charger, irq, asks, inbox, asleep,
                   due, trouble, worldVars, script, typed, ui, screen>>

----------------------------------------------------------------------------
(* The job is done: what comes of it. *)

StartJob(m, job, to) == [m EXCEPT !.pc = "job", !.job = job, !.to = to]

(* The main loop goes back to the inbox, or to sleep if it is locked and the
   display is done. *)
Onward(m, scr) ==
    [m EXCEPT !.pc = IF m.locked /\ scr = "idle" THEN "doze" ELSE "take",
              !.job = Job(<<>>, Text(""))]

Yielded ==
    LET y == main.job.yield
    IN IF y.is = "found" THEN FoundIn(y.say, y.of, main.job) ELSE y

Says(term, text) ==
    ui' = [ui EXCEPT !.term = PushOutput(term, text), !.said = text]

JobDone(to) == MainAt("job") /\ main.job.steps = <<>> /\ main.to = to
NoInput == UNCHANGED <<inputVars, worldVars, trouble, script, typed>>

Booted ==
    /\ JobDone("boot")
    /\ Says(ui.term, Yielded.text)
    /\ main' = Onward(main, screen)
    /\ NoInput /\ UNCHANGED screen

(* What the kernel does with what a command, or the program behind an
   interactive mode, puts out. *)
Showing(y) ==
    LET mode == ModeOf(y, main.job.prog)
        text == TextOf(y, mode)
        hide == main.to = "mode" \/ Interactive(mode)
        term == [(IF hide THEN ClearLines(ui.term) ELSE ui.term) EXCEPT
                    !.show = IF main.to = "mode" THEN ~Interactive(mode)
                             ELSE @ /\ ~Interactive(mode)]
    IN ui' = [term |-> PushOutput(term, text), mode |-> mode, said |-> text]

Shown ==
    /\ JobDone("exec") \/ JobDone("mode")
    /\ \E y \in {Yielded} :
          y.is \in {"text", "list", "prompt", "scroll"} /\ Showing(y)
    /\ main' = Onward(main, screen)
    /\ NoInput /\ UNCHANGED screen

ShownClear ==
    /\ JobDone("exec")
    /\ Yielded.is = "clear"
    /\ ui' = [ui EXCEPT !.term = ClearLines(@), !.said = Nothing]
    /\ main' = Onward(main, screen)
    /\ NoInput /\ UNCHANGED screen

Hidden(term) == [term EXCEPT !.show = FALSE]

(* shell_effect(): the last message is drawn before anything is switched off. *)
GoingDown ==
    /\ JobDone("exec")
    /\ Yielded.is \in {"off", "ship"}
    /\ Says(Hidden(ui.term), Saying("goodbye", Yielded.is))
    /\ main' = [main EXCEPT !.pc = "finish", !.to = Yielded.is]
    /\ screen' = "busy"
    /\ NoInput

Calling ==
    /\ JobDone("exec")
    /\ Yielded.is = "call"
    /\ Says(PushOutput(Hidden(ui.term), Saying("calling", <<>>)),
            Saying("help", "call"))
    /\ main' = StartJob([main EXCEPT !.volume = MaxVolume],
                        Job(QueryVolume, [is |-> "call"]), "volume")
    /\ NoInput /\ UNCHANGED screen

Dark ==
    /\ JobDone("lock")
    /\ main' = Onward(main, screen)
    /\ NoInput /\ UNCHANGED <<ui, screen>>

(* Deep sleep: nothing runs any more. *)
Off ==
    /\ JobDone("off")
    /\ main' = [main EXCEPT !.pc = "off"]
    /\ task' = [task EXCEPT !.pc = "off"]
    /\ UNCHANGED <<chip, mapper, gauge, charger, irq, asks, answer, inbox,
                   asleep, due, trouble, worldVars, script, typed, ui, screen>>

(* ship_mode(): ask the charger; on USB that comes back, and the thread sleeps
   for ever. *)
Ship ==
    /\ JobDone("ship")
    /\ main' = StartJob(main, Job(<< Ask("charger", "shutdown") >>, Text("")),
                        "shipped")
    /\ NoInput /\ UNCHANGED <<ui, screen>>

Shipping ==
    /\ JobDone("shipped")
    /\ main' = [main EXCEPT !.pc = "shipped"]
    /\ NoInput /\ UNCHANGED <<ui, screen>>

----------------------------------------------------------------------------
(* Events. *)

TakeEvent ==
    /\ inbox # <<>>
    /\ inbox' = Tail(inbox)
    /\ due' = IF Head(inbox) = SpiEvent \/ due.events = <<>> THEN due
              ELSE [due EXCEPT !.events = Tail(@)]
    /\ UNCHANGED <<chip, task, mapper, gauge, charger, irq, asks, answer,
                   asleep, trouble, worldVars, script, typed>>

Heard(scr) == IF scr = "done" THEN "idle" ELSE scr

TakeSpi ==
    /\ MainAt("take")
    /\ TakeEvent
    /\ Head(inbox) = SpiEvent
    /\ screen' = Heard(screen)
    /\ main' = Onward(main, Heard(screen))
    /\ UNCHANGED ui

(* A key for the kernel. *)
TakeKey(lock) ==
    /\ MainAt("take")
    /\ TakeEvent
    /\ Head(inbox) # SpiEvent
    /\ (Head(inbox).key = "Lock") = lock

LockKey ==
    /\ TakeKey(TRUE)
    /\ ~main.locked
    /\ main' = StartJob([main EXCEPT !.locked = TRUE], Job(RadiosOff, Text("")),
                        "lock")
    /\ screen' = "busy"
    /\ UNCHANGED ui

UnlockKey ==
    /\ TakeKey(TRUE)
    /\ main.locked
    /\ main' = Onward([main EXCEPT !.locked = FALSE], "busy")
    /\ screen' = "busy"
    /\ UNCHANGED ui

LockedKey ==
    /\ TakeKey(FALSE)
    /\ main.locked
    /\ main' = Onward(main, screen)
    /\ UNCHANGED <<ui, screen>>

ModeKey ==
    /\ TakeKey(FALSE)
    /\ ~main.locked
    /\ Interactive(ui.mode)
    /\ LET h == InteractiveKey(ui.mode, Head(inbox))
           lines == IF h.shown = Nothing THEN ui.term
                    ELSE PushOutput(ClearLines(ui.term), h.shown)
       IN /\ ui' = [term |-> [lines EXCEPT !.show = @ \/ ~Interactive(h.mode)],
                    mode |-> h.mode,
                    said |-> IF h.shown = Nothing THEN ui.said ELSE h.shown]
          /\ main' = IF h.call = NoCall THEN Onward(main, screen)
                     ELSE StartJob(main, Called(h.call), "mode")
    /\ UNCHANGED screen

TerminalLine ==
    /\ TakeKey(FALSE)
    /\ ~main.locked
    /\ ~Interactive(ui.mode)
    /\ ui' = [ui EXCEPT !.term = TerminalKey(@, Head(inbox))]
    /\ main' = IF Head(inbox).key = "Enter"
               THEN StartJob(main, Execute(ui.term.input), "exec")
               ELSE Onward(main, screen)
    /\ UNCHANGED screen

(* finish_display(), then radios_off(). *)
DropEvent ==
    /\ MainAt("finish")
    /\ screen # "idle"
    /\ TakeEvent
    /\ screen' = IF Head(inbox) = SpiEvent THEN Heard(screen) ELSE screen
    /\ UNCHANGED <<main, ui>>

DisplayFinished ==
    /\ MainAt("finish")
    /\ screen = "idle"
    /\ main' = StartJob(main, Job(RadiosOff, Text("")), main.to)
    /\ NoInput /\ UNCHANGED <<ui, screen>>

(* Locked and drawn: a last look at the inbox, then light sleep, which is
   refused while the keyboard holds its line. *)
Doze ==
    /\ MainAt("doze")
    /\ main' = [main EXCEPT !.pc = IF inbox # <<>> THEN "take" ELSE "sleep"]
    /\ NoInput /\ UNCHANGED <<ui, screen>>

Sleep ==
    /\ MainAt("sleep")
    /\ asleep' = ~chip.int
    /\ main' = [main EXCEPT !.pc = "take"]
    /\ UNCHANGED <<chip, task, mapper, gauge, charger, irq, asks, answer, inbox,
                   due, trouble, worldVars, script, typed, ui, screen>>

----------------------------------------------------------------------------
(* handle_call() *)

CallOver(m, word) ==
    /\ ui' = [ui EXCEPT
                 !.term = [PushOutput(ui.term, Saying(word, <<>>)) EXCEPT
                              !.show = TRUE],
                 !.said = Saying(word, <<>>)]
    /\ main' = Onward(m, screen)

(* query_volume(): what the modem reads back, or what it was told. *)
VolumeKnown ==
    /\ JobDone("volume")
    /\ LET gains == SelectSeq(main.job.got, LAMBDA l : l.head = "+COUTGAIN:")
           confirmed == gains # <<>>
           volume == IF confirmed THEN gains[1].fields[1] ELSE main.volume
           text == Saying("volume", [level |-> volume, sure |-> confirmed])
       IN /\ ui' = [ui EXCEPT !.term = IF main.job.yield.is = "call"
                                       THEN PushOutput(@, text)
                                       ELSE ReplaceLastOutput(@, text),
                              !.said = text]
          /\ main' = [main EXCEPT !.pc = "poll", !.volume = volume]
    /\ NoInput /\ UNCHANGED screen

(* URCs before keys: whatever is there is read, and its first line decides. *)
PollCall ==
    /\ MainAt("poll")
    /\ uart' = <<>>
    /\ IF PollUrc(uart) \in {"NO CARRIER", "BUSY"}
       THEN CallOver(main, "call ended")
       ELSE main' = [main EXCEPT !.pc = "key"] /\ UNCHANGED ui
    /\ UNCHANGED <<driver, modem, air, wifi, nvs, mail, bridge, inputVars,
                   trouble, script, typed, screen>>

(* recv_timeout(50 ms) *)
NoCallKey ==
    /\ MainAt("key")
    /\ inbox = <<>>
    /\ main' = [main EXCEPT !.pc = "poll"]
    /\ NoInput /\ UNCHANGED <<ui, screen>>

classify_key(event) ==
    CASE event = [key |-> "Char", ch |-> "u"] -> "VolumeUp"
      [] event = [key |-> "Char", ch |-> "d"] -> "VolumeDown"
      [] event = [key |-> "Enter"] -> "HangUp"
      [] OTHER -> "Ignore"

CallEvent ==
    /\ MainAt("key")
    /\ TakeEvent
    /\ UNCHANGED ui
    /\ LET event == Head(inbox)
           louder == IF main.volume < MaxVolume THEN main.volume + 1
                     ELSE MaxVolume
           softer == Less(main.volume, 1)
           to(v) == StartJob([main EXCEPT !.volume = v],
                             Job(SetVolume(v), Text("")), "volume")
       IN /\ screen' = IF event = SpiEvent THEN Heard(screen) ELSE screen
          /\ main' = CASE classify_key(event) = "HangUp" ->
                             StartJob(main, Job(HangUpSteps, Text("")), "hung")
                       [] classify_key(event) = "VolumeUp" -> to(louder)
                       [] classify_key(event) = "VolumeDown" -> to(softer)
                       [] OTHER -> [main EXCEPT !.pc = "poll"]

HungUp ==
    /\ JobDone("hung")
    /\ CallOver(main, "hung up")
    /\ NoInput /\ UNCHANGED screen

----------------------------------------------------------------------------
MainStep ==
    \/ Expand \/ DriverCall \/ SendCommand \/ ReadAnswer \/ CommandTimesOut
    \/ HelloAgain \/ HelloGivesUp \/ AskInput \/ InputAnswers
    \/ Booted \/ Shown \/ ShownClear \/ GoingDown \/ Calling \/ Dark \/ Off
    \/ Ship \/ Shipping
    \/ TakeSpi \/ LockKey \/ UnlockKey \/ LockedKey \/ ModeKey \/ TerminalLine
    \/ DropEvent \/ DisplayFinished \/ Doze \/ Sleep
    \/ VolumeKnown \/ PollCall \/ NoCallKey \/ CallEvent \/ HungUp

ModemStep ==
    /\ ModemActs \/ ModemBoots
    /\ UNCHANGED <<wifi, nvs, mail, bridge, inputVars, trouble, mainVars>>
CallEnds ==
    /\ RemoteEnds
    /\ UNCHANGED <<wifi, nvs, mail, bridge, inputVars, trouble, mainVars>>

HandsetNext ==
    \/ UserTypes
    \/ ScreenDone
    \/ MainStep
    \/ ModemStep
    \/ CallEnds
    \/ ApLost /\ UNCHANGED <<inputVars, mainVars>>
    \/ InputNext /\ UNCHANGED <<worldVars, mainVars>>

(* The user types on; the main thread, the input task, the chips, the modem and
   the display get their turn.  Nobody has to hang up, or lose a network. *)
HandsetSpec ==
    /\ HandsetInit
    /\ [][HandsetNext]_vars
    /\ WF_vars(UserTypes)
    /\ WF_vars(ScreenDone)
    /\ WF_vars(MainStep)
    /\ WF_vars(ModemStep)
    /\ InputFairness

----------------------------------------------------------------------------
(* Properties. *)

(* What a text comes down to in a listing, if none of its lines reads as a result,
   a URC, an echo or a header: the slot, the sender and its first line. *)
Readable(t) ==
    \A l \in ToSet(t.lines) :
        l # Blank => Class(l) = "Info" /\ l.head \notin {"+CMGL:", "+CMGR:"}
FirstLine(t) == IF Fed(t.lines) = <<>> THEN Blank ELSE Fed(t.lines)[1]
Stored ==
    [i \in DOMAIN modem.texts |->
        LET t == modem.texts[i]
        IN [index |-> t.index, sender |-> t.sender, body |-> FirstLine(t)]]
Contents(shown) ==
    [i \in DOMAIN shown |->
        [f \in {"index", "sender", "body"} |-> shown[i][f]]]

(* A status never says more than the modem does: ready, registered or a signal
   strength only if it is so, and if nothing fails whenever it is so. *)
StatusTrue(status) ==
    LET radio == modem.radio
        ready == radio.sim = << "READY" >>
        registered == {radio.lte, radio.gsm} \cap {1, 5} # {}
        measured == radio.rssi \in 0 .. 31
    IN /\ status.sim = "ready" => ready
       /\ status.network \in {"home", "roaming"} => registered
       /\ status.signal # Unmeasured =>
             measured /\ status.signal = -113 + 2 * radio.rssi
       /\ Lucky => /\ status.responsive
                   /\ ready => status.sim = "ready"
                   /\ registered => status.network \in {"home", "roaming"}
                   /\ measured => status.signal # Unmeasured

(* What is put on the screen is so.  A text, an email or a message reported sent
   has been taken at the other end, whatever failed before; accounts reported
   saved are in the flash, both halves; the gauge reported provisioned is, and is
   sealed again; the modem reported on or off is.  The rest are believed without
   being asked, and hold while nothing fails. *)
SaidTrue(t) ==
    \A word \in DOMAIN t :
        LET of == t[word]
        IN CASE word = "text sent" -> of \in air
             [] word = "email sent" -> of \in mail
             [] word = "message sent" -> of \in bridge
             [] word = "account saved" ->
                   of.was = IF of.field = "addr" THEN << nvs.addr, nvs.pw >>
                            ELSE << nvs.url, nvs.token >>
             [] word = "provisioned" -> Provisioned(gauge)
             [] word = "modem on" -> modem.power = "on"
             [] word = "modem off" -> modem.power = "off" \/ trouble.gaveUp
             [] word = "data up" -> driver.data /\ modem.mode = "data"
             [] word = "deleted" -> Lucky => TextAt(of) = <<>>
             [] word = "sms inbox" ->
                   (\A x \in ToSet(modem.texts) : Readable(x)) =>
                      /\ ToSet(Contents(of)) \subseteq ToSet(Stored)
                      /\ Lucky => Contents(of) = Stored
             [] word = "sms text" ->
                   \A x \in ToSet(modem.texts) :
                      x.index = of.index /\ Readable(x) =>
                         of.sender = x.sender /\ of.body = FirstLine(x)
             [] word = "modem status" -> StatusTrue(of)
             [] word = "forgot" -> Lucky => ~Known(of)
             [] word = "connected" -> Lucky => wifi.link = of
             [] word = "volume" -> Lucky /\ of.sure => modem.gain = of.level
             [] OTHER -> TRUE

ToldTrue ==
    [][(/\ JobDone("exec") \/ JobDone("mode") \/ JobDone("volume")
        /\ main'.pc # "job") => SaidTrue(ui.said)']_vars

(* Asleep, both radios are off: the lock switches them off before the processor
   sleeps, whatever was on and whatever key came meanwhile.  A modem given up
   while it booted is the exception. *)
LockedIsQuiet ==
    asleep => /\ ~wifi.on
              /\ modem.power = "off" \/ trouble.gaveUp

(* While nothing has failed: back at the prompt, with all that was sent to the
   modem carried out, no call is left open: the in-call loop is left only when the call is over, or hangs
   up itself. *)
CallsClosed ==
    (Lucky /\ main.pc = "take" /\ ModemIdle) => ~modem.call

(* Every key typed is taken in the end, and the handset is back at the prompt or
   in the call: no program hangs, no key stays in the chip or the inbox.  Not so
   if the keyboard was lost, the handset is switched off, it fell asleep on a key
   that was still on its way when it last looked at the inbox, or a failed
   transfer left strokes in the chip after their interrupt was cleared: those
   wait for the next key. *)
KeyboardLost == ~task.keyboard \/ (task.pc # "setup" /\ ~chip.on)
Stranded ==
    \/ asleep /\ Undelivered \o inbox # <<>>
    \/ ~Lucky /\ chip.fifo # <<>> /\ ~chip.int
AllTaken ==
    <>[](\/ Gone \/ KeyboardLost \/ Stranded
         \/ /\ typed = Len(Strokes)
            /\ Undelivered = <<>>
            /\ inbox = <<>>
            /\ main.pc \in {"take", "poll", "key"})
=============================================================================
