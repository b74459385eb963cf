------------------------------- MODULE OldModem -------------------------------
(* The old modem driver that the shell's programs use, device/src/modem.rs, and
   the A7682E at the other end of its UART.

   The modem is outside the repository.  It is modelled from what the driver
   relies on: it works off one command at a time and in order, takes all it is
   sent as the body of a text after the prompt and as PPP frames in data mode,
   hears nothing while it boots, and a short PWRKEY pulse does nothing to it
   once it runs.

   A driver call is a list of steps (Steps below); Handset.tla carries them out
   for the program that made the call.  `uart` holds the lines that have arrived
   and have not been read: the driver reads whatever is there at once. *)
EXTENDS ModemReplies

CONSTANTS
    MaxVolume, \* call.rs MAX
    MaxBody    \* sms.rs MAX_BODY_CHARS

ASSUME OldModemAssumption == MaxVolume \in Nat /\ MaxBody \in Nat

VARIABLES
    driver, \* EspA7682EModem: powered, a data session
    modem,  \* the A7682E
    uart,   \* lines arrived, not yet read
    air     \* texts the network has taken

modemVars == <<driver, modem, uart, air>>

(* The SIM holds `texts`, in the order of their slots, and the radio is as
   `radio` says. *)
OldModemInit(texts, radio) ==
    /\ driver = [powered |-> FALSE, data |-> FALSE]
    /\ modem = [power |-> "off", mode |-> "command", queue |-> <<>>,
                call |-> FALSE, gain |-> 0, texts |-> texts, radio |-> radio]
    /\ uart = <<>>
    /\ air = {}

----------------------------------------------------------------------------
(* Steps of the driver.  A step that `must` succeed ends the call if it fails;
   the outcome of any other is ignored. *)

At(cmd, arg, must) ==
    [do |-> "at", cmd |-> cmd, arg |-> arg, must |-> must, to |-> "final"]
Must(cmd, arg) == At(cmd, arg, TRUE)
Try(cmd, arg) == At(cmd, arg, FALSE)
Step(do) == [do |-> do, must |-> TRUE]

(* power_on(): the pulse, `AT` until it is answered, and the echo off. *)
PowerOnSteps(d) ==
    IF d.powered THEN <<>>
    ELSE << Step("pulse on"), Step("hello"), Try("ATE0", "") >>

(* dial_data(), then start_ppp_session(). *)
EnableDataSteps(d) ==
    IF d.data THEN <<>>
    ELSE << Try("CMEE", ""), Try("CGATT", ""), Must("CGDCONT", ""),
            Try("CGAUTH", ""), [Must("ATD*99#", "") EXCEPT !.to = "connect"],
            Step("ppp") >>

DisableDataSteps(d) ==
    IF d.data THEN << Step("stop pump"), Step("escape"), Try("ATH", "") >>
    ELSE <<>>

(* power_off(), and one that is done if no data session is up. *)
PowerOffIfData(d) ==
    IF d.data THEN DisableDataSteps(d) \o << Step("pulse off") >> ELSE <<>>
PowerOffSteps(d) ==
    IF d.powered THEN DisableDataSteps(d) \o << Step("pulse off") >> ELSE <<>>

StatusCommands == << "AT", "CPIN?", "CEREG?", "CREG?", "CSQ" >>
StatusSteps == [i \in DOMAIN StatusCommands |-> Try(StatusCommands[i], "")]

(* phone.rs dial() and hangup(), and the volume keys of handle_call(). *)
DialSteps(number) ==
    << Try("CVHU", ""), Try("GAIN", MaxVolume), Must("ATD", number) >>
NoHangUp == <<>> \* the loop is left and the call is not
HangUpSteps == << Try("CHUP", ""), Try("ATH", "") >>
QueryVolume == << Try("GAIN?", "") >>
SetVolume(v) == << Try("GAIN", v) >> \o QueryVolume

(* sms.rs: ensure_text_mode() and the command itself. *)
TextMode == << Must("CMGF", ""), Must("CSCS", "") >>
SendTextSteps(text) ==
    TextMode \o << [Must("CMGS", "") EXCEPT !.to = "prompt"],
                   [Must("body", text) EXCEPT !.to = "final"] >>
InboxSteps == TextMode \o << Must("CMGL", "") >>
ReadSteps(slot) == TextMode \o << Must("CMGR", slot) >>
DeleteSteps(slot) == TextMode \o << Must("CMGD", slot) >>

----------------------------------------------------------------------------
(* What the modem answers. *)

Ok == << Line("OK") >>
Unknown == << Line("CMS ERROR 321") >>
TextAt(slot) == SelectSeq(modem.texts, LAMBDA t : t.index = slot)
Header(t) == << t.status, t.sender, <<>>, t.timestamp >>

(* A text with its header, the index first in a listing. *)
Listed(t) == << Info("+CMGL:", << t.index >> \o Header(t)) >> \o t.lines
Read1(t) == << Info("+CMGR:", Header(t)) >> \o t.lines

Answers(cmd, arg) ==
    CASE cmd = "ATD*99#" -> { << Line("CONNECT") >>, << Line("NO CARRIER") >> }
      [] cmd = "ATD" -> { Ok, << Line("NO CARRIER") >> }
      [] cmd = "CMGS" -> { << Line(">") >> }
      [] cmd = "GAIN?" -> { << Info("+COUTGAIN:", << modem.gain >>), Line("OK") >> }
      [] cmd = "CMGL" ->
            { FlattenSeq([i \in DOMAIN modem.texts |-> Listed(modem.texts[i])]) \o Ok }
      [] cmd = "CMGR" /\ TextAt(arg) # <<>> -> { Read1(TextAt(arg)[1]) \o Ok }
      [] cmd \in {"CMGR", "CMGD"} /\ TextAt(arg) = <<>> -> { Unknown }
      [] cmd = "CPIN?" -> { << Info("+CPIN:", << modem.radio.sim >>) >> \o Ok }
      [] cmd = "CEREG?" -> { << Info("+CEREG:", << 0, modem.radio.lte >>) >> \o Ok }
      [] cmd = "CREG?" -> { << Info("+CREG:", << 0, modem.radio.gsm >>) >> \o Ok }
      [] cmd = "CSQ" -> { << Info("+CSQ:", << modem.radio.rssi, 99 >>) >> \o Ok }
      [] OTHER -> { Ok }

Seen(t) ==
    [t EXCEPT !.status = IF @ = << "REC UNREAD" >> THEN << "REC READ" >> ELSE @]

(* What a command it has answered so leaves behind. *)
After(cmd, arg, answer) ==
    CASE cmd = "ATD*99#" /\ answer # << Line("NO CARRIER") >> ->
            [modem EXCEPT !.mode = "data"]
      [] cmd = "ATD" -> [modem EXCEPT !.call = answer = Ok]
      [] cmd \in {"CHUP", "ATH"} -> [modem EXCEPT !.call = FALSE]
      [] cmd = "GAIN" -> [modem EXCEPT !.gain = arg]
      [] cmd = "CMGS" -> [modem EXCEPT !.mode = "body"]
      [] cmd = "CMGD" ->
            [modem EXCEPT !.texts = SelectSeq(@, LAMBDA t : t.index # arg)]
      [] cmd \in {"CMGL", "CMGR"} ->
            [modem EXCEPT !.texts = [i \in DOMAIN @ |->
                IF cmd = "CMGL" \/ @[i].index = arg THEN Seen(@[i]) ELSE @[i]]]
      [] OTHER -> modem

Dequeued(m) == [m EXCEPT !.queue = Tail(@)]

(* The modem takes the next thing it was sent.  At the prompt only the body,
   which ends in Ctrl-Z, is more than text; in data mode only `+++` is. *)
ModemActs ==
    /\ modem.power = "on"
    /\ modem.queue # <<>>
    /\ LET c == Head(modem.queue)
       IN CASE modem.mode = "command" /\ c.cmd \notin {"body", "+++"} ->
                 \E answer \in Answers(c.cmd, c.arg) :
                     /\ modem' = Dequeued(After(c.cmd, c.arg, answer))
                     /\ uart' = uart \o answer
                     /\ UNCHANGED air
            [] modem.mode = "body" /\ c.cmd = "body" ->
                 /\ modem' = Dequeued([modem EXCEPT !.mode = "command"])
                 /\ \/ /\ uart' = uart \o << Info("+CMGS:", <<>>), Line("OK") >>
                       /\ air' = air \cup {c.arg}
                    \/ /\ uart' = Append(uart, Line("ERROR"))
                       /\ UNCHANGED air
            [] modem.mode = "data" /\ c.cmd = "+++" ->
                 /\ modem' = Dequeued([modem EXCEPT !.mode = "command"])
                 /\ uart' = uart \o Ok
                 /\ UNCHANGED air
            [] OTHER -> modem' = Dequeued(modem) /\ UNCHANGED <<uart, air>>
    /\ UNCHANGED driver

ModemBoots ==
    /\ modem.power = "booting"
    /\ modem' = [modem EXCEPT !.power = "on"]
    /\ UNCHANGED <<driver, uart, air>>

(* The other end hangs up, or is found busy. *)
RemoteEnds ==
    /\ modem.call
    /\ modem' = [modem EXCEPT !.call = FALSE]
    /\ \E is \in {"NO CARRIER", "BUSY"} : uart' = Append(uart, Line(is))
    /\ UNCHANGED <<driver, air>>

(* All it was sent has been taken, and nothing more will come of it. *)
ModemIdle == modem.power # "on" \/ modem.queue = <<>>
ModemSilent == ModemIdle /\ uart = <<>>

----------------------------------------------------------------------------
(* What the driver does to the modem. *)

Sent(m, cmd, arg) ==
    IF m.power # "on" THEN m
    ELSE [m EXCEPT !.queue = Append(@, [cmd |-> cmd, arg |-> arg])]

(* pulse_pwrkey() for 1 s and for 3 s. *)
PulsedOn(m) == IF m.power = "off" THEN [m EXCEPT !.power = "booting"] ELSE m
PulsedOff(m) ==
    IF m.power = "off" THEN PulsedOn(m)
    ELSE [m EXCEPT !.power = "off", !.mode = "command", !.queue = <<>>,
                   !.call = FALSE]

(* read_until_final(), read_until_prompt() and wait_for_connect() on the lines
   at hand.  Each stops at the first line that settles it and drops the rest;
   a prompt is not expected by the first, nor a final OK by the other two. *)
SettledBy(line, to) ==
    \/ Class(line) \in Errors
    \/ to = "final" /\ Class(line) = "OK"
    \/ to = "prompt" /\ Class(line) = "Prompt"
    \/ to = "connect" /\ line.head = "CONNECT"

Reading(lines, to) ==
    LET fed == Fed(lines)
        at == SelectInSeq(fed, LAMBDA l : SettledBy(l, to))
    IN [settled |-> at # 0,
        ok |-> at # 0 /\ Class(fed[at]) \notin Errors,
        info |-> SelectSeq(IF at = 0 THEN fed ELSE SubSeq(fed, 1, at),
                           LAMBDA l : Class(l) = "Info")]

(* poll_urc(): the first line that is BUSY or neither an echo nor information;
   the rest of the read is dropped. *)
PollUrc(lines) ==
    LET at == SelectInSeq(Fed(lines), LAMBDA l :
                  l.head = "BUSY" \/ Class(l) \notin {"Echo", "Info", "Prompt"})
    IN IF at = 0 THEN "none" ELSE Fed(lines)[at].head
=============================================================================
