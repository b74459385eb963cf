------------------------------- MODULE MCHandset -------------------------------
(* A small handset for TLC: two networks in reach, two chats, a keyboard of
   words, and a user who types one of the sessions below. *)
EXTENDS Handset

Letters == {"y", "h", "b", "l", "q", "u", "d", Quote, "1", "hi", "pw"}
Commands ==
    {"battery", "curl", "echo", "email", "modem", "net", "phone", "power", "sms",
     "whatsapp", "wifi", "clear", "help"}
Arguments ==
    {"level", "init", "setup", "on", "off", "at", "data", "status", "hangup",
     "ship", "confirm", "send", "inbox", "read", "delete", "connect",
     "disconnect", "forget"}

MCPlain == Letters \cup Commands \cup Arguments
MCSymLayer == [k \in MCPlain \cup {"MIC"} |-> IF k = "h" THEN Quote ELSE "1"]
MCUpper == [k \in MCPlain |-> IF k = "hi" THEN "HI" ELSE k]
MCAltKeys ==
    [y |-> "ScrollUp", h |-> "ScrollDown", b |-> "ScrollBottom", l |-> "Lock"]

MCVisible == << "home", "cafe" >>
MCPassword == [home |-> << "pw" >>, cafe |-> << "1" >>]
MCNumbers == { << "1" >>, << "2" >>, << "3" >>, << "4" >> }
MCChats == << [name |-> "ann", group |-> FALSE], [name |-> "club", group |-> TRUE] >>
MCThread == << "one", "two", "three" >>

----------------------------------------------------------------------------
(* What the flash holds when the device boots. *)

Home == << [ssid |-> "home", pw |-> << "pw" >>] >>
AtHome == [BlankNvs EXCEPT !.nets = Home]
OldNets == [BlankNvs EXCEPT !.legacy = Home, !.migrated = FALSE]
Accounts ==
    [AtHome EXCEPT !.addr = << "hi" >>, !.pw = << "pw" >>, !.url = << "hi" >>,
                   !.token = << "pw" >>]

(* What the SIM holds and how the radio is; texts of no line and of two, and texts
   with lines that read as something else. *)
SimText(index, status, lines) ==
    [index |-> << index >>, status |-> << status >>, sender |-> << "+44" >>,
     timestamp |-> << "noon" >>, lines |-> lines]
MCTexts ==
    << SimText("1", "REC UNREAD", << Line("hi") >>),
       SimText("2", "REC READ", << Blank >>),
       SimText("4", "STO SENT", << Blank, Line("hi"), Line("BUSY") >>) >>
Misread ==
    << SimText("1", "REC UNREAD", << Line("AT"), Line("hi") >>),
       SimText("2", "REC READ",
               << Info("+CMGL:", << << "3" >>, << "REC READ" >>, << "hi" >> >>) >>),
       SimText("3", "STO UNSENT", << Line("RING") >>),
       SimText("4", "REC READ", << Line(">"), Line("OK") >>) >>
Roaming == [sim |-> << "READY" >>, lte |-> 2, gsm |-> 5, rssi |-> 31]
NoSim == [sim |-> << "SIM PIN" >>, lte |-> 4, gsm |-> 3, rssi |-> 99]

(* Sessions typed patiently, with a failure anywhere, and sessions typed ahead
   after the first so many strokes. *)
Presses(keys) == [i \in DOMAIN keys |-> Stroke(keys[i], TRUE)]
Session(flash, faults, patient, strokes) ==
    [flash |-> flash, texts |-> MCTexts, radio |-> Roaming, faults |-> faults,
     patient |-> patient, strokes |-> strokes]
Calmly(flash, keys) == Session(flash, 1, Len(keys), Presses(keys))
Locked(keys) ==
    [Session(BlankNvs, 0, Len(keys), Presses(keys)) EXCEPT
        !.texts = Misread, !.radio = NoSim]
Hastily(flash, faults, calm, keys) ==
    Session(flash, faults, Len(calm), Presses(calm \o keys))

Sessions ==
 << Calmly(AtHome, << "wifi", "status", "ENTER", "net", "ENTER",
                      "ALT", "l", "hi", "ALT", "l" >>),
    Calmly(OldNets, << "wifi", "forget", "ENTER", "h", "ENTER" >>),
    Calmly(BlankNvs, << "battery", "level", "ENTER", "battery", "init",
                        "ENTER" >>),
    Calmly(AtHome, << "curl", "1", "ENTER" >>),
    Calmly(BlankNvs, << "curl", "1", "ENTER", "modem", "off", "ENTER" >>),
    Calmly(AtHome, << "email", "setup", "ENTER", "hi", "ENTER", "pw",
                      "ENTER" >>),
    Calmly(Accounts, << "email", Quote, "hi", Quote, Quote, "1", Quote, "pw",
                        "ENTER" >>),
    Calmly(BlankNvs, << "modem", "on", "ENTER", "modem", "data", "on", "ENTER",
                        "modem", "data", "off", "ENTER", "ALT", "l" >>),
    Calmly(BlankNvs, << "modem", "on", "ENTER", "modem", "status", "ENTER" >>),
    Calmly(BlankNvs, << "modem", "on", "ENTER", "phone", "1", "ENTER", "u", "d",
                        "ENTER" >>),
    Calmly(BlankNvs, << "phone", "1", "ENTER", "modem", "on", "ENTER", "phone",
                        "hi", "ENTER", "phone", "hangup", "ENTER" >>),
    Calmly(BlankNvs, << "modem", "on", "ENTER", "power", "off", "ENTER" >>),
    Calmly(BlankNvs, << "power", "ship", "ENTER", "power", "ship", "confirm",
                        "ENTER" >>),
    Calmly(BlankNvs, << "modem", "on", "ENTER", "sms", "send", "1", "hi",
                        "ENTER", "sms", "inbox", "ENTER" >>),
    Calmly(BlankNvs, << "modem", "on", "ENTER", "sms", "read", "1", "ENTER",
                        "sms", "delete", "1", "ENTER" >>),
    Locked(<< "modem", "on", "ENTER", "sms", "inbox", "ENTER", "sms", "read", "1",
              "ENTER", "modem", "status", "ENTER", "modem", "at", "hi", "ENTER",
              "modem", "data", "status", "ENTER" >>),
    Calmly(AtHome, << "whatsapp", "setup", "ENTER", "hi", "ENTER", "pw",
                      "ENTER" >>),
    Calmly(Accounts, << "whatsapp", "inbox", "ENTER", "ENTER", "y", "h", "q" >>),
    Calmly(Accounts, << "whatsapp", "send", "1", "hi", "ENTER" >>),
    Calmly(BlankNvs, << "wifi", "connect", "ENTER", "h", "y", "ENTER", "pw",
                        "ENTER", "wifi", "disconnect", "ENTER" >>),
    Calmly(AtHome, << "wifi", "connect", "ENTER", "ENTER", "wifi", "connect",
                      "ENTER", "ALT", "BACKSPACE" >>),
    Calmly(BlankNvs, << "echo", "SHIFT", "hi", "ENTER", "SYM", "h", "MIC", "SYM",
                        "BACKSPACE", "ENTER", "ALT", "BACKSPACE", "ALT",
                        "BACKSPACE", "ENTER", "clear", "ENTER" >>),
    Calmly(BlankNvs, << "help", "ENTER", "SHIFT", "ENTER", "ENTER", "ALT", "y",
                        "h", "b" >>),
    Hastily(BlankNvs, 1, << "wifi", "connect", "ENTER" >>,
            << "ENTER", "pw", "ENTER" >>),
    Hastily(AtHome, 0, << "ALT" >>, << "l", "hi", "ALT", "l" >>),
    Hastily(BlankNvs, 0, << "modem", "on", "ENTER", "phone", "1", "ENTER" >>,
            << "u", "ENTER" >>),
    Session(BlankNvs, 1, 0,
            << Stroke("SHIFT", TRUE), Stroke("hi", TRUE), Stroke("hi", FALSE),
               Stroke("SHIFT", FALSE), Stroke("BLANK", TRUE) >>) >>
=============================================================================
