------------------------------- MODULE Programs -------------------------------
(* The programs of the shell, core/src/programs/*.rs, with core/src/network.rs,
   core/src/startup.rs and core/src/call.rs.

   A program is a job: the calls it makes of its drivers, in order, and what it
   puts out if all of those that must go well do.  What it decides from what it
   has read before its first call is decided here; a step that itself decides
   when it is reached is replaced by the steps it turns out to be (Expanded).

   A token is a sequence of words, and a single word for all but quoted texts. *)
EXTENDS Shell, World

CONSTANTS
    Chats,   \* the bridge's chats: their names and whether they are groups
    Thread   \* lines of a chat's messages

ASSUME ProgramsAssumption == Chats \in Seq(ToSet(Chats))

----------------------------------------------------------------------------
(* Jobs. *)

(* What is said, and of what: a function of one point. *)
Saying(word, of) == word :> of
Text(word) == [is |-> "text", text |-> Saying(word, <<>>)]
Claim(word, of) == [is |-> "text", text |-> Saying(word, of)]
Found(word, of) == [is |-> "found", say |-> word, of |-> of]

(* `got` are the lines of the last answer, `replies` those of status(). *)
Job(steps, yield) ==
    [steps |-> steps, yield |-> yield, got |-> <<>>, replies |-> <<>>,
     sent |-> FALSE, prog |-> "none"]
Answer(yield) == Job(<<>>, yield)
Failed == Saying("failed", <<>>)
Usage == Answer(Text("usage"))

List(header, context, items) ==
    [is |-> "list", header |-> header, context |-> context, items |-> items]
Plainly(values) ==
    [i \in DOMAIN values |-> [display |-> values[i], value |-> values[i]]]
Prompt(header, context, mask) ==
    [is |-> "prompt", header |-> header, context |-> context, mask |-> mask]

Is(args, word) == Len(args) >= 1 /\ args[1] = << word >>
Are(args, w1, w2) == args = << << w1 >>, << w2 >> >>

WhenPowered(job) == IF driver.powered THEN job ELSE Answer(Text("modem is off"))

----------------------------------------------------------------------------
(* Steps that decide when they are reached. *)

ConnectStep(ssid, pw, must) ==
    [do |-> "connect", ssid |-> ssid, pw |-> pw, must |-> must]

(* ensure_connectivity(): WiFi if the driver takes it to be connected, cellular
   data released; else cellular data, the modem powered on for it. *)
EnsureSteps ==
    IF wifi.ssid # NoSsid THEN DisableDataSteps(driver)
    ELSE IF driver.data THEN <<>>
    ELSE << Step("power on"), Step("enable data") >>

(* auto_connect_wifi(): if any network is saved, the first in reach that is. *)
StartupSteps ==
    LET near == SelectSeq(Visible, Known)
    IN CASE nvs.nets = <<>> -> <<>>
         [] nvs.nets # <<>> /\ near = <<>> -> << Step("scan") >>
         [] OTHER -> << Step("scan"),
                        ConnectStep(near[1], PasswordOf(near[1]), TRUE) >>

Expanding ==
    {"power on", "power off", "enable data", "disable data", "ensure", "startup"}
Expanded(do) ==
    CASE do = "power on" -> PowerOnSteps(driver)
      [] do = "power off" -> PowerOffSteps(driver)
      [] do = "enable data" -> EnableDataSteps(driver)
      [] do = "disable data" -> DisableDataSteps(driver)
      [] do = "ensure" -> EnsureSteps
      [] do = "startup" -> StartupSteps

(* main(): the store is migrated, then run_startup(). *)
BootJob == Job(<< Step("migrate"), Step("startup") >>, Text("boot"))

(* radios_off() *)
RadiosOff == << Step("wifi stop"), Step("power off") >>

----------------------------------------------------------------------------
(* battery.rs, echo.rs, net.rs, power.rs, curl.rs *)

Ask(dev, op) == [do |-> "ask", dev |-> dev, op |-> op, must |-> TRUE]

BatteryProgram(args) ==
    CASE Is(args, "level") \/ Is(args, "charging") \/ Is(args, "diag") ->
            Job(<< Ask("gauge", "read") >>, Text("reading"))
      [] Is(args, "init") ->
            Job(<< Ask("gauge", "init") >>, Text("provisioned"))
      [] OTHER -> Usage

EchoProgram(args) == Answer(Claim("echo", args))

NetProgram(args) ==
    IF args # <<>> /\ ~Is(args, "status") THEN Usage
    ELSE Answer(Claim("transport",
                      IF wifi.ssid # NoSsid THEN wifi.ssid
                      ELSE IF driver.data THEN "cellular" ELSE NoSsid))

PowerProgram(args) ==
    CASE args = << <<"off">> >> -> Answer([is |-> "off"])
      [] Are(args, "ship", "confirm") -> Answer([is |-> "ship"])
      [] args = << <<"ship">> >> -> Answer(Text("ship warning"))
      [] OTHER -> Usage

CurlProgram(args) ==
    IF args = <<>> THEN Usage
    ELSE Job(<< Step("ensure"), Step("get") >>, Claim("body", args[1]))

----------------------------------------------------------------------------
(* modem.rs, phone.rs, sms.rs *)

DataProgram(args) ==
    CASE Is(args, "on") ->
            WhenPowered(IF driver.data THEN Answer(Text("data already up"))
                        ELSE Job(<< Step("enable data") >>, Text("data up")))
      [] Is(args, "off") ->
            IF driver.data
            THEN Job(<< Step("disable data") >>, Text("data down"))
            ELSE Answer(Text("data already down"))
      [] args = <<>> \/ Is(args, "status") -> Answer(Claim("data", driver.data))
      [] OTHER -> Usage

ModemProgram(args) ==
    CASE Is(args, "status") ->
            IF driver.data THEN Answer(Text("failed"))
            ELSE IF driver.powered THEN Job(StatusSteps, Found("status", <<>>))
            ELSE Answer(Text("powered: no"))
      [] Is(args, "on") -> Job(<< Step("power on") >>, Text("modem on"))
      [] Is(args, "off") -> Job(<< Step("power off") >>, Text("modem off"))
      [] Is(args, "at") /\ Len(args) > 1 ->
            Job(<< Must("raw", args[2]) >>, Found("answer", <<>>))
      [] Is(args, "data") -> DataProgram(Tail(args))
      [] OTHER -> Usage

PhoneProgram(args) ==
    CASE args = <<>> -> Usage
      [] Is(args, "hangup") -> WhenPowered(Job(HangUpSteps, Text("call ended")))
      [] OTHER ->
            WhenPowered(IF args[1] \in Numbers
                        THEN Job(DialSteps(args[1]), [is |-> "call"])
                        ELSE Answer(Text("invalid number")))

(* What a program makes of what the modem answered. *)
FoundIn(say, of, job) ==
    CASE say = "answer" -> Claim("answer", job.got)
      [] say = "status" -> Claim("modem status", format_status(job.replies))
      [] say = "inbox" -> Claim("sms inbox", format_inbox(parse_inbox(job.got)))
      [] say = "text" -> IF parse_cmgr(job.got, of) = <<>> THEN Text("failed")
                         ELSE Claim("sms text", parse_cmgr(job.got, of)[1])

(* send_text() checks the number, then the body, before it says a word. *)
SmsSend(to, body) ==
    IF to \notin Numbers \/ NewLine \in ToSet(body) \/ Len(body) > MaxBody
    THEN Answer(Text("failed"))
    ELSE Job(SendTextSteps(<< to, body >>), Claim("text sent", << to, body >>))

SmsProgram(args) ==
    CASE Is(args, "send") /\ Len(args) >= 3 ->
            WhenPowered(SmsSend(args[2], FlattenSeq(SubSeq(args, 3, Len(args)))))
      [] Is(args, "inbox") -> WhenPowered(Job(InboxSteps, Found("inbox", <<>>)))
      [] Is(args, "read") /\ Len(args) > 1 /\ args[2] \in Numbers ->
            WhenPowered(Job(ReadSteps(args[2]), Found("text", args[2])))
      [] Is(args, "delete") /\ Len(args) > 1 /\ args[2] \in Numbers ->
            WhenPowered(Job(DeleteSteps(args[2]), Claim("deleted", args[2])))
      [] OTHER -> Usage

----------------------------------------------------------------------------
(* wifi.rs *)

WifiProgram(args) ==
    CASE Is(args, "status") -> Answer(Claim("wifi", wifi.ssid))
      [] Is(args, "connect") ->
            Job(<< Step("scan") >>,
                List("select network:", "connect", Plainly(Visible)))
      [] Is(args, "disconnect") ->
            Job(<< Step("disconnect") >>, Text("disconnected"))
      [] Is(args, "forget") ->
            Answer(IF nvs.nets = <<>> THEN Text("no saved networks")
                   ELSE List("forget network:", "forget", Plainly(Networks)))
      [] OTHER -> Usage

WifiSelected(context, ssid) ==
    CASE context = "forget" ->
            Job(<< [do |-> "delete", ssid |-> ssid, must |-> TRUE] >>,
                Claim("forgot", ssid))
      [] context = "connect" /\ Known(ssid) ->
            Job(<< ConnectStep(ssid, PasswordOf(ssid), TRUE) >>,
                Claim("connected", ssid))
      [] OTHER -> Answer(Prompt("password:", ssid, TRUE))

WifiSubmitted(ssid, pw) ==
    Job(<< ConnectStep(ssid, pw, TRUE),
           [do |-> "save", ssid |-> ssid, pw |-> pw, must |-> TRUE] >>,
        Claim("connected", ssid))

----------------------------------------------------------------------------
(* email.rs and whatsapp.rs: an account is two keys, asked for one by one; the
   first answer travels in the context of the second prompt. *)

SetSteps(field1, value1, field2, value2) ==
    << [do |-> "set", field |-> field1, value |-> value1, must |-> TRUE],
       [do |-> "set", field |-> field2, value |-> value2, must |-> TRUE] >>

KeptOrEmpty(configured) ==
    Answer(Text(IF configured THEN "kept" ELSE "cannot be empty"))

First == [step |-> "first", value |-> Absent]
Second(value) == [step |-> "second", value |-> value]

SetupSubmitted(context, text, configured, header, field1, field2) ==
    CASE text = <<>> -> KeptOrEmpty(configured)
      [] text # <<>> /\ context.step = "first" ->
            Answer(Prompt(header, Second(text), TRUE))
      [] OTHER ->
            Job(SetSteps(field1, context.value, field2, text),
                Claim("account saved",
                      [field |-> field1, was |-> << context.value, text >>]))

EmailProgram(args) ==
    CASE args = << <<"setup">> >> -> Answer(Prompt("address:", First, FALSE))
      [] Len(args) = 3 ->
            IF Gmail
            THEN Job(<< Step("ensure") >> \o SmtpSteps(args),
                     Claim("email sent", args))
            ELSE Answer(Text("no gmail account"))
      [] OTHER -> Usage
EmailSubmitted(context, text) ==
    SetupSubmitted(context, text, Gmail, "app password:", "addr", "pw")

(* Each group's name is fetched too; without it the chat's own name will do. *)
Groups == {i \in DOMAIN Chats : Chats[i].group}
GroupNames ==
    [i \in 1 .. Cardinality(Groups) |-> [Step("get") EXCEPT !.must = FALSE]]

WhatsappInbox ==
    Job(<< Step("ensure"), Step("get") >> \o GroupNames,
        List("WhatsApp:", "inbox",
             [i \in DOMAIN Chats |->
                 [display |-> Chats[i].name, value |-> Chats[i]]]))
WhatsappSend(number, message) ==
    Job(<< Step("ensure"),
           [do |-> "post", what |-> << number, message >>, must |-> TRUE] >>,
        Claim("message sent", << number, message >>))

WithWhatsapp(job) == IF Whatsapp THEN job ELSE Answer(Text("no whatsapp config"))

WhatsappProgram(args) ==
    CASE args = << <<"setup">> >> -> Answer(Prompt("server URL:", First, FALSE))
      [] args = << <<"inbox">> >> -> WithWhatsapp(WhatsappInbox)
      [] Is(args, "send") /\ Len(args) = 3 ->
            WithWhatsapp(WhatsappSend(args[2], args[3]))
      [] OTHER -> Usage
WhatsappSelected(context, chat) ==
    Job(<< Step("get") >>,
        [is |-> "scroll", content |-> Thread, bottom |-> TRUE])
WhatsappSubmitted(context, text) ==
    SetupSubmitted(context, text, Whatsapp, "bearer token:", "url", "token")

----------------------------------------------------------------------------
(* The shell's dispatch: execute(), handle_list_selection() and
   handle_text_submit().  The program's name goes with its job, for the mode it
   may ask for. *)

By(prog, job) == [job EXCEPT !.prog = prog]

Program(name, args) ==
    CASE name = "battery" -> BatteryProgram(args)
      [] name = "curl" -> CurlProgram(args)
      [] name = "echo" -> EchoProgram(args)
      [] name = "email" -> EmailProgram(args)
      [] name = "modem" -> ModemProgram(args)
      [] name = "net" -> NetProgram(args)
      [] name = "phone" -> PhoneProgram(args)
      [] name = "power" -> PowerProgram(args)
      [] name = "sms" -> SmsProgram(args)
      [] name = "whatsapp" -> WhatsappProgram(args)
      [] name = "wifi" -> WifiProgram(args)
      [] name = "clear" -> Answer([is |-> "clear"])
      [] name = "help" -> Answer(Text("help"))
      [] OTHER -> Answer(Text("unknown command"))

Execute(line) ==
    LET tokens == Tokenize(line)
        name == IF Len(tokens[1]) = 1 THEN tokens[1][1] ELSE "unknown"
    IN CASE Unterminated(line) -> Answer(Text("parse error"))
         [] ~Unterminated(line) /\ tokens = <<>> -> Answer(Text(""))
         [] OTHER -> By(name, Program(name, Tail(tokens)))

(* A program without a handler for the key has none of its own to call. *)
Unhandled(call) ==
    Answer(IF call.entry = "select" THEN Claim("selected", call.value) ELSE Text(""))

Called(call) ==
    By(call.prog,
       CASE call.prog = "wifi" ->
               IF call.entry = "select"
               THEN WifiSelected(call.context, call.value)
               ELSE WifiSubmitted(call.context, call.value)
         [] call.prog = "whatsapp" ->
               IF call.entry = "select"
               THEN WhatsappSelected(call.context, call.value)
               ELSE WhatsappSubmitted(call.context, call.value)
         [] call.prog = "email" /\ call.entry = "submit" ->
               EmailSubmitted(call.context, call.value)
         [] OTHER -> Unhandled(call))
=============================================================================
