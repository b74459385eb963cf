--------------------------------- MODULE World ---------------------------------
(* What the shell's programs reach besides the modem: the WiFi driver
   (device/src/wifi.rs), the two NVS stores (device/src/nvs_network_store.rs,
   device/src/nvs_credential_store.rs), HTTP (device/src/http.rs) and the SMTP
   session (core/src/email.rs, device/src/smtp.rs); with the access points, the
   WhatsApp bridge and the mail server at the other ends.

   One action per call that may fail by itself.  Each says, in `ok`, how the call
   went, and costs one of the failures there may be where nothing but bad luck explains a
   failure.  Handset.tla carries them out for the program that is running. *)
EXTENDS OldModem, Faults

CONSTANTS
    Visible, \* the networks in reach, in the order a scan lists them
    Password \* the password of each

ASSUME WorldAssumption == DOMAIN Password = ToSet(Visible)

VARIABLES
    wifi,  \* EspWifiDriver: radio on, connected_ssid; and the true link
    nvs,   \* the flash: two accounts of two keys each, the networks
    mail,  \* emails the server has accepted
    bridge \* messages the bridge has taken

worldVars == <<driver, modem, uart, air, wifi, nvs, mail, bridge>>

Absent == <<>>
NoSsid == "none"
BlankNvs ==
    [addr |-> Absent, pw |-> Absent, url |-> Absent, token |-> Absent,
     nets |-> <<>>, legacy |-> <<>>, migrated |-> TRUE]

WorldInit(flash, texts, radio) ==
    /\ OldModemInit(texts, radio)
    /\ wifi = [on |-> TRUE, ssid |-> NoSsid, link |-> NoSsid]
    /\ nvs = flash
    /\ mail = {}
    /\ bridge = {}

(* The outcome of a call that only bad luck makes fail. *)
Unlucky(ok) == IF ok THEN UNCHANGED trouble ELSE Mishap("nothing")

----------------------------------------------------------------------------
(* The modem's power and data session. *)

(* pulse_pwrkey(); power_on() takes the modem to be powered from here on. *)
PulseOn(s, ok) ==
    /\ s.do = "pulse on"
    /\ ok
    /\ modem' = PulsedOn(modem)
    /\ driver' = [driver EXCEPT !.powered = TRUE]
    /\ UNCHANGED <<uart, air, wifi, nvs, mail, bridge, trouble>>

PulseOff(s, ok) ==
    /\ s.do = "pulse off"
    /\ ok
    /\ modem' = PulsedOff(modem)
    /\ driver' = [driver EXCEPT !.powered = FALSE]
    /\ UNCHANGED <<uart, air, wifi, nvs, mail, bridge, trouble>>

(* start_ppp_session(): up only if the modem is in data mode; a failure leaves
   the modem there and the driver without a session. *)
Ppp(s, ok) ==
    /\ s.do = "ppp"
    /\ ok => modem.mode = "data"
    /\ Unlucky(ok \/ modem.mode # "data")
    /\ driver' = [driver EXCEPT !.data = ok]
    /\ UNCHANGED <<modem, uart, air, wifi, nvs, mail, bridge>>

(* disable_data(): the pump stops; `+++` with its guard times, and what came
   back by then is drained. *)
StopPump(s, ok) ==
    /\ s.do = "stop pump"
    /\ ok
    /\ driver' = [driver EXCEPT !.data = FALSE]
    /\ UNCHANGED <<modem, uart, air, wifi, nvs, mail, bridge, trouble>>

Escape(s, ok) ==
    /\ s.do = "escape"
    /\ ok
    /\ modem' = Sent(modem, "+++", "")
    /\ uart' = <<>>
    /\ UNCHANGED <<driver, air, wifi, nvs, mail, bridge, trouble>>

----------------------------------------------------------------------------
(* WiFi. *)

WifiOnly == UNCHANGED <<driver, modem, uart, air, nvs, mail, bridge>>

(* scan(): an error lists nothing. *)
Scan(s, ok) ==
    /\ s.do = "scan"
    /\ ok => wifi.on
    /\ Unlucky(ok \/ ~wifi.on)
    /\ UNCHANGED wifi
    /\ WifiOnly

(* connect(): the driver believes in the new network only if it came up, and in
   the old one still if it did not. *)
Connect(s, ok) ==
    LET right == wifi.on /\ s.ssid \in ToSet(Visible) /\ s.pw = Password[s.ssid]
    IN /\ s.do = "connect"
       /\ ok => right
       /\ Unlucky(ok \/ ~right)
       /\ wifi' = IF ok THEN [wifi EXCEPT !.ssid = s.ssid, !.link = s.ssid]
                  ELSE [wifi EXCEPT !.link = NoSsid]
       /\ WifiOnly

Disconnect(s, ok) ==
    /\ s.do = "disconnect"
    /\ ok => wifi.ssid # NoSsid
    /\ Unlucky(ok \/ wifi.ssid = NoSsid)
    /\ wifi' = IF ok THEN [wifi EXCEPT !.ssid = NoSsid, !.link = NoSsid]
               ELSE wifi
    /\ WifiOnly

(* shutdown_for_sleep(): every step of it is tried whatever the others do. *)
WifiStop(s, ok) ==
    /\ s.do = "wifi stop"
    /\ ok
    /\ wifi' = [on |-> FALSE, ssid |-> NoSsid, link |-> NoSsid]
    /\ UNCHANGED trouble
    /\ WifiOnly

(* The access point goes away.  Nothing tells the driver. *)
ApLost ==
    /\ wifi.link # NoSsid
    /\ Mishap("nothing")
    /\ wifi' = [wifi EXCEPT !.link = NoSsid]
    /\ WifiOnly

----------------------------------------------------------------------------
(* The stores.  A write either takes place or leaves what was there. *)

Networks == [i \in DOMAIN nvs.nets |-> nvs.nets[i].ssid]
SavedFor(ssid) == SelectSeq(nvs.nets, LAMBDA n : n.ssid = ssid)
Known(ssid) == SavedFor(ssid) # <<>>
PasswordOf(ssid) == SavedFor(ssid)[1].pw
Gmail == nvs.addr # Absent /\ nvs.pw # Absent
Whatsapp == nvs.url # Absent /\ nvs.token # Absent

NvsOnly == UNCHANGED <<driver, modem, uart, air, wifi, mail, bridge>>

(* set_gmail() and set_whatsapp() write one key, then the other; the first
   failure is reported. *)
NvsSet(s, ok) ==
    /\ s.do = "set"
    /\ Unlucky(ok)
    /\ nvs' = IF ok THEN [nvs EXCEPT ![s.field] = s.value] ELSE nvs
    /\ NvsOnly

(* write_all(): an error is logged and ignored, so the call goes well. *)
WriteAll(nets, written) ==
    /\ Unlucky(written)
    /\ nvs' = IF written THEN [nvs EXCEPT !.nets = nets] ELSE nvs
    /\ NvsOnly

SaveNet(s, ok) ==
    /\ s.do = "save"
    /\ ok
    /\ LET net == [ssid |-> s.ssid, pw |-> s.pw]
           nets == IF Known(s.ssid)
                   THEN [i \in DOMAIN nvs.nets |->
                            IF nvs.nets[i].ssid = s.ssid THEN net
                            ELSE nvs.nets[i]]
                   ELSE Append(nvs.nets, net)
       IN \E written \in BOOLEAN : WriteAll(nets, written)

DeleteNet(s, ok) ==
    /\ s.do = "delete"
    /\ ok
    /\ \E written \in BOOLEAN :
          /\ ~Known(s.ssid) => written
          /\ WriteAll(SelectSeq(nvs.nets, LAMBDA n : n.ssid # s.ssid), written)

(* migrate_if_needed(): the old keys go whether or not the new one was written,
   and the marker, whose own failure only means another try, is set last. *)
Migrate(s, ok) ==
    /\ s.do = "migrate"
    /\ ok
    /\ \E written \in BOOLEAN :
          /\ (nvs.migrated \/ nvs.legacy = <<>>) => written
          /\ Unlucky(written)
          /\ nvs' = IF nvs.migrated THEN nvs
                    ELSE [nvs EXCEPT
                             !.nets = IF written /\ nvs.legacy # <<>>
                                      THEN nvs.legacy ELSE @,
                             !.legacy = <<>>, !.migrated = TRUE]
    /\ NvsOnly

----------------------------------------------------------------------------
(* The network.  Over WiFi if it is up, over the modem's session otherwise. *)

Online == wifi.link # NoSsid \/ driver.data
ServersOnly == UNCHANGED <<driver, modem, uart, air, wifi, nvs>>

HttpGet(s, ok) ==
    /\ s.do = "get"
    /\ ok => Online
    /\ Unlucky(ok \/ ~Online)
    /\ UNCHANGED <<mail, bridge>>
    /\ ServersOnly

(* post_json_with_bearer(): the reply may be lost after the bridge has acted. *)
HttpPost(s, ok) ==
    /\ s.do = "post"
    /\ ok => Online
    /\ Unlucky(ok \/ ~Online)
    /\ \E taken \in BOOLEAN :
          /\ ok => taken
          /\ taken => Online
          /\ bridge' = IF taken THEN bridge \cup {s.what} ELSE bridge
    /\ UNCHANGED mail
    /\ ServersOnly

(* One step of SmtpSession::send(): what is written, and a reply whose code is
   the one expected, or is not, or does not come.  The end of the data is what
   the server answers by taking the mail. *)
Smtp(s, ok) ==
    /\ s.do = "smtp"
    /\ ok => Online
    /\ Unlucky(ok \/ ~Online)
    /\ \E taken \in BOOLEAN :
          /\ taken => s.say = "." /\ Online
          /\ s.say = "." /\ ok => taken
          /\ mail' = IF taken THEN mail \cup {s.what} ELSE mail
    /\ UNCHANGED bridge
    /\ ServersOnly

(* The session, step by step: the reply to QUIT is not looked at, but the
   failure to write it is. *)
SmtpLines ==
    << "connect", "greeting", "EHLO", "AUTH LOGIN", "username", "password",
       "MAIL FROM", "RCPT TO", "DATA", ".", "QUIT" >>
SmtpSteps(what) ==
    [i \in DOMAIN SmtpLines |->
        [do |-> "smtp", say |-> SmtpLines[i], what |-> what, must |-> TRUE]]

----------------------------------------------------------------------------
(* The step `s` of the running program goes well, or does not. *)
WorldStep(s, ok) ==
    \/ PulseOn(s, ok) \/ PulseOff(s, ok)
    \/ Ppp(s, ok) \/ StopPump(s, ok) \/ Escape(s, ok)
    \/ Scan(s, ok) \/ Connect(s, ok) \/ Disconnect(s, ok) \/ WifiStop(s, ok)
    \/ NvsSet(s, ok) \/ SaveNet(s, ok) \/ DeleteNet(s, ok) \/ Migrate(s, ok)
    \/ HttpGet(s, ok) \/ HttpPost(s, ok) \/ Smtp(s, ok)
=============================================================================
