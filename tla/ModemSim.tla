------------------------------ MODULE ModemSim ------------------------------
(***************************************************************************)
(* The A7682E at the far end of the UART, as the byte-level simulator of   *)
(* the test builds has it (core/src/modem/sim.rs): operators on the struct *)
(* Sim, used by every module that needs a modem.                           *)
(*                                                                         *)
(* The simulator runs on a clock. Here what it has scheduled is kept in    *)
(* lanes: within a lane effects happen in order, between lanes in any      *)
(* order, which allows every timing of the network, the boot and the       *)
(* commands against each other. Left out: echo, the gain, the voice        *)
(* bearer, the duration of calls, text formats.                            *)
(***************************************************************************)
EXTENDS Naturals, Sequences, FiniteSets

(* What can be set. Those of NoSave are lost at every boot. *)
NoSave == {"cvhu", "cmgf"}
Settings == NoSave \cup {"clip"}

CONSTANTS
    SMS_SLOTS, MaxRings,
    Followed            \* the settings an instance follows

ASSUME SimAssumption == SMS_SLOTS \in Nat /\ MaxRings \in Nat /\ Followed \subseteq Settings

None == [k |-> "None"]

(* Written to the modem *)
Esc == [c |-> "Esc"]
PayloadOf(cmd) == [c |-> "Payload", of |-> cmd]
Probe(n) == [c |-> "Probe", n |-> n]
Garbage == [c |-> "Garbage"]
Set(s) == [c |-> "Set", s |-> s]
Query(s) == [c |-> "Query", s |-> s]

(* Received from it *)
Urc(lines) == [t |-> "Urc", lines |-> lines]
Final(cmd, ok, info) == [t |-> "Final", of |-> cmd, ok |-> ok, info |-> info]
Ok(cmd) == Final(cmd, TRUE, None)
Error(cmd) == Final(cmd, FALSE, None)
PromptFor(cmd) == [t |-> "Prompt", of |-> cmd]
Lost == [t |-> "Lost"]

Line(k) == [k |-> k]
Clcc(call) == [k |-> "CLCC", call |-> call]
Cmti(i) == [k |-> "CMTI", index |-> i]
EndLines == <<Line("END"), Line("NO CARRIER")>>

(* Effect *)
Emit(chunk) == [e |-> "Emit", chunk |-> chunk]
Effect(e) == [e |-> e]

\* The milestones mean nothing where no setting waits for them.
BOOT ==
    IF Followed = {} THEN <<Effect("Booted")>>
    ELSE <<Effect("Booted"), Effect("SimReady"), Effect("SmsReady"), Emit(Urc(<<Line("PB DONE")>>))>>
Lanes == {"boot", "reply", "network", "ending", "ring"}

NewSim ==
    [power |-> "Off", tuned |-> {}, commands |-> <<>>, garbled |-> FALSE,
     lanes |-> [l \in Lanes |-> <<>>], call |-> None, simReady |-> FALSE, smsReady |-> FALSE,
     messages |-> <<>>, input |-> None, sent |-> <<>>, rx |-> <<>>]

At(sim, lane, effects) == [sim EXCEPT !.lanes[lane] = @ \o effects]
Say(sim, chunk) == [sim EXCEPT !.rx = Append(@, chunk)]
Busy(sim) == sim.lanes["reply"] # <<>> \/ sim.input # None

-----------------------------------------------------------------------------
(* Outside world: power and network *)

PowerOn(sim) == IF sim.power # "Off" THEN sim ELSE At([sim EXCEPT !.power = "Booting"], "boot", BOOT)

\* shut_down: only the stored messages and settings stay.
ShutDown(sim) ==
    [NewSim EXCEPT !.tuned = sim.tuned, !.messages = sim.messages, !.sent = sim.sent, !.rx = sim.rx]

PowerOff(sim) ==
    IF sim.power = "Off" THEN sim ELSE At(ShutDown(sim), "boot", <<Emit(Urc(<<Line("DETACH")>>))>>)

\* Nothing in transit survives.
CutPower(sim) == [ShutDown(sim) EXCEPT !.rx = <<>>]

RemoteAnswer(sim) ==
    IF sim.call = None \/ sim.call.dir # "Outgoing" \/ sim.call.state = "Active" THEN sim
    ELSE LET c == [sim.call EXCEPT !.state = "Active"]
         IN At([sim EXCEPT !.call = c], "ending", <<Emit(Urc(<<Line("BEGIN"), Clcc(c)>>))>>)

Gone(call) == [call EXCEPT !.state = "Disconnected"]

\* The call leaves the list as its +CLCC goes out.
CallGone(lines) == [e |-> "CallGone", lines |-> lines]

\* end_call: a call that was set up; its end is announced later.
EndCall(call) == <<CallGone(<<Clcc(Gone(call))>>), Emit(Urc(EndLines))>>

\* missed: a ringing call ends in one burst.
Missed(call) == <<CallGone(<<Clcc(Gone(call))>> \o EndLines)>>

Ending(call) == IF call.state = "Incoming" THEN Missed(call) ELSE EndCall(call)

RemoteHangUp(sim) ==
    IF sim.call = None \/ sim.lanes["ending"] # <<>> THEN sim ELSE At(sim, "ending", Ending(sim.call))

IncomingCall(sim, call) ==
    IF sim.power # "On" \/ sim.call # None THEN sim
    ELSE At(Say([sim EXCEPT !.call = call], Urc(<<[k |-> "RING", number |-> call.number]>>)),
            "ring", <<Emit(Urc(<<Clcc(call)>>))>> \o [i \in 1 .. MaxRings |-> Effect("Ring")])

FreeSlots(sim) == (1 .. SMS_SLOTS) \ DOMAIN sim.messages

Store(sim, i, status, pdu) ==
    [sim EXCEPT !.messages = [j \in DOMAIN @ \cup {i} |->
        IF j = i THEN [pdu |-> pdu, status |-> status] ELSE @[j]]]

\* receive_sms: the lowest free slot, or nowhere.
ReceiveSms(sim, pdu) ==
    IF sim.power # "On" \/ ~sim.smsReady \/ FreeSlots(sim) = {} THEN sim
    ELSE LET i == CHOOSE i \in FreeSlots(sim) : \A j \in FreeSlots(sim) : i <= j
         IN Say(Store(sim, i, "Unread", pdu), Urc(<<Cmti(i)>>))

-----------------------------------------------------------------------------
(* Commands *)

Reply(sim, effects) == At(sim, "reply", effects)
Answering(sim, final) == Reply(sim, <<Emit(final)>>)

Needs(sim, s) == CASE s = "clip" -> sim.simReady [] s = "cmgf" -> sim.smsReady [] OTHER -> TRUE

ReadIt(m) == [m EXCEPT !.status = "Read"]

SmsCommand(sim, cmd) ==
    IF ~sim.smsReady \/ (cmd.c \in {"List", "Read"} /\ "cmgf" \notin sim.tuned)
      THEN Answering(sim, Error(cmd))
    ELSE CASE cmd.c = "List" ->
                Answering([sim EXCEPT !.messages = [i \in DOMAIN @ |-> ReadIt(@[i])]],
                          Final(cmd, TRUE, sim.messages))
           [] cmd.c = "Read" /\ cmd.index \in DOMAIN sim.messages ->
                Answering([sim EXCEPT !.messages[cmd.index] = ReadIt(@)],
                          Final(cmd, TRUE, sim.messages[cmd.index]))
           [] cmd.c = "Read" /\ cmd.index \notin DOMAIN sim.messages -> Answering(sim, Error(cmd))
           [] cmd.c = "Delete" ->
                Answering([sim EXCEPT !.messages = [i \in DOMAIN @ \ {cmd.index} |-> @[i]]], Ok(cmd))
           [] cmd.c = "Storage" -> Answering(sim, Final(cmd, TRUE, Cardinality(DOMAIN sim.messages)))
           [] OTHER -> \* Send
                Reply([sim EXCEPT !.input = [of |-> cmd, spoilt |-> FALSE]], <<Emit(PromptFor(cmd))>>)

Dial(sim, cmd) ==
    IF sim.call # None THEN Answering(sim, Error(cmd))
    ELSE LET c == [dir |-> "Outgoing", state |-> "Dialling", number |-> cmd.number]
         IN At(Answering([sim EXCEPT !.call = c], Ok(cmd)),
               "network", <<Effect("Dialling"), Effect("Alerting")>>)

\* Without a ringing call the only answer is NO CARRIER, which ends no command.
Answer(sim, cmd) ==
    IF sim.call = None \/ sim.call.state # "Incoming" THEN Answering(sim, Urc(<<Line("NO CARRIER")>>))
    ELSE Reply(sim, <<Effect("Connected"), Emit(Ok(cmd))>>)

HangUp(sim, cmd) ==
    Reply(sim, (IF sim.call = None THEN <<>> ELSE Ending(sim.call)) \o <<Emit(Ok(cmd))>>)

Execute(sim, cmd) ==
    CASE cmd.c = "Probe" -> Reply(sim, <<Emit([t |-> "ReadBack", n |-> cmd.n])>>)
      [] cmd.c = "Plain" -> Answering(sim, Ok(cmd))
      [] cmd.c = "Garbage" -> Answering(sim, Error(cmd))
      [] cmd.c = "Set" ->
           IF Needs(sim, cmd.s) THEN Answering([sim EXCEPT !.tuned = @ \cup {cmd.s}], Ok(cmd))
           ELSE Answering(sim, Error(cmd))
      [] cmd.c = "Query" ->
           Answering(sim, IF Needs(sim, cmd.s) THEN Final(cmd, TRUE, cmd.s \in sim.tuned) ELSE Error(cmd))
      [] cmd.c = "ListCalls" -> Answering(sim, Final(cmd, TRUE, sim.call))
      [] cmd.c = "Dial" -> Dial(sim, cmd)
      [] cmd.c = "Answer" -> Answer(sim, cmd)
      [] cmd.c = "HangUp" -> HangUp(sim, cmd)
      [] OTHER -> SmsCommand(sim, cmd)

NextCommand(sim) ==
    IF Busy(sim) \/ sim.power # "On" \/ sim.commands = <<>> THEN sim
    ELSE Execute([sim EXCEPT !.commands = Tail(@)], Head(sim.commands))

\* Everything up to Ctrl-Z is text, a probe included; ESC cancels.
SmsInput(sim, w) ==
    LET done == [sim EXCEPT !.input = None]
        cmd == sim.input.of
    IN CASE w.c = "Esc" -> Answering(done, Ok(w))
         [] w.c = "Payload" /\ "cmgf" \in sim.tuned /\ (sim.input.spoilt \/ w.of # cmd) ->
              Answering(done, Error(cmd))
         [] w.c = "Payload" /\ ~("cmgf" \in sim.tuned /\ (sim.input.spoilt \/ w.of # cmd)) ->
              Answering([done EXCEPT !.sent = Append(@, [of |-> w.of, pdu |-> "cmgf" \in sim.tuned])],
                        Ok(cmd))
         [] OTHER -> [sim EXCEPT !.input.spoilt = TRUE]

\* write: an unpowered or booting modem hears nothing; a payload nobody
\* waits for spoils the next command line.
Write(sim, w) ==
    IF sim.power # "On" THEN sim
    ELSE IF sim.input # None THEN SmsInput(sim, w)
    ELSE CASE w.c = "Esc" -> sim
           [] w.c = "Payload" -> [sim EXCEPT !.garbled = TRUE]
           [] OTHER -> NextCommand([sim EXCEPT !.garbled = FALSE,
                           !.commands = Append(@, IF sim.garbled THEN Garbage ELSE w)])

-----------------------------------------------------------------------------
(* apply *)

InProgress(sim) ==
    sim.call # None /\ sim.call.dir = "Outgoing" /\ sim.call.state \in {"Dialling", "Alerting"}

Now(sim, state) == [sim.call EXCEPT !.state = state]

Apply(sim, f) ==
    CASE f.e = "Emit" -> Say(sim, f.chunk)
      [] f.e = "Booted" ->
           Say([sim EXCEPT !.power = "On", !.tuned = @ \ NoSave], Urc(<<Line("ATREADY")>>))
      [] f.e = "SimReady" -> Say([sim EXCEPT !.simReady = TRUE], Urc(<<Line("SIM READY")>>))
      [] f.e = "SmsReady" -> Say([sim EXCEPT !.smsReady = TRUE], Urc(<<Line("SMS DONE")>>))
      [] f.e \in {"Dialling", "Alerting"} ->
           IF ~InProgress(sim) THEN sim
           ELSE Say([sim EXCEPT !.call = Now(sim, f.e)], Urc(<<Clcc(Now(sim, f.e))>>))
      [] f.e = "Connected" ->
           IF sim.call = None THEN sim
           ELSE Say([sim EXCEPT !.call = Now(sim, "Active")],
                    Urc(<<Line("BEGIN"), Clcc(Now(sim, "Active"))>>))
      [] f.e = "CallGone" -> Say([sim EXCEPT !.call = None], Urc(f.lines))
      [] OTHER -> \* Ring
           IF sim.call = None \/ sim.call.state # "Incoming" THEN sim
           ELSE Say(sim, Urc(<<[k |-> "RING", number |-> sim.call.number]>>))

\* The next effect of a lane; the last of a command's is also its Finish.
Advance(sim, lane) ==
    NextCommand(Apply([sim EXCEPT !.lanes[lane] = Tail(@)], Head(sim.lanes[lane])))
=============================================================================
