-------------------------------- MODULE Sms --------------------------------
(***************************************************************************)
(* Texts end to end: the network, the simulated modem with its SIM, the    *)
(* HAL, SmsStore, and the owner with its durable messages, on a wire that  *)
(* may lose chunks, a modem that may lose power, and a device that may.    *)
(* The owner is the one of the service's tests (sms_store/tests.rs): a     *)
(* driver step, its notices, a tick; messages are saved some time later.   *)
(***************************************************************************)
EXTENDS SmsStore

CONSTANTS
    Arriving,           \* PDUs the network has for us, in order
    Texts, Parts(_),    \* texts the user sends, each once, and their parts
    MaxRx, MaxTroubles

ASSUME BoundsAssumption == MaxRx \in Nat \ {0} /\ MaxTroubles \in Nat

VARIABLES
    store, hal, sim,
    network,            \* how many of them are on the SIM
    toSave,             \* PDUs offered, not yet saved
    durable,            \* PDUs saved, in order
    texts,              \* what became of each text
    cut,                \* the modem's power is cut, to come back
    troubles

vars == <<store, hal, sim, network, toSave, durable, texts, cut, troubles>>

Unsent == [result |-> "Unsent", parts |-> 0]
Pending == [result |-> "Pending", parts |-> 0]
Forgotten == [result |-> "Forgotten", parts |-> 0]

\* The modem is configured, its boot's milestones past.
Init ==
    /\ store = [NewStore EXCEPT !.linkUp = TRUE, !.due = TRUE]
    /\ hal = [NewHal EXCEPT !.phase = "Ready", !.engine = "Ready", !.nonce = 1, !.pdu = TRUE]
    /\ sim = [NewSim EXCEPT !.power = "On", !.tuned = Settings, !.simReady = TRUE, !.smsReady = TRUE]
    /\ network = 0 /\ toSave = {} /\ durable = <<>>
    /\ texts = [t \in Texts |-> Unsent]
    /\ cut = FALSE /\ troubles = 0

Current == [store |-> store, hal |-> hal, sim |-> sim, notices |-> <<>>]

\* poll_event, until there is none: what is offered waits to be saved.
Becomes(now) ==
    \E t \in {now} :
        LET events == t.store.events
            Results(x) == {events[i] : i \in {j \in DOMAIN events : events[j].k = "Sent" /\ events[j].text = x}}
        IN /\ store' = [t.store EXCEPT !.events = <<>>] /\ hal' = t.hal /\ sim' = t.sim
           /\ toSave' = toSave \cup
                {events[i].pdu : i \in {j \in DOMAIN events : events[j].k = "Received"}}
           /\ texts' = [x \in Texts |->
                IF Results(x) = {} THEN texts[x]
                ELSE LET e == CHOOSE r \in Results(x) : TRUE
                     IN [result |-> IF texts[x].result # "Pending" THEN "Twice" ELSE e.result,
                         parts |-> e.parts]]

-----------------------------------------------------------------------------
(* The owner of SmsStore *)

Step ==
    /\ Becomes(Once(Stepped(Current, FALSE), HandleAll))
    /\ UNCHANGED <<network, durable, cut, troubles>>

\* A round comes 10 s or more after the last: what the modem had scheduled
\* has happened by then.
Quiet == sim.rx = <<>> /\ \A lane \in Lanes : sim.lanes[lane] = <<>>

Tick ==
    /\ CanTick(store) /\ Quiet
    /\ Becomes(StartRound(Current))
    /\ UNCHANGED <<network, durable, cut, troubles>>

\* The message is stored first (once, whatever is offered), then confirmed.
Save(pdu) ==
    /\ pdu \in toSave
    /\ durable' = IF pdu \in Range(durable) THEN durable ELSE Append(durable, pdu)
    /\ \E t \in {Saved(Current, pdu)} : store' = t.store /\ hal' = t.hal
    /\ toSave' = toSave \ {pdu}
    /\ UNCHANGED <<sim, network, texts, cut, troubles>>

SendIt(text) ==
    /\ texts[text] = Unsent
    /\ texts' = [texts EXCEPT ![text] = Pending]
    /\ \E t \in {SendText(Current, text, Parts(text))} : store' = t.store /\ hal' = t.hal
    /\ UNCHANGED <<sim, network, toSave, durable, cut, troubles>>

-----------------------------------------------------------------------------
(* The modem, the network and the wire *)

Room == Len(sim.rx) < MaxRx

\* The boot's milestones are seconds apart, longer than a configuration pass
\* (ModemService has them at any moment).
ModemSteps(lane) ==
    /\ sim.lanes[lane] # <<>> /\ Room
    /\ lane = "boot" => hal.phase # "Configuring"
    /\ sim' = Advance(sim, lane)
    /\ UNCHANGED <<store, hal, network, toSave, durable, texts, cut, troubles>>

\* The network delivers the next message when the SIM has room.
Deliver ==
    /\ network < Len(Arriving) /\ Room
    /\ sim' = ReceiveSms(sim, Arriving[network + 1]) /\ sim' # sim
    /\ network' = network + 1
    /\ UNCHANGED <<store, hal, toSave, durable, texts, cut, troubles>>

Fault == troubles < MaxTroubles /\ troubles' = troubles + 1

Drop ==
    /\ Fault /\ sim.rx # <<>> /\ Head(sim.rx) # Lost
    /\ sim' = [sim EXCEPT !.rx[1] = Lost]
    /\ UNCHANGED <<store, hal, network, toSave, durable, texts, cut>>

PowerCut ==
    /\ Fault /\ sim.power = "On"
    /\ sim' = CutPower(sim) /\ cut' = TRUE
    /\ UNCHANGED <<store, hal, network, toSave, durable, texts>>

PowerBack ==
    /\ cut /\ cut' = FALSE
    /\ sim' = PowerOn(sim)
    /\ UNCHANGED <<store, hal, network, toSave, durable, texts, troubles>>

\* The device loses power, the modem with it: what is durable stays.
DeviceRestart ==
    /\ Fault /\ ~cut
    /\ store' = NewStore /\ hal' = HalPowerOn(NewHal) /\ sim' = PowerOn(CutPower(sim))
    /\ toSave' = {}
    /\ texts' = [t \in Texts |-> IF texts[t] = Pending THEN Forgotten ELSE texts[t]]
    /\ UNCHANGED <<network, durable, cut>>

-----------------------------------------------------------------------------
Next ==
    \/ Step \/ Tick
    \/ Deliver \/ \E pdu \in Range(Arriving) : Save(pdu)
    \/ \E text \in Texts : SendIt(text)
    \/ \E lane \in Lanes : ModemSteps(lane)
    \/ Drop \/ PowerCut \/ PowerBack \/ DeviceRestart

\* The owner, the driver loop and the modem go on; the network tries again.
Fairness ==
    /\ WF_vars(Step) /\ WF_vars(Tick) /\ WF_vars(PowerBack)
    /\ SF_vars(Deliver) /\ \A pdu \in Range(Arriving) : WF_vars(Save(pdu))
    /\ \A lane \in Lanes : WF_vars(ModemSteps(lane))

Spec == Init /\ [][Next]_vars /\ Fairness

-----------------------------------------------------------------------------
(* Properties *)

OnSim == {sim.messages[i].pdu : i \in DOMAIN sim.messages}
Inbox == FoldLeft(Add, <<>>, durable)

\* No message is lost: what the SIM accepted is still there, or is durable and
\* in exactly one text of the inbox (a silent message only goes).
NothingLost ==
    \A n \in 1 .. network :
        LET pdu == Arriving[n] IN
        \/ pdu.silent \/ pdu \in OnSim
        \/ Cardinality({i \in DOMAIN Inbox : pdu \in Inbox[i].parts}) = 1

\* What is reported of a text is what went out: parts in order, none twice,
\* all of them if "Sent", only those reported if it failed, and at most one
\* more if its fate is unknown.
OutOf(text) ==
    LET mine == SelectSeq(sim.sent, LAMBDA s : s.of.id[2] = text)
    IN [i \in DOMAIN mine |-> mine[i].of.id[3]]
SendsTrue ==
    \A text \in Texts :
        LET out == OutOf(text)
            told == texts[text]
        IN /\ \A i \in DOMAIN out : out[i] = i
           /\ told.result = "Sent" => Len(out) = Parts(text)
           /\ told.result \in {"Failed", "NotSent"} => Len(out) = told.parts
           /\ told.result = "Unknown" => Len(out) \in {told.parts, told.parts + 1}
           /\ told.result # "Twice"

\* In the end every message is durable and off the SIM, and every text the
\* user sent (and the device did not forget) has its result.
Finishes ==
    <>[](/\ network = Len(Arriving) /\ DOMAIN sim.messages = {}
         /\ \A pdu \in Range(Arriving) : pdu.silent \/ pdu \in Range(durable)
         /\ \A text \in Texts : texts[text] # Pending)
=============================================================================
