------------------------------- MODULE Calls -------------------------------
(***************************************************************************)
(* Voice calls end to end: the user, CallManager, the HAL, and the         *)
(* simulated modem with its network, on a wire that may lose chunks and a  *)
(* modem that may lose power. The owner is the one of the service's tests  *)
(* (call_manager/tests.rs): a driver step, its notices, a tick.             *)
(***************************************************************************)
EXTENDS CallManager

CONSTANTS
    Dialled,            \* numbers the user may dial, each once
    Callers,            \* numbers that may call, each once
    MaxKeys,            \* answers and hang-ups of the user
    MaxRx,              \* chunks on their way to the driver
    MaxTroubles         \* faults

\* A call's number also names the request that dials it, and a kind of request
\* every other: the HAL numbers requests, each once.
ASSUME NumbersAssumption == Dialled \cap (Callers \cup {"ListCalls", "Answer", "HangUp"}) = {}
ASSUME BoundsAssumption == MaxKeys \in Nat /\ MaxRx \in Nat \ {0} /\ MaxTroubles \in Nat

VARIABLES
    cm, hal, sim,
    cut,                \* the modem's power is cut, to come back
    used,               \* numbers dialled, or that called
    keys, troubles

vars == <<cm, hal, sim, cut, used, keys, troubles>>

\* The modem is configured, its boot's milestones past, and the owner has the
\* call list still to ask for.
Init ==
    /\ cm = [NewCm EXCEPT !.linkUp = TRUE]
    /\ hal = [NewHal EXCEPT !.phase = "Ready", !.engine = "Ready", !.nonce = 1, !.pdu = TRUE]
    /\ sim = [NewSim EXCEPT !.power = "On", !.tuned = Settings, !.simReady = TRUE, !.smsReady = TRUE]
    /\ cut = FALSE /\ used = {} /\ keys = 0 /\ troubles = 0

Current == [cm |-> cm, hal |-> hal, sim |-> sim, notices |-> <<>>]
Becomes(now) == \E t \in {now} : cm' = t.cm /\ hal' = t.hal /\ sim' = t.sim

-----------------------------------------------------------------------------
(* The owner of CallManager *)

\* One step of the driver, and what it brought.
Step ==
    /\ Becomes(Once(Stepped(Current, FALSE), HandleAll))
    /\ UNCHANGED <<cut, used, keys, troubles>>

\* Polls are 2 s apart: one finds the HAL idle.
Tick ==
    /\ Polls(cm) /\ hal.flight = Idle /\ sim.rx = <<>>
    /\ Becomes(SubmitQuery(Current))
    /\ UNCHANGED <<cut, used, keys, troubles>>

DialNumber(number) ==
    /\ CanDial(cm)
    /\ number \notin used /\ used' = used \cup {number}
    /\ Becomes(DialIt(Current, number))
    /\ UNCHANGED <<cut, keys, troubles>>

Key == keys < MaxKeys /\ keys' = keys + 1

AnswerKey ==
    /\ Key /\ CanAnswer(cm)
    /\ Becomes(Acts(Current, "Answer"))
    /\ UNCHANGED <<cut, used, troubles>>

HangUpKey ==
    /\ Key /\ CanHangUp(cm)
    /\ Becomes(Acts(Current, "HangUp"))
    /\ UNCHANGED <<cut, used, troubles>>

-----------------------------------------------------------------------------
(* The modem, the network and the wire *)

\* The driver reads every 20 ms: little waits for it.
Room == Len(sim.rx) < MaxRx

ModemSteps(lane) ==
    /\ sim.lanes[lane] # <<>> /\ Room
    /\ sim' = Advance(sim, lane)
    /\ UNCHANGED <<cm, hal, cut, used, keys, troubles>>

FarEnd ==
    /\ Room
    /\ sim' \in {RemoteAnswer(sim), RemoteHangUp(sim)} \ {sim}
    /\ UNCHANGED <<cm, hal, cut, used, keys, troubles>>

Rings(number) ==
    /\ Room
    /\ number \notin used /\ used' = used \cup {number}
    /\ sim' = IncomingCall(sim, [dir |-> "Incoming", state |-> "Incoming", number |-> number])
    /\ sim' # sim
    /\ UNCHANGED <<cm, hal, cut, keys, troubles>>

Fault == troubles < MaxTroubles /\ troubles' = troubles + 1

Drop ==
    /\ Fault /\ sim.rx # <<>> /\ Head(sim.rx) # Lost
    /\ sim' = [sim EXCEPT !.rx[1] = Lost]
    /\ UNCHANGED <<cm, hal, cut, used, keys>>

PowerCut ==
    /\ Fault /\ sim.power = "On"
    /\ sim' = CutPower(sim) /\ cut' = TRUE
    /\ UNCHANGED <<cm, hal, used, keys>>

PowerBack ==
    /\ cut /\ cut' = FALSE
    /\ sim' = PowerOn(sim)
    /\ UNCHANGED <<cm, hal, used, keys, troubles>>

-----------------------------------------------------------------------------
Next ==
    \/ Step \/ Tick
    \/ \E number \in Dialled : DialNumber(number)
    \/ AnswerKey \/ HangUpKey
    \/ \E lane \in Lanes : ModemSteps(lane)
    \/ \E number \in Callers : Rings(number)
    \/ FarEnd \/ Drop \/ PowerCut \/ PowerBack

\* The owner and the driver loop, the modem goes on.
Fairness ==
    /\ WF_vars(Step) /\ WF_vars(Tick) /\ WF_vars(PowerBack)
    /\ \A lane \in Lanes : WF_vars(ModemSteps(lane))

Spec == Init /\ [][Next]_vars /\ Fairness

-----------------------------------------------------------------------------
(* Properties *)

\* Requests of this number that wait, are in flight, or whose answer is to be read
IsFor(cmd, id) == IsUser(cmd) /\ cmd.id = id
Underway(id) ==
    Cardinality({i \in DOMAIN hal.queue : IsFor(hal.queue[i], id)})
      + (IF IsFor(hal.flight, id) THEN 1 ELSE 0)
      + Cardinality({i \in DOMAIN hal.out : hal.out[i].o = "Done" /\ hal.out[i].id = id})

\* The service waits for an answer exactly as long as one is to come: it has
\* one query, one ATA and one AT+CHUP under way at most (call_manager.rs:41),
\* and none, nor a dial, that is answered no more and keeps all later ones back.
\* A call shown that no list has shown yet has its dial under way or settled.
Awaited ==
    /\ Underway("ListCalls") = IF cm.query THEN 1 ELSE 0
    /\ \A action \in {"Answer", "HangUp"} : Underway(action) = IF action \in cm.actions THEN 1 ELSE 0
    /\ \A number \in Dialled : cm.dial = Sent(number) => Underway(number) > 0
    /\ cm.tracked # None /\ ~cm.tracked.seen => cm.dial # None

\* No call is shown as ended that the modem still has and is not ending: not
\* by a list older than the dial, nor by news of another call.
Leaving == \E lane \in Lanes : \E i \in DOMAIN sim.lanes[lane] : sim.lanes[lane][i].e = "CallGone"
NoFalseEnd ==
    [][cm.tracked # None /\ cm.tracked' = None /\ sim.call # None /\ ~Leaving
         => sim.call.number # cm.tracked.number]_vars

\* Whatever was lost, in the end the user sees the modem's call and no other.
Agrees ==
    /\ cm.calls = sim.call
    /\ (cm.tracked = None) = (sim.call = None)
    /\ cm.tracked # None => cm.tracked.number = sim.call.number
Converges == <>[](cm.linkUp /\ Agrees)
=============================================================================
