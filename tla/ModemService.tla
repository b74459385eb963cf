---------------------------- MODULE ModemService ----------------------------
(***************************************************************************)
(* The modem stack as the device runs it: the handle and its channels, the *)
(* driver thread (device/src/modem_service.rs), Service, the power         *)
(* sequencer, the driver step and the HAL, with the simulated modem behind *)
(* a wire that may lose chunks, stall, or lose power                       *)
(* (core/src/modem/faults.rs).                                             *)
(*                                                                         *)
(* Time: a step of a power sequence is due when it is taken. PB DONE comes *)
(* 12 s after *ATREADY (sim.rs:67), later than a configuration pass of a   *)
(* modem that answers.                                                     *)
(***************************************************************************)
EXTENDS Hal

CONSTANTS
    Requests,           \* the requests made of the handle, each at most once
    Sends,              \* those that are SendMessage
    MaxOns,             \* power-on commands
    MaxWaiting,         \* messages waiting for the driver thread
    MaxTroubles         \* power-off commands and faults, together

ASSUME RequestsAssumption == Sends \subseteq Requests /\ IsFiniteSet(Requests)
ASSUME BoundsAssumption == MaxWaiting \in Nat /\ MaxOns \in Nat /\ MaxTroubles \in Nat

VARIABLES
    toDriver,           \* ToDriver messages
    hal,
    running, queued,    \* PowerSequencer: steps left, sequences waiting
    sim,                \* the modem
    cut,                \* its power is cut, to come back
    (* history *)
    asked,              \* requests, in the order submitted
    answers,            \* Notice::Done
    executed,           \* what the modem made of each request
    missed,             \* an unsolicited line was lost
    wanted,             \* the last power command
    ons, troubles

power == <<running, queued>>
history == <<asked, missed, wanted, ons, troubles>>
vars == <<toDriver, hal, power, sim, cut, answers, executed, history>>

Command(r) == [c |-> IF r \in Sends THEN "Send" ELSE "Plain", id |-> r]

Init ==
    /\ toDriver = <<>> /\ hal = NewHal
    /\ running = <<>> /\ queued = <<>>
    /\ sim = NewSim /\ cut = FALSE
    /\ asked = <<>> /\ answers = <<>> /\ executed = [r \in Requests |-> "No"]
    /\ missed = FALSE /\ wanted = "Off" /\ ons = 0 /\ troubles = 0

-----------------------------------------------------------------------------
(* ModemHandle *)

\* A few messages may wait together for the driver thread.
Send(m) == Len(toDriver) < MaxWaiting /\ toDriver' = Append(toDriver, m)

Submit(r) ==
    /\ \A i \in DOMAIN asked : asked[i] # r
    /\ Send([m |-> "Submit", r |-> r])
    /\ asked' = Append(asked, r)
    /\ UNCHANGED <<hal, power, sim, cut, answers, executed, missed, wanted, ons, troubles>>

\* Power commands: on and off in turn
Wanting(state) == wanted # state /\ wanted' = state /\ Send([m |-> state])

AskOn ==
    /\ Wanting("On")
    /\ ons < MaxOns /\ ons' = ons + 1
    /\ UNCHANGED <<hal, power, sim, cut, answers, executed, asked, missed, troubles>>

AskOff ==
    /\ Wanting("Off")
    /\ troubles < MaxTroubles /\ troubles' = troubles + 1
    /\ UNCHANGED <<hal, power, sim, cut, answers, executed, asked, missed, ons>>

-----------------------------------------------------------------------------
(* Power sequences *)

\* steps: the first at once, each of the others when its time has come
steps(seq) == IF seq = "On" THEN <<"Enable", "Press", "ReleaseOn">> ELSE <<"HalOffPress", "ReleaseOff">>

\* What a step does to the HAL, and to the modem at the end of a pulse
Acted(step, t) ==
    CASE step = "ReleaseOn" -> [t EXCEPT !.hal = HalPowerOn(@), !.sim = IF cut THEN @ ELSE PowerOn(@)]
      [] step = "HalOffPress" -> [t EXCEPT !.hal = HalPowerOff(@)]
      [] step = "ReleaseOff" -> [t EXCEPT !.sim = PowerOff(@)]
      [] OTHER -> t

\* tick: the step that is due, then the next sequence if none is running.
Tick(t, isDue) ==
    Once(IF isDue /\ t.running # <<>>
           THEN [Acted(Head(t.running), t) EXCEPT !.running = Tail(@)] ELSE t,
         LAMBDA ran :
            IF ran.running # <<>> \/ ran.queued = <<>> THEN ran
            ELSE LET first == steps(Head(ran.queued))
                 IN [Acted(first[1], ran) EXCEPT !.running = Tail(first), !.queued = Tail(@)])

State(h, s, q) == [hal |-> h, sim |-> s, running |-> running, queued |-> q, notices |-> <<>>]

(* What the modem made of a request is noted when its final goes out, or is *)
(* wiped out by a power cut.                                                *)
Noted ==
    LET finals == {f.chunk : f \in {f \in ToSet(sim.lanes["reply"]) : f.e = "Emit"}}
        mine(r) == {f \in finals : f.t = "Final" /\ IsUser(f.of) /\ f.of.id = r}
    IN [r \in Requests |->
           IF mine(r) = {} THEN executed[r] ELSE IF \E f \in mine(r) : f.ok THEN "Ok" ELSE "Failed"]

Becomes(now) == \E t \in {now} :
    /\ hal' = t.hal /\ sim' = t.sim /\ running' = t.running /\ queued' = t.queued
    /\ answers' = answers \o SelectSeq(t.notices, LAMBDA o : o.o = "Done")

-----------------------------------------------------------------------------
(* The driver thread *)

\* One message, in order; a power command does at once what is due at once.
Receive ==
    /\ toDriver # <<>> /\ toDriver' = Tail(toDriver)
    /\ LET m == Head(toDriver)
       IN IF m.m = "Submit" THEN Becomes(State(HalSubmit(hal, Command(m.r)), sim, queued))
          ELSE \E isDue \in BOOLEAN : Becomes(Tick(State(hal, sim, Append(queued, m.m)), isDue))
    /\ UNCHANGED <<cut, executed, history>>

\* Once around the loop: due power steps, flush, read, flush, due power steps.
\* A step due may be seen by the first or by the second.
Loop(dueFirst, dueLast, late) ==
    /\ toDriver = <<>>
    /\ \E begun \in {Tick(State(hal, sim, queued), dueFirst)} :
       \E stepped \in {Stepped(begun, late)} : Becomes(Tick(stepped, dueLast))
    /\ UNCHANGED <<toDriver, cut, executed>>

Iterate == Loop(FALSE, FALSE, FALSE) /\ UNCHANGED history
PowerDue ==
    /\ running # <<>>
    /\ Loop(TRUE, FALSE, FALSE) \/ Loop(FALSE, TRUE, FALSE)
    /\ UNCHANGED history

-----------------------------------------------------------------------------
(* The modem and the wire *)

Fault == troubles < MaxTroubles /\ troubles' = troubles + 1 /\ UNCHANGED <<asked, wanted, ons>>

\* PB DONE waits for the pass that *ATREADY began (see above), and a boot
\* for the driver thread's loop, 20 ms against 6 s.
InTime(lane) ==
    lane = "boot" => /\ Len(sim.lanes["boot"]) = 1 => hal.phase \in {"Off", "Ready"}
                     /\ Head(sim.lanes["boot"]).e = "Booted" => hal.out = <<>>

ModemSteps(lane) ==
    /\ sim.lanes[lane] # <<>> /\ InTime(lane)
    /\ sim' = Advance(sim, lane)
    /\ executed' = Noted
    /\ UNCHANGED <<toDriver, hal, power, cut, answers, history>>

\* damage: what was sent is dropped, a loss marker in its place.
Drop ==
    /\ Fault /\ sim.rx # <<>> /\ Head(sim.rx) # Lost
    /\ sim' = [sim EXCEPT !.rx[1] = Lost]
    /\ missed' = (missed \/ Head(sim.rx).t = "Urc")
    /\ UNCHANGED <<toDriver, hal, power, cut, answers, executed>>

\* A stray prompt between two lines
StrayPrompt ==
    /\ Fault /\ sim.power = "On"
    /\ sim' = [sim EXCEPT !.rx = Append(@, PromptFor(Garbage))]
    /\ UNCHANGED <<toDriver, hal, power, cut, answers, executed, missed>>

\* A stall past the deadline
Stall ==
    /\ Fault /\ sim.rx = <<>> /\ ~Silent(sim)
    /\ Loop(FALSE, FALSE, TRUE)
    /\ UNCHANGED missed

PowerCut ==
    /\ Fault /\ sim.power # "Off"
    /\ sim' = CutPower(sim) /\ cut' = TRUE
    /\ missed' = (missed \/ \E i \in DOMAIN sim.rx : sim.rx[i].t = "Urc")
    /\ executed' = Noted
    /\ UNCHANGED <<toDriver, hal, power, answers>>

PowerBack ==
    /\ cut /\ cut' = FALSE
    /\ sim' = PowerOn(sim)
    /\ UNCHANGED <<toDriver, hal, power, answers, executed, history>>

-----------------------------------------------------------------------------
Modem == \E lane \in {"boot", "reply"} : ModemSteps(lane)

Next ==
    \/ \E r \in Requests : Submit(r)
    \/ AskOn \/ AskOff
    \/ Receive \/ Iterate \/ PowerDue
    \/ Modem
    \/ Drop \/ StrayPrompt \/ Stall \/ PowerCut \/ PowerBack

\* The driver thread loops for ever, time passes, the modem goes on.
Fairness ==
    /\ WF_vars(Receive) /\ WF_vars(Iterate) /\ WF_vars(PowerDue) /\ WF_vars(PowerBack)
    /\ \A lane \in {"boot", "reply"} : WF_vars(ModemSteps(lane))

Spec == Init /\ [][Next]_vars /\ Fairness

-----------------------------------------------------------------------------
(* Properties *)

\* Through power sequences, restarts and losses the handle keeps the promise
\* the link makes below it: every request is answered once, in the order of
\* submission, and an answer is true of what the modem did (the contract of
\* ModemPort, modem_service.rs:20-24, and NotSent: "the modem never saw it",
\* hal.rs:61).
Outcomes == [i \in DOMAIN answers |-> IF answers[i].id = asked[i] THEN answers[i].outcome ELSE "Swapped"]
Promise == INSTANCE LinkPromise WITH Commands <- Requests, answers <- Outcomes
KeepsPromise == Promise!Spec

\* A request the HAL still waits for runs on a modem configured since its last
\* boot, and a message only in PDU mode (hal.rs:12-15 and 28-32), unless the
\* line that announces a restart was lost or is still under way. (One that
\* crosses that line is answered Unknown.)
Unheard == missed \/ \E i \in DOMAIN sim.rx : sim.rx[i] = Urc(<<Line("ATREADY")>>)
OnlyConfigured ==
    [][Unheard \/ \A r \in Requests :
          executed[r] = "No" /\ executed'[r] # "No" /\ hal.flight = Command(r) =>
              "cvhu" \in sim.tuned /\ (r \in Sends => "cmgf" \in sim.tuned)]_vars

\* Every request is answered in the end (hal.rs:34-36), unless a late
\* *ATREADY woke the link of a modem that stays switched off (hal.rs:244): it
\* waits for the next power-on, which makes up for it.
AllAnswered == <>[](Len(answers) = Len(asked) \/ (wanted = "Off" /\ hal.phase # "Off"))

\* The modem ends up as it was last asked to be, whatever sequence that
\* command found running (service.rs:54) and whatever failed meanwhile. On, it
\* ends up with every setting applied, however early in its boot the first
\* pass came (hal.rs:22-27), unless a milestone was lost.
Reconfigures ==
    <>[](/\ sim.power = wanted
         /\ wanted = "On" /\ ~missed => hal.phase = "Ready" /\ sim.tuned = Settings)
=============================================================================
