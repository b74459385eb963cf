-------------------------------- MODULE Hal --------------------------------
(***************************************************************************)
(* The modem HAL (core/src/modem/hal.rs) as operators on the struct Hal,   *)
(* with the link engine below it cut down to what its outputs say: AtLink  *)
(* has the engine in full. The engine's command in flight is always the    *)
(* HAL's (pump submits only when there is none), so `flight` is both.      *)
(*                                                                         *)
(* Left out: replies of an unexpected shape, and of config_steps the       *)
(* settings that behave like AT+CVHU (echo, URC delay, error codes) or     *)
(* take no part in any decision (gain, message indication). Of the others  *)
(* an instance has those in Followed.                                      *)
(***************************************************************************)
EXTENDS ModemSim, SequencesExt

CONSTANT PROBE_NONCES
ASSUME NoncesAssumption == PROBE_NONCES \in Nat \ {0}

StepsOf(s) == IF s \in Followed THEN <<Set(s), Query(s)>> ELSE <<>>
config_steps == StepsOf("cvhu") \o StepsOf("clip") \o StepsOf("cmgf")

Idle == [c |-> "Idle"]

NewHal ==
    [phase |-> "Off", step |-> 0, issues |-> FALSE, retry |-> FALSE, rerun |-> FALSE, pdu |-> FALSE,
     queue |-> <<>>, flight |-> Idle, out |-> <<>>,
     engine |-> "Off", nonce |-> 0, payloadSent |-> FALSE, absorbed |-> None, said |-> <<>>]

(* Outputs, of the engine (said) and of the HAL (out) *)
Put(w) == [o |-> "Write", w |-> w]
Done(id, outcome, info) == [o |-> "Done", id |-> id, outcome |-> outcome, info |-> info]
Event(e) == [o |-> "Event", e |-> e]
Replied(outcome, info) == [o |-> "Reply", outcome |-> outcome, info |-> info]
Heard(line) == [o |-> "Urc", line |-> line]
Synced == [o |-> "Synced"]
Unsynced(reason) == [o |-> "Unsynced", reason |-> reason]
BytesLost == [o |-> "BytesLost"]
UnexpectedPrompt == [o |-> "UnexpectedPrompt"]

Out(h, output) == [h EXCEPT !.out = Append(@, output)]
Says(h, outputs) == [h EXCEPT !.said = @ \o outputs]

IsUser(cmd) == "id" \in DOMAIN cmd
HasPayload(cmd) == cmd.c = "Send"

-----------------------------------------------------------------------------
(* The engine *)

StartProbe(h) ==
    LET n == (h.nonce % PROBE_NONCES) + 1
    IN Says([h EXCEPT !.engine = "Syncing", !.nonce = n], <<Put(Probe(n))>>)

\* unsync: nothing to an engine that is off, unless it is switched on.
Unsync(h, reason) ==
    LET cancel == IF HasPayload(h.flight) /\ ~h.payloadSent THEN <<Put(Esc)>> ELSE <<>>
        settle == IF h.flight = Idle THEN <<>> ELSE cancel \o <<Replied("Unknown", None)>>
    IN IF h.engine = "Off" /\ reason # "Reset" THEN h
       ELSE StartProbe(Says(h, settle \o <<Unsynced(reason)>>))

\* Mutant: what is in flight counts as never sent.
EngineOffNotSent(h) ==
    [Says(h, IF h.flight # Idle THEN <<Replied("NotSent", None)>> ELSE <<>>) EXCEPT !.engine = "Off"]

EngineOff(h) ==
    [Says(h, IF h.engine = "Ready" /\ h.flight # Idle THEN <<Replied("Unknown", None)>> ELSE <<>>)
        EXCEPT !.engine = "Off"]

Submit1(h, cmd) ==
    Says([h EXCEPT !.flight = cmd, !.payloadSent = FALSE, !.absorbed = None],
         IF h.engine = "Off" THEN <<Replied("NotSent", None)>> ELSE <<Put(cmd)>>)

\* A call that shows up during ListCalls looks like its reply (request.rs:218).
Absorbs(h, line) == h.engine = "Ready" /\ h.flight.c = "ListCalls" /\ line.k = "CLCC"

OnLine(h, line) ==
    IF Absorbs(h, line) THEN [h EXCEPT !.absorbed = line.call] ELSE Says(h, <<Heard(line)>>)

OnLines(h, lines) ==
    LET taken[n \in 0 .. Len(lines)] == IF n = 0 THEN h ELSE OnLine(taken[n - 1], lines[n])
    IN taken[Len(lines)]

OnFinal(h, ok, info) ==
    CASE h.engine = "Ready" /\ h.flight # Idle ->
           Says(h, <<Replied(IF ok THEN "Ok" ELSE "Failed",
                             IF h.flight.c = "ListCalls" /\ info = None THEN h.absorbed ELSE info)>>)
      [] h.engine = "Ready" /\ h.flight = Idle -> Unsync(h, "StrayFinal")
      [] OTHER -> h

OnReadBack(h, n) ==
    CASE h.engine = "Syncing" /\ n = h.nonce -> Says([h EXCEPT !.engine = "Ready"], <<Synced>>)
      [] h.engine = "Ready" -> OnFinal(h, TRUE, None)
      [] OTHER -> h

OnPrompt(h) ==
    IF h.engine = "Ready" /\ HasPayload(h.flight) /\ ~h.payloadSent
      THEN Says([h EXCEPT !.payloadSent = TRUE], <<Put(PayloadOf(h.flight))>>)
      ELSE Says(h, <<Put(Esc), UnexpectedPrompt>>)

OnLost(h) ==
    LET told == Says(h, <<BytesLost>>)
    IN CASE h.engine = "Ready" /\ h.flight # Idle -> Unsync(told, "BytesLost")
         [] h.engine = "Syncing" -> StartProbe(told)
         [] OTHER -> told

\* on_tick at the deadline
TimedOut(h) ==
    CASE h.engine = "Ready" /\ h.flight # Idle -> Unsync(h, "Timeout")
      [] h.engine = "Syncing" -> StartProbe(h)
      [] OTHER -> h

-----------------------------------------------------------------------------
(* The HAL's internals *)

\* Mutant: the end of the SMS initialisation is no milestone.
MilestonesSim == {"SIM READY"}

Milestones == {"SIM READY", "SMS DONE", "PB DONE"}

Restart(h) == [h EXCEPT !.phase = "Configuring", !.step = 1, !.issues = FALSE]

OnMilestone(h) ==
    CASE h.retry /\ h.phase = "Ready" -> Restart(h)
      [] h.retry /\ h.phase = "Configuring" -> [h EXCEPT !.rerun = TRUE]
      [] OTHER -> h

OnUrc(h, line) ==
    CASE line.k = "ATREADY" -> Unsync([Out(h, Event(Line("Restarted"))) EXCEPT !.phase = "Syncing"], "Reset")
      [] line.k \in Milestones -> OnMilestone(Out(h, Event(line)))
      [] OTHER -> Out(h, Event(line))

\* A configuration step: an error or a wrong read-back is an issue; anything
\* else than an answer leaves the pass to the resync.
ConfigReply(h, r) ==
    LET cmd == h.flight
        good == r.outcome = "Ok" /\ (cmd.c = "Query" => r.info)
    IN IF h.phase # "Configuring" \/ r.outcome \in {"Unknown", "NotSent"} THEN [h EXCEPT !.flight = Idle]
       ELSE [h EXCEPT !.flight = Idle, !.step = @ + 1, !.issues = @ \/ ~good,
                      !.pdu = @ \/ (good /\ cmd = Query("cmgf"))]

OnReply(h, r) ==
    IF IsUser(h.flight) THEN Out([h EXCEPT !.flight = Idle], Done(h.flight.id, r.outcome, r.info))
    ELSE ConfigReply(h, r)

OnEngine(h, o) ==
    CASE o.o = "Write" -> Out(h, o)
      [] o.o = "Reply" -> OnReply(h, o)
      [] o.o = "Urc" -> OnUrc(h, o.line)
      [] o.o = "Synced" -> IF h.phase = "Off" THEN h ELSE Restart(h)
      [] o.o = "Unsynced" ->
           CASE h.phase = "Off" \/ (h.phase = "Syncing" /\ o.reason = "Reset") -> h
             [] OTHER -> Out([h EXCEPT !.phase = "Syncing"], Event(Line("LinkLost")))
      [] OTHER -> Out(h, Event(Line(o.o)))

\* The end of a pass: once more if a milestone came in between and something
\* went wrong, else requests flow.
EndPass(h) ==
    LET ended == [h EXCEPT !.retry = h.issues, !.rerun = FALSE]
    IN IF h.rerun /\ h.issues THEN Restart(ended) ELSE Out([ended EXCEPT !.phase = "Ready"], Event(Line("Configured")))

\* Mutant of Serve: a message is sent in whatever mode the modem is.
ServeAnyMode(h) == Submit1([h EXCEPT !.queue = Tail(@)], Head(h.queue))

\* A message goes only to a modem that read PDU mode back.
Serve(h) ==
    LET cmd == Head(h.queue)
        rest == [h EXCEPT !.queue = Tail(@)]
    IN IF HasPayload(cmd) /\ ~h.pdu THEN Out(rest, Done(cmd.id, "NotSent", None)) ELSE Submit1(rest, cmd)

Configure(h) ==
    IF h.step > Len(config_steps) THEN EndPass(h)
    ELSE Submit1([h EXCEPT !.pdu = h.step # 1 /\ h.pdu], config_steps[h.step])

CanPump(h) == h.flight = Idle /\ (h.phase = "Configuring" \/ (h.phase = "Ready" /\ h.queue # <<>>))
Pump(h) == IF h.phase = "Configuring" THEN Configure(h) ELSE Serve(h)

\* F(v), with v evaluated once (TLC evaluates an argument wherever it is used)
Once(v, F(_)) == CHOOSE r \in {F(x) : x \in {v}} : TRUE

\* A turn of run: what the engine said, then what can be submitted to it.
Turn(h) ==
    IF h.said # <<>> THEN OnEngine([h EXCEPT !.said = Tail(@)], Head(h.said))
    ELSE IF CanPump(h) THEN Pump(h) ELSE h

\* Turns until there is nothing left to do: one for each output of the engine,
\* of which an *ATREADY makes at most four more, one for each request refused,
\* and those that end a pass and submit the next command.
Turns(h) == 5 * Len(h.said) + Len(h.queue) + 6
Run(h) ==
    LET turned[n \in 0 .. Turns(h)] == IF n = 0 THEN h ELSE Once(turned[n - 1], Turn)
    IN turned[Turns(h)]

-----------------------------------------------------------------------------
(* Calls into the HAL *)

HalPowerOn(h) == Once(Unsync([h EXCEPT !.phase = "Syncing"], "Reset"), Run)

\* Mutant: what is queued is not answered.
HalPowerOffDrops(h) == [Run([EngineOff(h) EXCEPT !.phase = "Off"]) EXCEPT !.queue = <<>>]

HalPowerOff(h) ==
    Once(Once([EngineOff(h) EXCEPT !.phase = "Off"], Run),
         LAMBDA off : [off EXCEPT !.queue = <<>>,
             !.out = @ \o [i \in DOMAIN off.queue |-> Done(off.queue[i].id, "NotSent", None)]])

HalSubmit(h, cmd) ==
    IF h.phase = "Off" THEN Out(h, Done(cmd.id, "NotSent", None)) ELSE Once([h EXCEPT !.queue = Append(@, cmd)], Run)

\* on_rx: one chunk, with all its lines, then the HAL runs.
OnRx(h, chunk) ==
    Once(CASE chunk.t = "Urc" -> OnLines(h, chunk.lines)
           [] chunk.t = "Final" -> OnFinal(h, chunk.ok, chunk.info)
           [] chunk.t = "ReadBack" -> OnReadBack(h, chunk.n)
           [] chunk.t = "Prompt" -> OnPrompt(h)
           [] OTHER -> OnLost(h),
         Run)

OnDeadline(h) == Once(TimedOut(h), Run)

-----------------------------------------------------------------------------
(* The driver step (driver.rs), which joins the HAL to the modem: operators *)
(* on a struct with the fields hal, sim and notices (what goes up).         *)
(*                                                                          *)
(* Time: a deadline of the link passes when nothing can come any more;      *)
(* earlier only if the modem stalls, a fault.                               *)

\* flush: writes go to the modem, answers and events up.
Passed(t, o) ==
    IF o.o = "Write" THEN [t EXCEPT !.sim = Write(@, o.w)] ELSE [t EXCEPT !.notices = Append(@, o)]
Flushed(t) ==
    LET passed[n \in 0 .. Len(t.hal.out)] ==
            IF n = 0 THEN [t EXCEPT !.hal.out = <<>>]
            ELSE Once(passed[n - 1], LAMBDA s : Passed(s, t.hal.out[n]))
    IN passed[Len(t.hal.out)]

\* Nothing can come from the modem unless we write. (What it is asked while
\* it boots it does not hear.)
Silent(s) == s.rx = <<>> /\ s.lanes["reply"] = <<>> /\ s.power # "Booting"

\* The read, which `late` makes pass the deadline all the same
Fed(t, late) ==
    CASE t.sim.rx # <<>> -> [t EXCEPT !.hal = OnRx(@, Head(t.sim.rx)), !.sim.rx = Tail(@)]
      [] t.sim.rx = <<>> /\ (late \/ Silent(t.sim)) -> [t EXCEPT !.hal = OnDeadline(@)]
      [] OTHER -> t

\* step: flush, read, flush
Stepped(t, late) == Once(Once(Flushed(t), LAMBDA flushed : Fed(flushed, late)), Flushed)
=============================================================================
