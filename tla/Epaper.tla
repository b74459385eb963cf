------------------------------- MODULE Epaper -------------------------------
(***************************************************************************)
(* The e-paper protocol and its controller.                                *)
(*                                                                         *)
(* The protocol (core/src/spi/epaper.rs): requests in, a list of steps for *)
(* each, one Done per request, in order. Operators on the struct and on    *)
(* the plan a request becomes; SpiTask drives them.                        *)
(*                                                                         *)
(* The controller, a UC8253, as the protocol uses it, from the simulation  *)
(* its tests run against (core/src/spi/epaper/tests/sim.rs): two image     *)
(* buffers written through the partial window or whole, a partial refresh  *)
(* that drives a byte rightly only where the previous buffer holds what is *)
(* on screen, BUSY low during work, a soft reset that switches the drive   *)
(* voltages off. What the simulation panics on is named in Misuse instead. *)
(*                                                                         *)
(* `busy` is "Lag" from a busy command until BUSY falls, then "Low".       *)
(***************************************************************************)
EXTENDS FrameBuffer, Sequences

CONSTANT CHUNK
ASSUME ChunkAssumption == CHUNK \in Nat \ {0}

-----------------------------------------------------------------------------
(* The controller *)

\* The byte at position k of a region, row by row
CellAt(b, k) == LET w == b.x1 - b.x0 IN <<b.x0 + (k % w), b.y0 + (k \div w)>>
Area(b) == (b.x1 - b.x0) * (b.y1 - b.y0)
Bytes(b, image) == [k \in 1 .. Area(b) |-> image[CellAt(b, k - 1)]]

\* What goes over the wire: a command byte, its parameters, image data
Cmd(c) == [t |-> "Cmd", c |-> c]
Params == [t |-> "Params", reset |-> FALSE, window |-> NoBox]
Window(b) == [Params EXCEPT !.window = b]
SoftReset == [Params EXCEPT !.reset = TRUE]
Data(bytes) == [t |-> "Data", bytes |-> bytes]

WithArguments == {"Psr", "Window", "Cascade", "Temperature", "Vcom", "Old", "New"}
PinLow(p) == p.busy = "Low"

NewPanel(image, powered) ==
    [cmd |-> "None", powered |-> powered, partial |-> FALSE, window |-> Screen, pos |-> 0,
     old |-> Blank, new |-> Blank, screen |-> image, busy |-> "No"]

Target(p) == IF p.partial THEN p.window ELSE Screen

\* A byte of ink that is neither what was there nor, surely, what was wanted
Ghost(ink) == 1 - ink

\* refresh: where the previous buffer lies, the screen is invalid.
Refreshed(p) ==
    [p EXCEPT !.busy = "Lag",
              !.screen = [c \in Cells |->
                  IF c \notin Inside(Target(p)) THEN p.screen[c]
                  ELSE IF p.partial /\ p.old[c] # p.screen[c] THEN Ghost(p.new[c])
                  ELSE p.new[c]]]

Commanded(p, c) ==
    LET q == [p EXCEPT !.cmd = IF c \in WithArguments THEN c ELSE "None"] IN
    CASE c \in {"Old", "New"} -> [q EXCEPT !.pos = 0]
      [] c \in {"PowerOn", "PowerOff"} -> [q EXCEPT !.powered = (c = "PowerOn"), !.busy = "Lag"]
      [] c = "Refresh" -> Refreshed(q)
      [] c \in {"PartialIn", "PartialOut"} -> [q EXCEPT !.partial = (c = "PartialIn")]
      [] OTHER -> q

Executed(p, args) ==
    LET q == [p EXCEPT !.cmd = "None"] IN
    CASE p.cmd = "Psr" /\ args.reset -> [q EXCEPT !.powered = FALSE, !.partial = FALSE, !.busy = "Lag"]
      [] p.cmd = "Window" -> [q EXCEPT !.window = args.window]
      [] OTHER -> q

Stored(p, bytes) ==
    LET there == [k \in 1 .. Len(bytes) |-> CellAt(Target(p), p.pos + k - 1)]
        Over(image) == [c \in Cells |->
            IF \E k \in DOMAIN there : there[k] = c
              THEN bytes[CHOOSE k \in DOMAIN there : there[k] = c] ELSE image[c]]
    IN [p EXCEPT !.pos = @ + Len(bytes),
                 !.old = IF p.cmd = "Old" THEN Over(@) ELSE @,
                 !.new = IF p.cmd = "New" THEN Over(@) ELSE @]

Took(p, tx) ==
    CASE tx.t = "Cmd" -> Commanded(p, tx.c)
      [] tx.t = "Params" -> Executed(p, tx)
      [] tx.t = "Data" -> Stored(p, tx.bytes)

\* What a wire failure may leave of it: an unknown prefix arrived.
TookPrefix(p, tx) ==
    IF tx.t = "Data" THEN {Stored(p, SubSeq(tx.bytes, 1, n)) : n \in 0 .. Len(tx.bytes)}
    ELSE {p, Took(p, tx)}

Misuse(p, tx) ==
    (IF p.busy # "No" THEN {"byte while busy"} ELSE {})
    \cup (IF tx.t # "Cmd" /\ p.cmd = "None" THEN {"no command"} ELSE {})
    \cup (IF tx = Cmd("Refresh") /\ ~p.powered THEN {"refresh with the voltages off"} ELSE {})
    \cup (IF tx.t = "Data" /\ p.pos + Len(tx.bytes) > Area(Target(p)) THEN {"beyond the window"} ELSE {})

-----------------------------------------------------------------------------
(* Requests and steps *)

OffRequest == [op |-> "PowerOff"]
DrawRequest(flush) == [op |-> "Draw", flush |-> flush]

\* The regions that may be drawn (is_valid), and what may be asked for: NoBox
\* stands for every region that may not.
Region == {b \in Box : b.x0 < b.x1 /\ b.y0 < b.y1}
Requestable ==
    {OffRequest} \cup {DrawRequest(Full(image)) : image \in Image}
    \cup {DrawRequest(Partial(b, image)) : b \in Region \cup {NoBox}, image \in Image}

Busy == [t |-> "Busy"]
Set(flag, on) == [t |-> "Set", flag |-> flag, on |-> on]
IsTx(step) == step.t \in {"Cmd", "Params", "Data"}

NoJob == [steps |-> <<>>, wait |-> "None", request |-> [op |-> "None"]]
NewEpaper == [queue |-> <<>>, job |-> NoJob, init |-> FALSE, power |-> FALSE, known |-> FALSE]

HasJob(ep) == ep.job.request.op # "None"
Step(ep) == Head(ep.job.steps)

-----------------------------------------------------------------------------
(* struct Plan: the steps so far, and the controller state they lead to *)

Then(p, steps) == [p EXCEPT !.steps = @ \o steps]
WithParams(c, params) == <<Cmd(c), params>>

EnsureInit(p) ==
    IF p.init THEN p
    ELSE [steps |-> p.steps \o WithParams("Psr", SoftReset) \o <<Busy>> \o WithParams("Psr", Params)
                    \o <<Set("init", TRUE), Set("power", FALSE)>>,
          init |-> TRUE, power |-> FALSE]

EnsurePower(p) ==
    IF p.power THEN p
    ELSE [p EXCEPT !.steps = @ \o <<Cmd("PowerOn"), Busy, Set("power", TRUE)>>, !.power = TRUE]

Refresh(p) == [p EXCEPT !.steps = @ \o <<Cmd("Refresh"), Busy, Set("init", FALSE)>>, !.init = FALSE]

Chunks(bytes) ==
    [k \in 1 .. (Len(bytes) + CHUNK - 1) \div CHUNK |->
        Data(SubSeq(bytes, (k - 1) * CHUNK + 1, Lesser(k * CHUNK, Len(bytes))))]

WriteWindow(p, register, flush) ==
    Then(EnsureInit(p),
         <<Cmd("PartialIn")>> \o WithParams("Window", Window(flush.box))
         \o <<Cmd(register)>> \o Chunks(Bytes(flush.box, flush.data)) \o <<Cmd("PartialOut")>>)

Settings == WithParams("Cascade", Params) \o WithParams("Temperature", Params) \o WithParams("Vcom", Params)

\* Mutant of PlanPartial: the previous buffer is not rewritten after the refresh.
PlanPartialForgetful(p, flush) ==
    Then(Refresh(EnsurePower(Then(EnsureInit(WriteWindow(p, "New", flush)),
        <<Cmd("PartialIn")>> \o WithParams("Window", Window(flush.box)) \o Settings))), <<Cmd("PartialOut")>>)

PlanPartial(p, flush) ==
    LET written == EnsureInit(WriteWindow(p, "New", flush))
        ready == EnsurePower(Then(written,
                    <<Cmd("PartialIn")>> \o WithParams("Window", Window(flush.box)) \o Settings))
    IN WriteWindow(Then(Refresh(ready), <<Cmd("PartialOut")>>), "Old", flush)

PlanFull(p, flush) ==
    LET bytes == Chunks(Bytes(Screen, flush.data))
        written == Then(EnsureInit(p), <<Cmd("Old")>> \o bytes \o <<Cmd("New")>> \o bytes \o Settings)
    IN Then(Refresh(EnsurePower(written)), <<Set("known", TRUE)>>)

PlanOff(p) == IF p.power THEN Then(p, <<Cmd("PowerOff"), Busy, Set("power", FALSE)>>) ELSE p

\* plan: refused requests have no plan
Refuses(ep, request) ==
    /\ request.op = "Draw"
    /\ request.flush.box = NoBox \/ (request.flush.kind = "Partial" /\ ~ep.known)

\* Mutant of Plan: a job starts without waiting for BUSY.
PlanAtOnce(ep, request) ==
    LET p == [steps |-> <<>>, init |-> ep.init, power |-> ep.power] IN
    CASE request.op = "PowerOff" -> PlanOff(p).steps
      [] request.op = "Draw" /\ request.flush.kind = "Full" -> PlanFull(p, request.flush).steps
      [] OTHER -> PlanPartial(p, request.flush).steps

Plan(ep, request) ==
    LET p == [steps |-> <<Busy>>, init |-> ep.init, power |-> ep.power] IN
    CASE request.op = "PowerOff" -> PlanOff(p).steps
      [] request.op = "Draw" /\ request.flush.kind = "Full" -> PlanFull(p, request.flush).steps
      [] OTHER -> PlanPartial(p, request.flush).steps

-----------------------------------------------------------------------------
(* struct Epaper *)

Submitted(ep, request) == [ep EXCEPT !.queue = Append(@, request)]
Dequeued(ep) == [ep EXCEPT !.queue = Tail(@)]

\* start_job, for a request that is not refused
Started(ep) ==
    [Dequeued(ep) EXCEPT !.job = [steps |-> Plan(ep, Head(ep.queue)), wait |-> "None",
                                  request |-> Head(ep.queue)]]

Advanced(ep) == [ep EXCEPT !.job.steps = Tail(@), !.job.wait = "None"]
Flagged(ep) == [Advanced(ep) EXCEPT ![Step(ep).flag] = Step(ep).on]
Waiting(ep, wait) == [ep EXCEPT !.job.wait = wait]

Failed(ep) == [ep EXCEPT !.job = NoJob, !.init = FALSE, !.power = FALSE, !.known = FALSE]
Finished(ep) == [ep EXCEPT !.job = NoJob]
=============================================================================
