------------------------ MODULE DisplayServiceProofs ------------------------
(***************************************************************************)
(* Proofs about DisplayService, for every screen size, any images, and any *)
(* number of keys, failed draws and failed power-offs.                     *)
(***************************************************************************)
EXTENDS DisplayService, FrameBufferLemmas, FiniteSetTheorems

\* The outcomes of the responses waiting in the inbox, and that there is at
\* most one of them
Oks == {inbox[i].ok : i \in Responses}
Once == \A i, j \in Responses : i = j

\* What the kernel waits for is being worked on or answered, never both, and
\* the flush in flight is the one worked on.
Agree(f, flying, work, oks) ==
    /\ work # NoJob => oks = {} /\ work.op = flying
    /\ flying # "None" <=> (work # NoJob \/ oks # {})
    /\ Flushing(f) <=> flying = "Draw"
    /\ work.op = "Draw" => work.flush = f.flight

\* What counts as shown is shown until the draw in flight is carried out; once
\* that is reported a success, what will count as shown is shown.
Shows(f, flying, work, oks, image) ==
    /\ f.known /\ (flying # "Draw" \/ work # NoJob) => f.committed = image
    /\ flying = "Draw" /\ TRUE \in oks =>
          /\ f.flight.kind = "Full" => image = f.flight.data
          /\ f.flight.kind = "Partial" /\ f.known => image = Overlay(f.committed, f.flight)

\* What is drawn is the lockscreen or the terminal.
Wanted == fb.desired = IF locked THEN LockImage ELSE term

\* What the main loop found when it went to sleep, or began to switch off.
Left ==
    /\ pc = "Asleep" => locked /\ Idle
    /\ pc \in {"Finish", "Drain", "Down"} => ~locked /\ term = ByeImage
    /\ pc = "Down" => waitedOut \/ Idle

Kept ==
    /\ Sound(fb) /\ Once
    /\ Agree(fb, inFlight, job, Oks)
    /\ Shows(fb, inFlight, job, Oks, panel)

IInv == TypeOK /\ Kept /\ Wanted /\ Left

-----------------------------------------------------------------------------
(* The inbox *)

Events == {KeyEvent(k) : k \in Keys} \cup {Response(ok) : ok \in BOOLEAN}

\* An event is a key or a response.
LEMMA EventKinds ==
    ASSUME NEW e \in Events
    PROVE  \/ e.t = "Key"
           \/ e.t = "Spi" /\ e.ok \in BOOLEAN /\ e = Response(e.ok)
BY DEF Events, KeyEvent, Response

LEMMA KeyAppended ==
    ASSUME inbox \in Seq(Events), Once, NEW k \in Keys, inbox' = Append(inbox, KeyEvent(k))
    PROVE  inbox' \in Seq(Events) /\ Once' /\ Oks' = Oks
<1>1. KeyEvent(k) \in Events /\ KeyEvent(k).t = "Key"
      BY DEF Events, KeyEvent
<1>2. inbox' \in Seq(Events)
      BY <1>1
<1>3. /\ DOMAIN inbox' = 1 .. Len(inbox) + 1 /\ DOMAIN inbox = 1 .. Len(inbox)
      /\ Len(inbox) \in Nat
      /\ inbox'[Len(inbox) + 1].t = "Key"
      /\ \A i \in DOMAIN inbox : inbox'[i] = inbox[i]
      BY <1>1
<1>4. Responses' = Responses
      BY <1>3 DEF Responses
<1>5. \A i \in Responses : inbox'[i] = inbox[i]
      BY <1>3 DEF Responses
<1> QED BY <1>2, <1>4, <1>5 DEF Once, Oks

LEMMA ResponseAppended ==
    ASSUME inbox \in Seq(Events), Oks = {}, NEW ok \in BOOLEAN,
           inbox' = Append(inbox, Response(ok))
    PROVE  inbox' \in Seq(Events) /\ Once' /\ Oks' = {ok}
<1>1. Response(ok) \in Events /\ Response(ok).t = "Spi" /\ Response(ok).ok = ok
      BY DEF Events, Response
<1>2. inbox' \in Seq(Events)
      BY <1>1
<1>3. /\ DOMAIN inbox' = 1 .. Len(inbox) + 1 /\ DOMAIN inbox = 1 .. Len(inbox)
      /\ Len(inbox) \in Nat
      /\ inbox'[Len(inbox) + 1] = Response(ok)
      /\ \A i \in DOMAIN inbox : inbox'[i] = inbox[i]
      BY <1>1
<1>4. Responses = {}
      BY DEF Oks
<1>5. Responses' = {Len(inbox) + 1}
      BY <1>1, <1>3, <1>4 DEF Responses
<1> QED BY <1>1, <1>2, <1>3, <1>5 DEF Once, Oks

\* Taking the first event
LEMMA Taken ==
    ASSUME inbox \in Seq(Events), Once, inbox # <<>>, inbox' = Tail(inbox)
    PROVE  /\ inbox' \in Seq(Events) /\ Head(inbox) \in Events /\ Once'
           /\ Head(inbox).t = "Key" => Oks' = Oks
           /\ Head(inbox).t = "Spi" => Oks = {Head(inbox).ok} /\ Oks' = {}
<1>1. /\ inbox' \in Seq(Events) /\ Head(inbox) \in Events /\ Head(inbox) = inbox[1]
      /\ Len(inbox) \in Nat /\ Len(inbox) >= 1
      /\ DOMAIN inbox = 1 .. Len(inbox) /\ DOMAIN inbox' = 1 .. Len(inbox) - 1
      /\ \A i \in 1 .. Len(inbox) - 1 : inbox'[i] = inbox[i + 1]
      OBVIOUS
<1>2. \A i \in Responses' : i + 1 \in Responses /\ inbox'[i] = inbox[i + 1] /\ i \in Nat \ {0}
      BY <1>1 DEF Responses
<1>3. Once'
      BY <1>2 DEF Once
<1>4. ASSUME Head(inbox).t = "Key" PROVE Oks' = Oks
      <2>1. \A i \in Responses : i - 1 \in Responses' /\ inbox'[i - 1] = inbox[i]
            BY <1>1, <1>4 DEF Responses
      <2>2. Oks \subseteq Oks'
            BY <2>1, Zenon DEF Oks
      <2>3. Oks' \subseteq Oks
            BY <1>2, Zenon DEF Oks
      <2> QED BY <2>2, <2>3
<1>5. ASSUME Head(inbox).t = "Spi" PROVE Oks = {Head(inbox).ok} /\ Oks' = {}
      <2>1. 1 \in Responses
            BY <1>1, <1>5 DEF Responses
      <2>2. Responses = {1}
            BY <2>1 DEF Once
      <2>3. \A i \in Responses' : i + 1 = 1 /\ i \in Nat \ {0}
            BY <1>2, <2>2
      <2>4. Responses' = {}
            BY <2>3
      <2> QED BY <1>1, <2>2, <2>4 DEF Oks
<1> QED BY <1>1, <1>3, <1>4, <1>5

-----------------------------------------------------------------------------
(* The pump *)

\* The pump keeps what a handler leaves it: f, and what is still in flight.
LEMMA PumpKeeps ==
    ASSUME NEW f, Sound(f), NEW on \in BOOLEAN, NEW now \in BOOLEAN, NEW due \in BOOLEAN,
           NEW busy \in BOOLEAN, NEW flying \in {"None", "Draw", "PowerOff"},
           job \in Jobs, flying = IF busy THEN inFlight ELSE "None", busy <=> flying # "None",
           NEW oks, NEW image,
           Agree(f, flying, job, oks), Shows(f, flying, job, oks, image),
           Pump(f, on, now, due, busy)
    PROVE  /\ Sound(fb') /\ fb'.desired = f.desired
           /\ inFlight' \in {"None", "Draw", "PowerOff"} /\ job' \in Jobs
           /\ panelOn' \in BOOLEAN /\ powerOffNow' \in BOOLEAN
           /\ Agree(fb', inFlight', job', oks)
           /\ Shows(fb', inFlight', job', oks, image)
<1>1. panelOn' = on /\ powerOffNow' = now
      BY DEF Pump
<1>2. CASE busy
      <2>1. fb' = f /\ inFlight' = flying /\ job' = job
            BY <1>2 DEF Pump
      <2> QED BY <1>1, <2>1
<1>3. CASE ~busy
      <2> DEFINE flush == FlushOf(f)
      <2>1. flying = "None" /\ job = NoJob /\ oks = {} /\ ~Flushing(f)
            BY <1>3 DEF Agree
      <2>2. /\ Sound(fb') /\ fb'.committed = f.committed /\ fb'.known = f.known
            /\ fb'.desired = f.desired /\ fb'.flight = flush
            BY <1>3, <2>1, BegunSound DEF Pump
      <2>3. f.known => f.committed = image
            BY <2>1 DEF Shows
      <2>4. CASE flush # NoFlush
            <3>1. inFlight' = "Draw" /\ job' = DrawJob(flush)
                  BY <1>3, <2>4 DEF Pump
            <3>2. /\ job' \in Jobs /\ job' # NoJob /\ job'.op = "Draw" /\ job'.flush = flush
                  <4>1. flush \in Flush
                        BY <2>2, Fields DEF Sound
                  <4>2. job'.op = "Draw" /\ job'.flush = flush /\ NoJob.op = "None"
                        BY <3>1 DEF DrawJob, NoJob
                  <4> QED BY <3>1, <4>1, <4>2 DEF Jobs, DrawJob
            <3>3. Flushing(fb')
                  BY <2>2, <2>4 DEF Flushing
            <3>4. Agree(fb', inFlight', job', oks)
                  BY <2>1, <2>2, <3>1, <3>2, <3>3 DEF Agree
            <3>5. Shows(fb', inFlight', job', oks, image)
                  BY <2>1, <2>2, <2>3 DEF Shows
            <3> QED BY <1>1, <2>2, <3>1, <3>2, <3>4, <3>5
      <2>5. CASE flush = NoFlush
            <3>1. \/ inFlight' = "PowerOff" /\ job' = OffJob
                  \/ inFlight' = "None" /\ job' = NoJob
                  BY <1>3, <2>1, <2>5 DEF Pump
            <3>2. OffJob \in Jobs /\ NoJob \in Jobs
                  BY DEF Jobs
            <3>3. OffJob.op = "PowerOff" /\ NoJob.op = "None"
                  BY DEF OffJob, NoJob
            <3>4. ~Flushing(fb')
                  BY <2>2, <2>5 DEF Flushing
            <3>5. Agree(fb', inFlight', job', oks)
                  BY <2>1, <3>1, <3>3, <3>4 DEF Agree
            <3>6. Shows(fb', inFlight', job', oks, image)
                  BY <2>1, <2>2, <2>3, <3>1 DEF Shows
            <3> QED BY <1>1, <2>2, <3>1, <3>2, <3>5, <3>6
      <2> QED BY <2>4, <2>5
<1> QED BY <1>2, <1>3

\* After an event that leaves what is in flight, as all but responses do, and
\* draws or invalidates at most
LEMMA PumpAfterEvent ==
    ASSUME IInv, NEW f, Sound(f), f.flight = fb.flight, f.committed = fb.committed,
           f.known => fb.known, NEW on \in BOOLEAN, NEW now \in BOOLEAN, NEW due \in BOOLEAN,
           Pump(f, on, now, due, Busy), Once', Oks' = Oks, panel' = panel
    PROVE  /\ Kept' /\ fb'.desired = f.desired
           /\ inFlight' \in {"None", "Draw", "PowerOff"} /\ job' \in Jobs
           /\ panelOn' \in BOOLEAN /\ powerOffNow' \in BOOLEAN
<1>1. /\ job \in Jobs /\ inFlight \in {"None", "Draw", "PowerOff"} /\ Busy \in BOOLEAN
      /\ inFlight = (IF Busy THEN inFlight ELSE "None") /\ (Busy <=> inFlight # "None")
      BY DEF IInv, TypeOK, Busy
<1>2. Agree(f, inFlight, job, Oks) /\ Shows(f, inFlight, job, Oks, panel)
      BY DEF IInv, Kept, Agree, Shows, Flushing
<1>3. /\ Sound(fb') /\ fb'.desired = f.desired
      /\ inFlight' \in {"None", "Draw", "PowerOff"} /\ job' \in Jobs
      /\ panelOn' \in BOOLEAN /\ powerOffNow' \in BOOLEAN
      /\ Agree(fb', inFlight', job', Oks) /\ Shows(fb', inFlight', job', Oks, panel)
      BY <1>1, <1>2, PumpKeeps
<1> QED BY <1>3 DEF Kept

-----------------------------------------------------------------------------
(* Every step keeps the invariant. Each lemma below says so of one handler. *)

LEMMA InitInvariant == Init => IInv
<1> SUFFICES ASSUME Init PROVE IInv
    OBVIOUS
<1>1. /\ BootImage \in Image /\ LockImage \in Image /\ ByeImage \in Image
      /\ BootImage \in TermImages
      BY ImagesAssumption
<1>2. /\ Sound(fb) /\ fb.known = FALSE /\ fb.flight = NoFlush
      /\ fb.desired = [c \in Cells |-> IF c \in Inside(Screen) THEN BootImage[c] ELSE NewBuffer.desired[c]]
      BY <1>1, NewSound, DrawnSound, ScreenHoldsAll DEF Init
<1>3. fb.desired = BootImage
      BY <1>1, <1>2, ScreenHoldsAll DEF Image
<1>4. Responses = {}
      BY DEF Init, Responses
<1>5. Kept
      <2>1. Oks = {} /\ Once
            BY <1>4 DEF Oks, Once
      <2>2. Agree(fb, inFlight, job, Oks)
            BY <1>2, <2>1 DEF Init, Agree, Flushing, NoJob
      <2>3. Shows(fb, inFlight, job, Oks, panel)
            BY <1>2, <2>1 DEF Init, Shows
      <2> QED BY <1>2, <2>1, <2>2, <2>3 DEF Kept
<1>6. TypeOK
      <2>1. inbox \in Seq(Events) /\ chip \in Seq(Strokes) /\ held \in Strokes
            BY DEF Init, Strokes
      <2> QED BY <1>1, <1>2, <2>1 DEF Init, TypeOK, Events, Jobs, Sound
<1>7. Wanted /\ Left
      BY <1>3 DEF Init, Wanted, Left
<1> QED BY <1>5, <1>6, <1>7 DEF IInv

\* The types of what a handler leaves
LEMMA HandlerTypes ==
    ASSUME IInv, Kept', inFlight' \in {"None", "Draw", "PowerOff"}, job' \in Jobs,
           panelOn' \in BOOLEAN, powerOffNow' \in BOOLEAN,
           inbox' \in Seq(Events), elapsed' \in BOOLEAN, locked' \in BOOLEAN,
           term' \in TermImages \cup {ByeImage},
           pc' \in {"Boot", "Wait", "Check", "Asleep", "Roused", "Finish", "Drain", "Down"},
           UNCHANGED <<waitedOut, outside>>
    PROVE  TypeOK'
<1>1. UNCHANGED <<chip, held, epKnown, epPower, volts, panel, offFailed>>
      BY DEF outside, keyboard, epVars
<1> QED BY <1>1 DEF IInv, Kept, Sound, TypeOK, Events

\* Nothing but a pump: the first pass, and a deadline
LEMMA PumpOnlyKeeps ==
    ASSUME IInv, PumpOnly, pc' \in {"Check", "Finish"}, pc' = "Finish" => pc = "Drain",
           UNCHANGED <<locked, term, inbox, elapsed, waitedOut, outside>>
    PROVE  IInv'
<1>1. /\ Sound(fb) /\ panelOn \in BOOLEAN /\ powerOffNow \in BOOLEAN /\ elapsed \in BOOLEAN
      /\ inbox \in Seq(Events) /\ Once
      BY DEF IInv, TypeOK, Kept, Events
<1>2. Once' /\ Oks' = Oks /\ panel' = panel
      BY <1>1 DEF Once, Oks, Responses, outside, epVars
<1>3. /\ Kept' /\ fb'.desired = fb.desired
      /\ inFlight' \in {"None", "Draw", "PowerOff"} /\ job' \in Jobs
      /\ panelOn' \in BOOLEAN /\ powerOffNow' \in BOOLEAN
      BY <1>1, <1>2, PumpAfterEvent DEF PumpOnly
<1>4. TypeOK'
      <2>1. locked \in BOOLEAN /\ term \in TermImages \cup {ByeImage}
            BY DEF IInv, TypeOK
      <2> QED BY <1>1, <1>3, <2>1, HandlerTypes
<1>5. Wanted'
      BY <1>3 DEF IInv, Wanted
<1>6. Left'
      BY DEF IInv, Left
<1> QED BY <1>3, <1>4, <1>5, <1>6 DEF IInv

LEMMA BootKeeps == IInv /\ Boot => IInv'
BY PumpOnlyKeeps DEF Boot

LEMMA HandleDeadlineKeeps == IInv /\ HandleDeadline => IInv'
BY PumpOnlyKeeps DEF HandleDeadline, Looped

\* The screen painted whole shows the image.
LEMMA PaintedWhole ==
    ASSUME Sound(fb), NEW image \in Image
    PROVE  /\ Sound(Painted(image)) /\ Painted(image).desired = image
           /\ Painted(image).flight = fb.flight /\ Painted(image).committed = fb.committed
           /\ Painted(image).known = fb.known
<1>1. /\ Sound(Painted(image)) /\ Painted(image).flight = fb.flight
      /\ Painted(image).committed = fb.committed /\ Painted(image).known = fb.known
      /\ Painted(image).desired =
            [c \in Cells |-> IF c \in Inside(Screen) THEN image[c] ELSE fb.desired[c]]
      BY DrawnSound, ScreenHoldsAll DEF Painted
<1>2. Painted(image).desired = image
      BY <1>1, ScreenHoldsAll DEF Image
<1> QED BY <1>1, <1>2

\* A key: whatever it does to the lock and the terminal, the framebuffer takes
\* the image that goes with them.
LEMMA HandleKeyKeeps ==
    ASSUME IInv, NEW key \in Keys, HandleKey(key)
    PROVE  IInv'
<1>1. /\ Sound(fb) /\ panelOn \in BOOLEAN /\ powerOffNow \in BOOLEAN /\ elapsed \in BOOLEAN
      /\ inbox \in Seq(Events) /\ Once /\ locked \in BOOLEAN
      /\ term \in TermImages \cup {ByeImage} /\ term \in Image
      /\ LockImage \in Image /\ ByeImage \in Image /\ elapsed' = elapsed
      BY ImagesAssumption DEF IInv, TypeOK, Kept, Events, HandleKey
<1>2. /\ inbox # <<>> /\ Head(inbox).t = "Key" /\ inbox' = Tail(inbox)
      /\ UNCHANGED <<waitedOut, outside>>
      BY DEF HandleKey, Received, KeyEvent
<1>3. Once' /\ Oks' = Oks /\ inbox' \in Seq(Events) /\ panel' = panel
      BY <1>1, <1>2, Taken DEF outside, epVars
<1> DEFINE Handled == /\ Kept' /\ Wanted'
                      /\ inFlight' \in {"None", "Draw", "PowerOff"} /\ job' \in Jobs
                      /\ panelOn' \in BOOLEAN /\ powerOffNow' \in BOOLEAN
                      /\ locked' \in BOOLEAN /\ term' \in TermImages \cup {ByeImage}
<1>4. ASSUME EnterLock PROVE Handled
      <2> DEFINE f == Invalidated(Painted(LockImage))
      <2>1. /\ Sound(f) /\ f.desired = LockImage /\ f.flight = fb.flight
            /\ f.committed = fb.committed /\ f.known = FALSE
            BY <1>1, PaintedWhole, InvalidatedSound
      <2>2. Pump(f, panelOn, TRUE, elapsed, Busy) /\ locked' = TRUE /\ term' = term
            BY <1>4 DEF EnterLock
      <2> HIDE DEF f
      <2>3. /\ Kept' /\ fb'.desired = LockImage
            /\ inFlight' \in {"None", "Draw", "PowerOff"} /\ job' \in Jobs
            /\ panelOn' \in BOOLEAN /\ powerOffNow' \in BOOLEAN
            BY <1>1, <1>3, <2>1, <2>2, PumpAfterEvent
      <2> QED BY <1>1, <2>2, <2>3 DEF Wanted
<1>5. ASSUME ExitLock PROVE Handled
      <2> DEFINE f == Invalidated(Painted(term))
      <2>1. /\ Sound(f) /\ f.desired = term /\ f.flight = fb.flight
            /\ f.committed = fb.committed /\ f.known = FALSE
            BY <1>1, PaintedWhole, InvalidatedSound
      <2>2. Pump(f, panelOn, powerOffNow, elapsed, Busy) /\ locked' = FALSE /\ term' = term
            BY <1>5 DEF ExitLock
      <2> HIDE DEF f
      <2>3. /\ Kept' /\ fb'.desired = term
            /\ inFlight' \in {"None", "Draw", "PowerOff"} /\ job' \in Jobs
            /\ panelOn' \in BOOLEAN /\ powerOffNow' \in BOOLEAN
            BY <1>1, <1>3, <2>1, <2>2, PumpAfterEvent
      <2> QED BY <1>1, <2>2, <2>3 DEF Wanted
<1>6. ASSUME key.k = "Type" /\ TypeText(key.image) PROVE Handled
      <2> DEFINE f == Painted(key.image)
      <2>1. key.image \in TermImages /\ key.image \in Image
            BY <1>6, ImagesAssumption DEF Keys, LockKey, OffKey, TypeKey
      <2>2. /\ Sound(f) /\ f.desired = key.image /\ f.flight = fb.flight
            /\ f.committed = fb.committed /\ f.known = fb.known
            BY <1>1, <2>1, PaintedWhole
      <2>3. /\ Pump(f, panelOn, powerOffNow, elapsed, Busy)
            /\ ~locked /\ locked' = locked /\ term' = key.image
            BY <1>6 DEF TypeText
      <2> HIDE DEF f
      <2>4. /\ Kept' /\ fb'.desired = key.image
            /\ inFlight' \in {"None", "Draw", "PowerOff"} /\ job' \in Jobs
            /\ panelOn' \in BOOLEAN /\ powerOffNow' \in BOOLEAN
            BY <1>1, <1>3, <2>2, <2>3, PumpAfterEvent
      <2> QED BY <1>1, <2>1, <2>3, <2>4 DEF Wanted
<1>7. ASSUME ShellPowerOff PROVE Handled
      <2> DEFINE f == Painted(ByeImage)
      <2>1. /\ Sound(f) /\ f.desired = ByeImage /\ f.flight = fb.flight
            /\ f.committed = fb.committed /\ f.known = fb.known
            BY <1>1, PaintedWhole
      <2>2. /\ Pump(f, panelOn, TRUE, elapsed, Busy)
            /\ ~locked /\ locked' = locked /\ term' = ByeImage
            BY <1>7 DEF ShellPowerOff
      <2> HIDE DEF f
      <2>3. /\ Kept' /\ fb'.desired = ByeImage
            /\ inFlight' \in {"None", "Draw", "PowerOff"} /\ job' \in Jobs
            /\ panelOn' \in BOOLEAN /\ powerOffNow' \in BOOLEAN
            BY <1>1, <1>3, <2>1, <2>2, PumpAfterEvent
      <2> QED BY <1>1, <2>2, <2>3 DEF Wanted
<1>8. ASSUME IgnoredKey PROVE Handled
      <2>1. PumpOnly /\ locked' = locked /\ term' = term
            BY <1>8 DEF IgnoredKey
      <2>2. /\ Kept' /\ fb'.desired = fb.desired
            /\ inFlight' \in {"None", "Draw", "PowerOff"} /\ job' \in Jobs
            /\ panelOn' \in BOOLEAN /\ powerOffNow' \in BOOLEAN
            BY <1>1, <1>3, <2>1, PumpAfterEvent DEF PumpOnly
      <2>3. Wanted'
            BY <2>1, <2>2 DEF IInv, Wanted
      <2> QED BY <1>1, <2>1, <2>2, <2>3
<1>9. Handled
      BY <1>4, <1>5, <1>6, <1>7, <1>8 DEF HandleKey
<1>10. Left'
      <2>1. CASE pc' = "Finish"
            <3>1. key = OffKey /\ ~locked
                  BY <2>1 DEF HandleKey
            <3>2. key # LockKey /\ key.k # "Type"
                  BY <3>1 DEF OffKey, LockKey
            <3>3. ShellPowerOff
                  BY <3>1, <3>2 DEF HandleKey, IgnoredKey
            <3> QED BY <2>1, <3>3 DEF ShellPowerOff, Left
      <2>2. CASE pc' = "Check"
            BY <2>2 DEF Left
      <2> QED BY <2>1, <2>2 DEF HandleKey
<1>11. TypeOK'
      <2>1. pc' \in {"Check", "Finish"}
            BY DEF HandleKey
      <2> QED BY <1>1, <1>2, <1>3, <1>9, <2>1, HandlerTypes
<1> QED BY <1>9, <1>10, <1>11 DEF IInv

\* A response: the request it answers is the one in flight, and a draw that was
\* carried out has put on the panel what now counts as shown.
LEMMA HandleSpiKeeps == IInv /\ HandleSpi => IInv'
<1> SUFFICES ASSUME IInv, HandleSpi PROVE IInv'
    OBVIOUS
<1>1. PICK ok \in BOOLEAN : Received(Response(ok)) /\ (OnDrawn(ok) \/ OnPoweredOff)
      BY DEF HandleSpi
<1>2. /\ Sound(fb) /\ panelOn \in BOOLEAN /\ powerOffNow \in BOOLEAN /\ elapsed \in BOOLEAN
      /\ inbox \in Seq(Events) /\ Once /\ locked \in BOOLEAN /\ job \in Jobs
      /\ term \in TermImages \cup {ByeImage} /\ locked' = locked /\ term' = term
      BY DEF IInv, TypeOK, Kept, Events, HandleSpi
<1>3. /\ inbox # <<>> /\ Head(inbox) = Response(ok) /\ inbox' = Tail(inbox)
      /\ UNCHANGED <<waitedOut, outside>>
      BY <1>1 DEF Received
<1>4. /\ inbox' \in Seq(Events) /\ Once' /\ Oks = {ok} /\ Oks' = {} /\ panel' = panel
      BY <1>2, <1>3, Taken DEF Response, outside, epVars
<1>5. /\ Agree(fb, inFlight, job, Oks) /\ Shows(fb, inFlight, job, Oks, panel)
      BY DEF IInv, Kept
<1>6. job = NoJob /\ (Flushing(fb) <=> inFlight = "Draw")
      BY <1>4, <1>5 DEF Agree
<1> DEFINE Handled == /\ Kept' /\ fb'.desired = fb.desired
                      /\ inFlight' \in {"None", "Draw", "PowerOff"} /\ job' \in Jobs
                      /\ panelOn' \in BOOLEAN /\ powerOffNow' \in BOOLEAN
                      /\ elapsed' \in BOOLEAN
<1>7. ASSUME OnDrawn(ok) PROVE Handled
      <2> DEFINE f == Ended(fb, ok)
      <2>1. inFlight = "Draw" /\ Flushing(fb) /\ elapsed' = FALSE
            BY <1>6, <1>7 DEF OnDrawn
      <2>2. /\ Sound(f) /\ f.desired = fb.desired /\ f.flight = NoFlush
            /\ ~ok => ~f.known
            /\ ok /\ fb.flight.kind = "Full" => f.known /\ f.committed = fb.flight.data
            /\ ok /\ fb.flight.kind = "Partial" =>
                  f.known = fb.known /\ f.committed = Overlay(fb.committed, fb.flight)
            BY <1>2, <2>1, EndedSound
      <2>3. fb.flight.kind \in {"Full", "Partial"}
            BY <1>2, <2>1, Fields DEF Sound
      <2>4. Pump(f, TRUE, powerOffNow, FALSE, FALSE)
            BY <1>7 DEF OnDrawn
      <2> HIDE DEF f
      <2>5. Agree(f, "None", job, {})
            BY <1>6, <2>2 DEF Agree, Flushing, NoJob
      <2>6. Shows(f, "None", job, {}, panel)
            BY <1>4, <1>5, <2>1, <2>2, <2>3 DEF Shows
      <2>7. /\ Sound(fb') /\ fb'.desired = f.desired
            /\ inFlight' \in {"None", "Draw", "PowerOff"} /\ job' \in Jobs
            /\ panelOn' \in BOOLEAN /\ powerOffNow' \in BOOLEAN
            /\ Agree(fb', inFlight', job', {})
            /\ Shows(fb', inFlight', job', {}, panel)
            BY <1>2, <2>2, <2>4, <2>5, <2>6, PumpKeeps, ZenonT(60)
      <2> QED BY <1>4, <2>1, <2>2, <2>7 DEF Kept
<1>8. ASSUME OnPoweredOff PROVE Handled
      <2>1. inFlight = "PowerOff" /\ elapsed' = elapsed /\ Pump(fb, FALSE, FALSE, elapsed, FALSE)
            BY <1>8 DEF OnPoweredOff
      <2>2. Agree(fb, "None", job, {}) /\ Shows(fb, "None", job, {}, panel)
            BY <1>5, <1>6, <2>1 DEF Agree, Shows, NoJob
      <2>3. /\ Sound(fb') /\ fb'.desired = fb.desired
            /\ inFlight' \in {"None", "Draw", "PowerOff"} /\ job' \in Jobs
            /\ panelOn' \in BOOLEAN /\ powerOffNow' \in BOOLEAN
            /\ Agree(fb', inFlight', job', {})
            /\ Shows(fb', inFlight', job', {}, panel)
            BY <1>2, <2>1, <2>2, PumpKeeps, ZenonT(60)
      <2> QED BY <1>2, <1>4, <2>1, <2>3 DEF Kept
<1>9. Handled
      BY <1>1, <1>7, <1>8
<1>10. /\ pc \in {"Wait", "Roused", "Drain"}
       /\ pc' = IF pc = "Drain" THEN "Finish" ELSE "Check"
       BY DEF HandleSpi, Looped, Waiting
<1>11. TypeOK'
       BY <1>2, <1>3, <1>4, <1>9, <1>10, HandlerTypes
<1>12. Wanted'
       BY <1>2, <1>9 DEF IInv, Wanted
<1>13. Left'
       BY <1>2, <1>10 DEF IInv, Left
<1> QED BY <1>9, <1>11, <1>12, <1>13 DEF IInv

\* What changes neither the kernel nor the job, and of the inbox only keys
LEMMA KeptStays ==
    ASSUME IInv, UNCHANGED <<kernelVars, job, epVars>>, Once', Oks' = Oks
    PROVE  Kept' /\ Wanted'
<1>1. /\ fb' = fb /\ inFlight' = inFlight /\ job' = job /\ panel' = panel
      /\ locked' = locked /\ term' = term
      BY DEF kernelVars, epVars
<1> QED BY <1>1 DEF IInv, Kept, Wanted

LEMMA DropKeyKeeps == IInv /\ DropKey => IInv'
<1> SUFFICES ASSUME IInv, DropKey PROVE IInv'
    OBVIOUS
<1>1. /\ inbox \in Seq(Events) /\ Once
      /\ inbox # <<>> /\ Head(inbox).t = "Key" /\ inbox' = Tail(inbox)
      /\ UNCHANGED <<kernelVars, elapsed, job, waitedOut, outside>>
      /\ pc = "Drain" /\ pc' = "Finish"
      BY DEF IInv, TypeOK, Kept, Events, DropKey, Received, KeyEvent
<1>2. inbox' \in Seq(Events) /\ Once' /\ Oks' = Oks
      BY <1>1, Taken
<1>3. Kept' /\ Wanted'
      BY <1>1, <1>2, KeptStays DEF outside
<1>4. TypeOK'
      BY <1>1, <1>2 DEF IInv, TypeOK, Events, kernelVars, outside, keyboard, epVars
<1>5. Left'
      BY <1>1 DEF IInv, Left, kernelVars
<1> QED BY <1>3, <1>4, <1>5 DEF IInv

\* A stroke comes to the chip, or leaves it.
LEMMA ChipKeeps ==
    ASSUME IInv, chip' \in Seq(Strokes), held' \in Strokes,
           UNCHANGED <<kernelVars, pc, inbox, elapsed, job, epVars, waitedOut, offFailed>>
    PROVE  IInv'
<1>1. Once' /\ Oks' = Oks
      BY DEF IInv, Kept, Once, Oks, Responses
<1>2. Kept' /\ Wanted'
      BY <1>1, KeptStays
<1>3. TypeOK'
      BY DEF IInv, TypeOK, kernelVars, epVars
<1>4. Left'
      BY DEF IInv, Left, Idle, Busy, kernelVars
<1> QED BY <1>2, <1>3, <1>4 DEF IInv

LEMMA KeyboardKeeps ==
    ASSUME IInv, PressKey \/ StrikeSilent \/ TakeStroke
    PROVE  IInv'
<1>1. chip \in Seq(Strokes) /\ held \in Strokes
      BY DEF IInv, TypeOK
<1>2. CASE PressKey \/ StrikeSilent
      <2>1. PICK stroke \in Strokes : Strike(stroke)
            BY <1>2 DEF PressKey, StrikeSilent, Strokes
      <2>2. /\ chip' \in Seq(Strokes) /\ held' = held
            /\ UNCHANGED <<kernelVars, pc, inbox, elapsed, job, epVars, waitedOut, offFailed>>
            BY <1>1, <2>1 DEF Strike
      <2> QED BY <1>1, <2>2, ChipKeeps
<1>3. CASE TakeStroke
      <2>1. /\ chip' \in Seq(Strokes) /\ held' \in Strokes
            /\ UNCHANGED <<kernelVars, pc, inbox, elapsed, job, epVars, waitedOut, offFailed>>
            BY <1>1, <1>3 DEF TakeStroke
      <2> QED BY <2>1, ChipKeeps
<1> QED BY <1>2, <1>3

\* The input task posts a key.
LEMMA PostKeyKeeps == IInv /\ PostKey => IInv'
<1> SUFFICES ASSUME IInv, PostKey PROVE IInv'
    OBVIOUS
<1>1. held \in Keys /\ inbox' = Append(inbox, KeyEvent(held)) /\ held' \in Strokes
      BY DEF IInv, TypeOK, PostKey, Strokes
<1>2. /\ inbox \in Seq(Events) /\ Once
      /\ UNCHANGED <<kernelVars, pc, elapsed, job, chip, epVars, waitedOut, offFailed>>
      BY DEF IInv, TypeOK, Kept, Events, PostKey
<1>3. inbox' \in Seq(Events) /\ Once' /\ Oks' = Oks
      BY <1>1, <1>2, KeyAppended
<1>4. Kept' /\ Wanted'
      BY <1>2, <1>3, KeptStays
<1>5. TypeOK'
      BY <1>1, <1>2, <1>3 DEF IInv, TypeOK, Events, kernelVars, epVars
<1>6. Left'
      BY <1>2 DEF IInv, Left, Idle, Busy, kernelVars
<1> QED BY <1>4, <1>5, <1>6 DEF IInv

\* The main loop looks at the display, falls asleep, wakes, or gives up; time
\* goes by.
LEMMA LoopOnlyKeeps ==
    ASSUME IInv, CheckSleep \/ Wake \/ FinishDisplay \/ Elapse
    PROVE  IInv'
<1>1. UNCHANGED <<kernelVars, inbox, job, chip, held, epVars, offFailed>>
      BY DEF CheckSleep, Wake, FinishDisplay, Elapse, outside, keyboard
<1>2. Once' /\ Oks' = Oks
      BY <1>1 DEF IInv, Kept, Once, Oks, Responses
<1>3. Kept' /\ Wanted'
      BY <1>1, <1>2, KeptStays
<1>4. TypeOK'
      <2>1. /\ pc' \in {"Boot", "Wait", "Check", "Asleep", "Roused", "Finish", "Drain", "Down"}
            /\ elapsed' \in BOOLEAN /\ waitedOut' \in BOOLEAN
            BY DEF IInv, TypeOK, CheckSleep, Wake, FinishDisplay, Elapse, Idle
      <2> QED BY <1>1, <2>1 DEF IInv, TypeOK, kernelVars, epVars
<1>5. locked' = locked /\ term' = term /\ (Idle <=> Idle')
      BY <1>1 DEF kernelVars, Idle, Busy
<1>6. Left'
      <2>1. CASE CheckSleep     BY <1>5, <2>1 DEF IInv, Left, CheckSleep
      <2>2. CASE Wake           BY <1>5, <2>2 DEF IInv, Left, Wake
      <2>3. CASE FinishDisplay  BY <1>5, <2>3 DEF IInv, Left, FinishDisplay
      <2>4. CASE Elapse         BY <1>5, <2>4 DEF IInv, Left, Elapse
      <2> QED BY <2>1, <2>2, <2>3, <2>4
<1> QED BY <1>3, <1>4, <1>6 DEF IInv

-----------------------------------------------------------------------------
(* The e-paper task *)

\* It answers what it works on; a success has shown the flush in flight.
LEMMA RespondKeeps ==
    ASSUME IInv, NEW ok \in BOOLEAN, job # NoJob, Respond(ok), panel' \in Image,
           epKnown' \in BOOLEAN, epPower' \in BOOLEAN, volts' \in BOOLEAN, offFailed' \in BOOLEAN,
           job.op = "PowerOff" => panel' = panel,
           job.op = "Draw" /\ ok => panel' = Overlay(panel, job.flush)
    PROVE  IInv'
<1>1. /\ Agree(fb, inFlight, job, Oks) /\ Shows(fb, inFlight, job, Oks, panel)
      /\ Sound(fb) /\ inbox \in Seq(Events) /\ panel \in Image
      BY DEF IInv, Kept, TypeOK, Events
<1>2. /\ Oks = {} /\ job.op = inFlight /\ job.op \in {"Draw", "PowerOff"}
      /\ job.op = "Draw" => job.flush = fb.flight /\ Flushing(fb)
      BY <1>1 DEF Agree, IInv, TypeOK, Jobs, OffJob
<1>3. /\ job' = NoJob /\ inbox' = Append(inbox, Response(ok))
      /\ UNCHANGED <<kernelVars, pc, elapsed, waitedOut, chip, held>>
      BY DEF Respond, keyboard
<1>4. inbox' \in Seq(Events) /\ Once' /\ Oks' = {ok}
      BY <1>1, <1>2, <1>3, ResponseAppended
<1>5. fb' = fb /\ inFlight' = inFlight /\ locked' = locked /\ term' = term
      BY <1>3 DEF kernelVars
<1>6. Agree(fb', inFlight', job', Oks')
      BY <1>1, <1>2, <1>3, <1>4, <1>5 DEF Agree, NoJob
<1>7. Shows(fb', inFlight', job', Oks', panel')
      <2>1. CASE inFlight = "PowerOff"
            BY <1>1, <1>2, <1>3, <1>5, <2>1 DEF Shows
      <2>2. CASE inFlight = "Draw" /\ ~ok
            BY <1>3, <1>4, <1>5, <2>2 DEF Shows
      <2>3. CASE inFlight = "Draw" /\ ok
            <3>1. panel' = Overlay(panel, fb.flight)
                  BY <1>2, <2>3
            <3>2. fb.flight.kind = "Full" => panel' = fb.flight.data
                  BY <1>1, <3>1, Fields, ScreenHoldsAll DEF Sound, FullCovers, Overlay, Image
            <3>3. fb.known => fb.committed = panel
                  BY <1>1 DEF Shows
            <3> QED BY <1>3, <1>5, <2>3, <3>1, <3>2, <3>3 DEF Shows
      <2> QED BY <1>2, <2>1, <2>2, <2>3
<1>8. Kept' /\ Wanted'
      BY <1>1, <1>4, <1>5, <1>6, <1>7 DEF IInv, Kept, Wanted
<1>9. TypeOK'
      BY <1>3, <1>4 DEF IInv, TypeOK, Events, Jobs, kernelVars
<1>10. Left'
       BY <1>3 DEF IInv, Left, Idle, Busy, kernelVars
<1> QED BY <1>8, <1>9, <1>10 DEF IInv

LEMMA TaskKeeps == IInv /\ Task => IInv'
<1> SUFFICES ASSUME IInv, Task PROVE IInv'
    OBVIOUS
<1>1. /\ job \in Jobs /\ panel \in Image /\ epKnown \in BOOLEAN /\ epPower \in BOOLEAN
      /\ volts \in BOOLEAN /\ offFailed \in BOOLEAN /\ NoJob.op = "None"
      BY DEF IInv, TypeOK, NoJob
<1>2. job.op = "Draw" => job.flush \in Flush /\ job.flush.data \in Image
      <2>1. ASSUME NEW flush \in Flush PROVE flush.data \in Image
            <3>1. Blank \in Image
                  BY DEF Blank, Image, Ink
            <3> QED BY <3>1 DEF Flush, NoFlush
      <2> QED BY <1>1, <2>1 DEF Jobs, OffJob
<1>3. CASE RefusePartial
      BY <1>1, <1>3, RespondKeeps DEF RefusePartial, Refused, epVars
<1>4. CASE DrawSucceeds
      <2>1. /\ job.op = "Draw" /\ Respond(TRUE) /\ panel' = Overlay(panel, job.flush)
            /\ epKnown' \in BOOLEAN /\ epPower' \in BOOLEAN /\ volts' \in BOOLEAN
            /\ offFailed' \in BOOLEAN
            BY <1>4 DEF DrawSucceeds, Shown
      <2>2. panel' \in Image
            BY <1>1, <1>2, <2>1, OverlayType
      <2> QED BY <1>1, <2>1, <2>2, RespondKeeps
<1>5. CASE DrawFails
      <2>1. /\ job.op = "Draw" /\ Respond(FALSE)
            /\ epKnown' \in BOOLEAN /\ epPower' \in BOOLEAN /\ volts' \in BOOLEAN
            /\ offFailed' \in BOOLEAN
            BY <1>1, <1>5 DEF DrawFails, Spoilt
      <2>2. panel' \in Image
            <3>1. PICK garbage \in Image :
                     panel' = Overlay(panel, [job.flush EXCEPT !.data = garbage])
                  BY <1>5 DEF DrawFails, Spoilt
            <3>2. [job.flush EXCEPT !.data = garbage].data = garbage
                  BY <1>2, <2>1 DEF Flush, NoFlush
            <3> QED BY <1>1, <3>1, <3>2, OverlayType
      <2> QED BY <1>1, <2>1, <2>2, RespondKeeps
<1>6. CASE PowerOffSucceeds
      BY <1>1, <1>6, RespondKeeps DEF PowerOffSucceeds, SwitchedOff
<1>7. CASE PowerOffFails
      BY <1>1, <1>7, RespondKeeps DEF PowerOffFails, SwitchOffFailed
<1> QED BY <1>3, <1>4, <1>5, <1>6, <1>7 DEF Task

LEMMA Invariant == Spec => []IInv
<1>1. Init => IInv
      BY InitInvariant
<1>2. IInv /\ [Next]_vars => IInv'
      <2> SUFFICES ASSUME IInv, [Next]_vars PROVE IInv'
          OBVIOUS
      <2>1. CASE Boot            BY <2>1, BootKeeps
      <2>2. CASE \E key \in Keys : HandleKey(key)
            BY <2>2, HandleKeyKeeps
      <2>3. CASE DropKey         BY <2>3, DropKeyKeeps
      <2>4. CASE HandleSpi       BY <2>4, HandleSpiKeeps
      <2>5. CASE HandleDeadline  BY <2>5, HandleDeadlineKeeps
      <2>6. CASE CheckSleep \/ Wake \/ FinishDisplay \/ Elapse
            BY <2>6, LoopOnlyKeeps
      <2>7. CASE Task            BY <2>7, TaskKeeps
      <2>8. CASE PressKey \/ StrikeSilent \/ TakeStroke
            BY <2>8, KeyboardKeeps
      <2>9. CASE PostKey         BY <2>9, PostKeyKeeps
      <2>10. CASE UNCHANGED vars
            <3>1. /\ UNCHANGED <<kernelVars, pc, inbox, elapsed, job, epVars, waitedOut, offFailed>>
                  /\ chip' = chip /\ held' = held
                  BY <2>10 DEF vars, outside, keyboard
            <3> QED BY <3>1, ChipKeeps DEF IInv, TypeOK
      <2> QED BY <2>1, <2>2, <2>3, <2>4, <2>5, <2>6, <2>7, <2>8, <2>9, <2>10
          DEF Next, Loop, Input
<1> QED BY <1>1, <1>2, PTL DEF Spec

-----------------------------------------------------------------------------
(* The theorems *)

\* The kernel, its inbox and the task's job keep their types.
THEOREM TypeCorrect == Spec => []TypeOK
<1>1. IInv => TypeOK
      BY DEF IInv
<1> QED BY <1>1, Invariant, PTL

\* At most one request is in flight, every response is matched to it, and what
\* counts as shown between draws is on the panel (kernel.rs:22-24), however keys,
\* deadlines, failures and responses interleave.
THEOREM KernelInvariantsHold == Spec => []KernelInvariants
<1>1. ASSUME IInv PROVE KernelInvariants
      <2>1. /\ Agree(fb, inFlight, job, Oks) /\ Shows(fb, inFlight, job, Oks, panel) /\ Once
            BY <1>1 DEF IInv, Kept
      <2>2. CASE Responses = {}
            <3>1. Oks = {} /\ Cardinality(Responses) = 0
                  BY <2>2, FS_EmptySet DEF Oks
            <3> QED BY <2>1, <3>1 DEF Agree, Shows, KernelInvariants, Matched, CommittedIsShown, Busy
      <2>3. CASE Responses # {}
            <3>1. PICK i \in Responses : Responses = {i}
                  BY <2>1, <2>3 DEF Once
            <3>2. Oks # {} /\ Cardinality(Responses) = 1
                  BY <3>1, FS_Singleton DEF Oks
            <3> QED BY <2>1, <3>2 DEF Agree, Shows, KernelInvariants, Matched, CommittedIsShown, Busy
      <2> QED BY <2>2, <2>3
<1> QED BY <1>1, Invariant, PTL

\* With nothing in flight or due, the panel shows what was drawn last.
LEMMA IdleShows == ASSUME IInv, Idle PROVE panel = fb.desired
<1>1. ~Flushing(fb) /\ fb.known /\ fb.dirty = NoBox /\ inFlight = "None"
      BY DEF Idle, Busy, NeedsFlush, IInv, Kept, Agree
<1>2. \A c \in Cells : fb.desired[c] = fb.committed[c]
      BY <1>1, NoBoxIsNone DEF IInv, Kept, Sound, Accounted
<1>3. fb.committed = panel
      BY <1>1 DEF IInv, Kept, Shows
<1>4. fb.desired \in Image /\ fb.committed \in Image
      BY Fields DEF IInv, TypeOK
<1> QED BY <1>2, <1>3, <1>4 DEF Image

\* The device never sleeps on anything but the lockscreen, nor switches off on
\* anything but the goodbye line unless it ran out of time (main.rs:175, 203-204).
THEOREM LeavesShowing == Spec => []LeftShowing
<1>1. ASSUME IInv PROVE LeftShowing
      <2>1. Idle => panel = IF locked THEN LockImage ELSE term
            BY <1>1, IdleShows DEF IInv, Wanted
      <2> QED BY <1>1, <2>1 DEF IInv, Left, LeftShowing
<1> QED BY <1>1, Invariant, PTL

=============================================================================
