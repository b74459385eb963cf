# Verification of dynatac

TLA+ models, TLC runs and TLAPS proofs for
[dynatac](../src/docs/os-design.md), a text operating system for the LilyGo
T-Deck-Pro (ESP32-S3, e-paper display, A7682E modem), written in Rust. `core/`
is pure logic (state machines without I/O, clock or threads), `device/` the
thin threads around it. The models follow that split: a state machine is a
module of operators on its struct, a thread or an actor of the environment is
a set of actions, and a module at the top composes them.

Paths are relative to `src/`; a file is named alone where its name is unique.

## 1. The system

| Component | State | Operations | Interacts by |
|---|---|---|---|
| AT link engine, `modem/link.rs` | Off / Syncing(probe) / Ready(in flight), queue, probe number, outputs | submit, on_rx, on_tick, reset, power_off, poll | called by the HAL; outputs polled and written by the driver loop |
| AT parser, `modem/at.rs` | partial line | feed, reset | inside the engine |
| HAL, `modem/hal.rs`, `request.rs`, `unsolicited.rs` | phase, queue, request in flight, configuration issues | power_on/off, submit, on_rx, on_tick | drives the engine, serves the port |
| Driver, service, power sequencing, `modem/{driver,service,power}.rs`, `device/modem_service.rs` | running and queued sequences | power_on/off, submit, step | one thread; channels to and from the kernel side |
| Transport, `modem/transport.rs`, `device/modem_transport.rs` | bounded queue with loss markers | push, mark_lost, pop | UART reader thread and driver thread |
| Call manager, `call_manager.rs` | the tracked call, requests in flight, the list | dial, answer, hang_up, tick, on_done, on_event | over the modem port |
| SMS store, storage, inbox, encodings, `sms_{store,storage,inbox,pdu}.rs`, `gsm7.rs` | round, outbox, offered and saved PDUs; parts | send, saved, tick, on_done, on_event; encode, decode, join | over the modem port; the owner saves durably |
| Modem simulator and faults, `sim.rs`, `faults.rs` | the modem, its network and SIM | execute, effects, faults | test builds, at the far end of the wire |
| Framebuffer, `framebuffer.rs` | desired, committed, dirty box, known, flush in flight | draws, invalidate, begin_flush, end_flush | owned by the kernel |
| Kernel, `kernel.rs`, `power.rs` | lock, terminal, request in flight, panel power | handle(Key, Spi, Deadline) | the main loop; one request at a time to the spi task |
| Main loop, `device/main.rs` | inbox | loop, wait, sleep check, finish_display, in-call loop | inbox channel from the input and spi tasks |
| SPI scheduler, bus, e-paper, `spi/*.rs`, `device/spi_service.rs` | jobs, waits, retries, controller flags | submit, step, wake; next, advance | one thread; pins, notifications |
| Input task, `input_service.rs`, `keyboard.rs`, `keymap.rs`, `battery.rs`, `charger.rs` | the mapper, the chips' registers | keyboard interrupt, requests | inbox; the interrupt line also wakes the sleeping device |
| Terminal, shell, programs, `terminal.rs`, `shell.rs`, `programs/*` | line, history, scrollback, mode | one key; one command line | inside one kernel event; blocking drivers |
| Old modem driver, `device/modem.rs` | session flags | power, status, texts, dial, data mode | blocking UART calls made by programs |
| WiFi, stores, HTTP, SMTP | connected network; flash | connect, save, transfer | blocking calls made by programs |

What is hard here: answers that arrive late or not at all on a line that names
no command; a modem that restarts unseen and forgets its settings; messages
named by slots that are used again; a receive path that overflows in three
places; a display that fails half-way through a draw and keeps its image without
power; an interrupt line that must be cleared, armed and slept on; keys,
responses and deadlines in any order; switching off in the middle of
everything. What makes it correct:

- *Link*: one reply per command, in order; a reply tells the truth about what
  the modem did; nothing stale survives a sync; the text of a message goes to
  its own prompt; the link always comes back.
- *HAL, service*: requests run only on a configured modem, are answered once, in
  order and in the end, and a modem left on ends up configured.
- *Calls*: the user sees the modem's call in the end; none is shown as ended that
  is still there. *SMS*: nothing received is lost, nothing is sent twice, and every
  text reads as it was written.
- *Transport*: the stream is what the modem sent but for gaps that are marked.
- *Framebuffer, kernel, main loop*: what is believed to be on the panel is on it;
  nothing drawn is missed; the device sleeps only on the lockscreen and with the
  panel off, and does get to sleep unless the keyboard keeps it awake.
- *SPI*: no rule of the bus or the controller is broken, every device gets its
  turn, every request gets one response and its effect.
- *Handset*: keys reach the kernel in order and with their modifiers; radios are
  off and no call is open when the device is left alone; what the screen reports
  is so.

`PROJECT.json` lists every component with its status and every hazard with its
line, and maps every definition to the lines it models.

## 2. Modules

| Group | Modules | Models |
|---|---|---|
| Link | `AtLink`, `MCAtLink` | the link engine, both directions of the UART, an external modem, faults |
| | `LinkPromise` | what the engine promises the layer above, without wires, probes and timeouts |
| | `AtLinkProofs` | proofs about `AtLink`: types, replies once and in order; nothing stale survives a sync; replies are true and one's own; it implements `LinkPromise`; when probe numbers are not reused |
| Display | `FrameBuffer`, `FrameBufferSpec` | the framebuffer; one owner of it, with a panel that may fail |
| | `FrameBufferLemmas`, `FrameBufferProofs` | facts about the framebuffer's operations, whoever calls them; proofs about `FrameBufferSpec` |
| | `PanelEffects` | what a finished request leaves on the panel and in the e-paper protocol |
| | `DisplayService`, `MCDisplayService` | kernel display service, lock, main loop, e-paper task |
| | `DisplayServiceProofs` | proofs about `DisplayService` |
| SPI | `PanelTask` | the task as its caller may see it: requests in, one response each, in order |
| | `Epaper`, `Bus` | the panel controller after the simulation of the tests, and the e-paper protocol; the wire with its chip selects |
| | `SpiTask`, `MCSpiTask` | the scheduler and the task's thread over them, pin interrupt and faults; implements `PanelTask` |
| | `SpiTaskProofs` | where a request's plan leads the controller; proofs about `SpiTask` |
| Modem | `ModemSim` | the simulated modem (sim.rs): boot, settings, calls, SIM, prompts |
| | `Hal` | the HAL with the engine below it reduced to its outputs, and the driver step |
| | `ModemService` | the handle, channels and thread, both power sequences; implements `LinkPromise` |
| | `CallManager`, `Calls` | the call service; user, network, HAL and modem around it |
| | `CallsProofs` | the HAL, the driver and the call service, from a request to its answer; proofs about `Calls` |
| | `SmsStore`, `Sms`, `MCSms` | the SMS service; network, owner with durable storage, HAL and modem around it |
| | `ModemTransport` | the bounded queue (transport.rs); UART, driver, reader thread and consumer around it |
| | `ModemTransportProofs` | proofs about `ModemTransport` |
| Messages | `SmsPdu`, `Request` | septets, UTF-16 and PDUs, and the inbox that joins their texts; URCs, replies of all requests and of the storage |
| | `Messages`, `MCMessages` | texts from their sender through the SIM, lines and replies to the inbox |
| Handset | `KeyMapper`, `Gauge`, `InputTask` | the key map; gauge and charger; the input task with its I2C bus |
| | `Terminal`, `Shell`, `Programs` | line editing and widgets; tokeniser and modes; every program |
| | `ModemReplies`, `OldModem`, `World`, `Faults` | how the old driver reads its modem; the driver and that modem; WiFi, flash, mail, bridge; the budget of failures |
| | `Handset`, `MCHandset` | the main loop, the kernel's key handling and the in-call loop over all of these |
| | `HandsetProofs` | what no program does; the way of the lock's job; proofs about `Handset` |

Definitions whose comment starts with "Mutant" are plausible bugs; no
specification uses them. Each property of a passing run is violated when one of
them takes the place of the definition that follows.

### Link

`state` with `readBack`, `inFlight`, `payloadSent` and `info` is the engine's
`State` with its `Probe` and `InFlight`; `queue`, `nonce` are the fields of the
same name; `replies` is the history of `Output::Reply`. `tx` holds what was
written and not yet seen by the modem, `rx` the received lines, prompts and
`Lost` markers. A received line remembers which command caused it; the engine's
guards never look at that, it only serves the properties. Deadlines are
abstract: `CommandTimeout` and `ProbeTimeout` may happen whenever their state
has a deadline; if something is still under way the timeout is a "late" fault.

The modem (external) executes what it is sent strictly in order (link.rs:20-22),
takes whatever arrives after a prompt for text until Ctrl-Z or ESC, and answers
a combined probe line with read-back and OK. A burst it sends may arrive with any
one contiguous part replaced by a loss marker. It may restart by itself. The HAL
is present in what it does to the engine: it answers `*ATREADY` with `reset`
before anything else happens, calls `power_off` ahead of the PWRKEY pulse and
`power_on` after it. Left out: echoes and URCs, which failure code it was,
`Engine::new`, commands that declare no info lines.

### Display and SPI

A screen of `BYTES_PER_ROW x HEIGHT` bytes of one bit each: bytes are the unit of
every comparison in the code. A drawing call paints any cells of a box and marks
the box dirty. `panel` is what the panel really shows; a failed draw may leave
anything in its region.

In `DisplayService`, `fb`, `locked`, `term` (the terminal's contents as an image),
`inFlight`, `panelOn`, `powerOffNow` are the kernel's; `elapsed` stands for
`now >= last_draw + PANEL_IDLE_MS`, the only thing the code asks about time. `pc`
is where the main loop is: `Wait`, `Check` (is it time to sleep?), `Asleep`,
`Roused` (waiting again, sent there by the keyboard's line), `Finish`/`Drain`
(`finish_display`), `Down`. Each `Handle...` action is one `Kernel::handle` with the
`pump` at its end. The keyboard is its chip's strokes (`chip`), which hold the line
low, and the one the input task has taken (`held`); a `Silent` stroke, which stands
for a release, Shift, Sym or Alt, holds the line low too and posts nothing. That line
and not the inbox is what ends light sleep (sleep.rs) or refuses it. `InputTask` has
the same task in full. The e-paper task is here one step per request, by the effects
of `PanelEffects`; `waitedOut` and `offFailed` are history.

`SpiTask` is that task in full. One turn of `ready`'s loop, one I/O operation, one
look at the channel, one arming of the pin interrupt is a step each, so that the
BUSY pin may rise and requests may come between any two. The controller is the
one of `spi/epaper/tests/sim.rs`; what that simulation panics on is a named
`Misuse`. Of the rules of bus.rs, `Bus` tracks the release byte before the next chip
select (B2) and the clocks and CMD0 before the first transaction (B4); one chip
select at a time (B1) is how a transfer is modelled, and clock rates (B3) are not.
The other slots hold mock protocols, as the scheduler's tests have. SETTLE_MS is
taken to be longer than BUSY takes to fall; time is otherwise abstract.

### Modem

Every module of this group works on a struct with the fields of the layers it
has; `Hal` holds the engine as the HAL drives it, where `flight` is both the
engine's command and the HAL's. The code's loop in `run` goes on until nothing is left
to do; `Run` takes `Turns(h)` turns of it: one for each output of the engine and the
up to four more it brings about, one for each queued request, and those that end a pass.
TLC found nothing left to do after them in `calls`, `sms` and `modem`. The simulated modem's clock is replaced by lanes:
effects of one lane happen in order, those of different lanes in any order. Chunks
on the wire may be lost, the modem may stall, lose power, or send a stray prompt
(faults.rs); a deadline passes early only by a stall. Replies of an unexpected
shape are left to `Messages`. Assumed:

- a step of a power sequence is due when it is taken; PB DONE comes 12 s after
  `*ATREADY` (sim.rs:67), later than a configuration pass of a modem that answers;
- `Sms`: a tick comes when the modem has nothing to say, the network does not
  deliver between the boot milestones of a configuring modem, and a device that
  restarts takes the modem's power with it;
- `Calls`: one voice call at a time, as the simulator has; volume, durations and
  what is shown of an ended call are left out;
- `ModemTransport`: the modem's lines are numbered bytes; prompts, text decoding
  and the write side are left out.

### Messages

PDUs are sequences of octets (the hex digits left out), texts sequences of code
points, so that packing, escapes, surrogates, headers, semi-octet addresses and
timestamps are computed as the code does. A line is a head and its tokens. The
link is in sync and one request is out at a time; what can go wrong is a damaged
line of a listing or a read, a URC inside a reply, and a restart of the device.
Peers encode as this device does and take a reference again only after the earlier
text with the same sender, reference and number of parts has arrived. Two lines
lost together could pair one header with another's PDU if their lengths agreed;
the link marks losses, so such a reply counts as Unknown. Replies to `ListCalls`
and `Identify` can be silently short when a line of theirs is damaged, and nothing is
claimed of them then.

### Handset

One step is one I2C transaction, one driver call, one event taken or one look at
the inbox. A key or a character stands for a word, an output line for a message.
The user types one of the sessions of `MCHandset`, patiently (a key when nothing is
going on) or ahead. A program is a job: the calls it makes, in order, each of which
may fail once in a session, and what it puts out. Left out or assumed: the 15 s
limit of `finish_display`; `wifi.stop` succeeds and so does the PWRKEY pulse that
switches the modem off (of either failure main.rs:216-221 only warns); a power cut while flash is written;
the bytes of PPP, HTTP and SMTP, and a PPP link dropped by the network; a failed
connect drops the link; a press needs a set-up chip; the chip does not raise its
interrupt again for strokes that were in the FIFO when it was cleared; `hello` is
always answered OK; no text and no call comes in to the old driver's modem; a
command that carries words of its own (`modem at`) carries one; echoes of commands.

## 3. Runs

| Run | Instance | Shows |
|---|---|---|
| `at_link` | one plain and one message command, probe numbers 1..8, any two faults of {loss, late, write, restart, power-off} | `OneReply`, `InOrder`, `Drained`, `OwnAnswer`, `Truthful`, `KeepsPromise` (refinement of `LinkPromise`), `Resyncs`, `Answered` |
| `at_link_write_error` | one failed write | **violated** `WriteErrorHeals`: the link does not always recover from a failed write (driver.rs:14-15) |
| `framebuffer` | 2 x 2 bytes, two draws of any box and image, one failure, one invalidate | `CommittedIsShown`, `NothingMissed`, `Tight`, `Converges` |
| `display` | 2 x 1 bytes, three strokes of which one may be silent, one failed draw, one failed power-off | `KernelInvariants`, `LeftShowing`, `Sleeps`, `ShowsLast`, `GoesDark` |
| `display_asleep_dark` | two keys, no failures | **violated** `AsleepIsDark`: the device can sleep with the drive voltages on (kernel.rs:139) |
| `spi` | 2 x 1 bytes, chunks of one, three requests (a draw, a partial draw, a power-off in any order), two devices, one fault | `HardwareRules`, `RoundRobin`, `KeepsPromise` (refinement of `PanelTask`), `AllAnswered` |
| `modem` | a plain request and a message, on, off and on again with the commands at any moment, or on and one fault | `KeepsPromise` (refinement of `LinkPromise`), `OnlyConfigured`, `AllAnswered`, `Reconfigures` |
| `calls` | one call out, one in, one further key, one fault | `Awaited`, `NoFalseEnd`, `Converges` |
| `sms` | parts 2 and 1 of a text and a silent message come in over a SIM of two slots, a text of two parts goes out, one fault or restart | `NothingLost`, `SendsTrue`, `Finishes` |
| `transport` | three lines of two bytes; UART, driver ring, event queue and reader's buffer of two, queue of three; one damaged byte, one failed read | `StreamTrue`, `Announced` |
| `handset` | 27 sessions, at most one failure in each, a FIFO of two | `KeysTrue`, `LockedIsQuiet`, `CallsClosed`, `ToldTrue`, `AllTaken` |
| `messages` | nine scenarios of texts of one to three parts, 16 octets of user data, a SIM of two slots | `TextsTrue`, `RepliesTrue` |

*Bounds.* Two commands are enough to confuse one's answer with the other's; one
of them has a payload, since only such commands reach input mode. Two faults
cover every pair (a lost prompt and a late answer, a failed write before a loss);
the composed runs allow one, which may come anywhere, since each fault is there
followed by whole recoveries. In `at_link` there are more probe numbers than late
deadlines, which is the code's own assumption (link.rs:50-53); the other modem runs
need four. Two draws and one failure cover a draw under a flush, under a failed
flush and after it; 2 x 2 bytes is the smallest screen on which a box has rows and
columns that differ. Three strokes cover lock-unlock-lock, typing before a lock,
power-off after an unlock, and a silent one between two keys. A second power-on shows
that it makes up for what the power-off left undone; a power command repeated is
ignored by the simulator. Two SIM slots make indices come again; two parts in the
wrong order are what the inbox must join. Every buffer of `transport` is smaller
than what passes through it. 16 octets of user data hold 18 septets or 8 units, so a
two-septet character and a surrogate pair both meet a part's border. The sessions of
`handset` reach every program, mode and outcome; TLC's coverage has no action or
disjunct that is never taken. Every bound is a constant in a guard (`MaxStrokes`,
`MaxFaults`, `MaxTroubles`, `MaxRx`, ...). The systems may stop (all requests answered,
all keys typed), so deadlock is not checked; the liveness properties say what must
have happened by then.

*Fairness.* The drivers' loops never stop reading and never wait past a deadline
(driver.rs:41-45); the modem executes what it received, boots, and its lanes move.
A timeout is fair only when nothing is under way any more: otherwise it is a fault
and need not happen. `ModemService`: the thread receives and iterates, steps of a
power sequence come due. `Sms`: the owner saves (weak), the network delivers when
it can again and again (strong: a SIM that is full or a modem that boots turns the
delivery off for a while). `ModemTransport`: bytes arrive, the interrupt, the reader
and the consumer run. `FrameBufferSpec`, `DisplayService`, `SpiTask`: the loops run,
the input task takes what is in the chip, the panel finishes, time passes; the spi
task answers (spi_service.rs:20), which `spi` shows. `Handset`: the task and the main loop run, chips and network answer. No
fairness is asked of faults or of the user.

*Exceptions stated in the properties.* Each is a state where the code does not do
better, and is described where the property is defined:

- `Resyncs`, `Answered` except a modem that stays off or stuck in input mode after a
  failed write (`Stuck`); without the latter it is `WriteErrorHeals`, which fails;
- `AllAnswered` (modem) except after an `*ATREADY` that came after power_off
  (hal.rs:244), and only until the next power-on; `Reconfigures` (the modem ends up as
  it was last asked to be, and configured) except a missed milestone; `OnlyConfigured` except
  while the line that says the modem restarted is lost or under way;
- `LeftShowing` except a shutdown that ran out of time; `GoesDark` except from a failed
  power-off, which the kernel does not repeat, to the next draw;
- `Sleeps` except a locked device that the keyboard's line sent back into wait()
  (`Roused`): it looks again only after the next event, and a silent stroke brings none;
- `Announced` sets no bound on how late a marker comes, and does not hold when the
  event that says bytes were lost was dropped (modem_transport.rs:45);
- `AllTaken` except a chip whose set-up failed, strokes left without an interrupt
  after a failed transfer, and a key read between the main loop's last look at its
  inbox and the light sleep (main.rs:178);
- `LockedIsQuiet` and what `ToldTrue` says of "modem off" except a modem given up
  while it booted (modem.rs:555-557); `ToldTrue` of listings only for texts no line
  of which reads as something else.

## 4. Proofs

TLAPS proves the theorems below for every value of the constants; nothing is
assumed but the named assumptions of the modules.

`AtLinkProofs`: any commands, payload commands among them (`PayloadsAssumption`),
any number of probe numbers (`NoncesAssumption`), any set of fault budgets
(`AllowedAssumption`), a value for "no command" that is not one
(`NoCommandAssumption`).

- `TypeCorrect`: `[]TypeOK`, one lemma per handler.
- `OneReplyAlways`: `[]OneReply`. The argument follows `Asked`, the sequence of
  everything answered, in flight and queued, in that order. Every handler is
  shown to leave it alone, or, `Submit`, to append a new command (`AskedStep`),
  however much it moves from one of its parts to another. So nothing can be in it
  twice (`OnceStep`). `Placed`, the second half of `OneReply`, makes it inductive:
  without it `Submit` to an idle link could overwrite a command in flight, or
  answer one ahead of the queue (`PlacedStep`).
- `InOrderAlways`: the action property `InOrder`, from the same step lemma under
  the two invariants.

Further in `AtLinkProofs`: the same constants. What these
state rests on one hypothesis, `[]NoncesFresh`: the number of the next probe is on neither wire.
The code recycles its numbers after 99 probes and says so (link.rs:50-53); with a
number still under way from the last round it would take an old read-back for the
new one's, and none of these guarantees would hold.

- `SyncAlways`, `DrainedAlways`. `Sync` says what may be where in each link state: the
  shape of what is written (`TxShape`); while a sync is under way, nothing that the
  modem has still to read or to say follows the read-back it waits for, so what is
  received up to there is thrown away and what comes behind is clean (`Syncs`); an
  idle link has quiet wires (`Rests`); with a command in flight there is at most its
  line, its text, its info lines in order and one final code, and which of them are
  still to come is told by `payloadSent`, `info` and the modem's input (`Works`).
  `Drained` is its visible part and far from inductive by itself.
- `RecordAlways`, `TruthfulAlways`, `OwnReplyAlways`: `Record` carries what the modem
  made of each command with the answers on the wire (`Told`), from the final code
  that leaves the modem to the reply; an Unknown command may run later, a NotSent one
  is on no wire (`Later`, `Unasked`).
- `TextsAlways`, `OwnAnswerAlways`: text the modem waits for is followed only by the
  text of the same command or by ESC (`Cancels`, `Prompted`), unless a write failed.
- `PromiseKept`: `AtLink` implements `LinkPromise`, whose `asked` is `Asked`. Each handler
  is an `Ask`, a `Refuse`, an `Execute`, an `Answer` (of several at a power-off) or a
  stutter.
- `NoncesStayFresh`, `ShortRunsKeepIt`: the hypothesis itself, for runs with fewer
  faults than numbers (`FewFaults`, which TLC evaluates for the instance of `at_link`):
  `Credit` counts that every probe sent since the one whose number is on a wire was
  caused by a fault, by a mark on its way or by a power cycle, each of which is paid
  for once. So with `FewFaults` alone `Drained`, `OwnAnswer`, `Truthful` and the
  refinement hold, for any commands and any order of those faults.

`FrameBufferLemmas`: any screen size (`SizeAssumption`). `Sound(fb)` is what every
operation of the framebuffer keeps, one lemma each (`NewSound`, `DrawnSound`,
`InvalidatedSound`, `BegunSound`, `EndedSound`), so that each owner of a framebuffer
has only its own steps to prove:

- its types; `Accounted`: if the contents are known, what is drawn differs from what
  will be committed only inside the dirty box; `FullCovers`: while a full flush is in
  flight the contents are unknown, the flush covers the screen, and what was drawn
  since is in the dirty box. Without the last a full flush that ends well would set
  `known` on a state of which nothing is said.
- `AroundSome` is where the code's scan for the smallest rectangle
  (framebuffer.rs:158) is justified: every non-empty set of cells has a box whose
  four edges each hold one of them, because every set of numbers has a least
  element (`Least`, by well-foundedness) and a bounded one a greatest (`Greatest`).

`FrameBufferProofs`: any bounds on draws, failures and invalidates
(`BoundsAssumption`), any first image on the panel. `TypeCorrect`,
`CommittedAlwaysShown`, `NothingEverMissed` and `AlwaysTight`, from `Sound(fb)` with
the two properties that speak of the panel and of the last flush.

`DisplayServiceProofs`: any screen, images, number of strokes, of failed draws and of
failed power-offs. `TypeCorrect`, `KernelInvariantsHold` and `LeavesShowing`; the
inductive invariant `IInv` is `TypeOK` with

- `Kept`: `Sound(fb)`; at most one response waits (`Once`); a request is out exactly
  if it is worked on or answered, never both, and a draw worked on carries the
  framebuffer's flight (`Agree`); what counts as shown is shown until the draw in
  flight is carried out, and after its success is reported it will be (`Shows`).
  `CommittedIsShown` says nothing while a draw is in flight: `Shows` carries it across
  the draw, through the moment when the panel has changed and the kernel does not
  know it yet.
- `Wanted`: what is drawn is the lockscreen or the terminal, so an idle display shows it.
- `Left`: what the main loop found before it went to sleep or down; nothing after
  the check looks again.

`SpiTaskProofs`, first part: any screen (`SizeAssumption`), any size of a chunk
(`ChunkAssumption`). A *machine* is the controller with the three flags the
protocol keeps about it; each step of a plan has an `Effect` on it and is `Allowed`
or not: none while BUSY is low, none the controller misuses, power-on and refresh
only for a draw and a refresh only inside the draw's region. `Runs(q, m, s, n)`: the steps
`s` may be taken one after the other from `m` and lead to `n`. `PlanRuns` is what a plan
is worth: wherever the flags are right (`Trusts`), the plan of a request that is not
refused runs, and leads to the picture asked for with the flags right again. It is put
together from one lemma per part of a plan (`InitBuilt`, `PowerBuilt`, `WindowBuilt`,
`WriteRuns` for the chunks of a plane, `RefreshBuilt`, `OffPlan`), as plans are put
together from these parts.

`SpiTaskProofs`, second part: besides these any requests that the API can make
(`RequestsAssumption`), any number of devices (`SlotsAssumption`), any faults.

- `HardwareRulesAlways`: no rule of the bus and none of the controller is ever broken.
  `IInv` is the types, `BusKept` (a bus that is up is in SPI mode, and the last device
  has released it or owes the release) and `InHand`: with no job the flags are right
  about the panel (`Trusted`); with one, what is left of its steps runs from here to
  what was asked, and a job that waits has come to a wait (`OnCourse`, `Waited`). A job that failed leaves nothing of that,
  which is why the code forgets its flags then; what is kept is that a draw spoilt
  nothing outside its region and a power-off nothing but the voltages (`Contained`).
- `RoundRobinAlways`: between two transactions of a device that had one ready no other
  has two. `Turns` says where: whoever was passed over lies ahead of the one who passed
  it, and is asked before it.
- `PromiseKept`: `SpiTask` implements `PanelTask`, whose panel is the controller's
  screen. `Numbered` adds that ids are given in order, are owed to the requests in the
  same order and answered once. A response's effect on the panel is `Reached` or
  `Contained` above.

`ModemTransportProofs`: any number and width of lines, any room in the UART, the driver,
the reader and the queue (`StreamAssumption`, `CapacityAssumption`, `RoomAssumption`),
any noise and failed reads.

- `StreamAlwaysTrue`: `[]StreamTrue`. `Accounted` is about the queue: `Sound` has what the
  code's comments ask of its markers (ascending, no duplicates, none before the head),
  and `Marked` says that what was put in ends in a marker exactly if `last_loss` is the
  tail. Without the second nothing could be said of `mark_lost`, which decides by
  `last_loss` alone whether to mark again, also when that marker was popped long ago.
  There is one lemma for each way a queue changes, on its parts: `BytesPlaced`,
  `MarkerPlaced`, `MarkerTaken`, `BytesTaken`; `Pushed` and `Popped` put them together.
  `Sent` is about the way from the modem: `OrderedNext` for a byte that comes in,
  `OrderedGap` for every place where bytes can be dropped.

`CallsProofs`: any numbers, callers, keys, rings and faults (`NumbersAssumption`,
`BoundsAssumption`), any settings that the modem is configured with (`SimAssumption`),
any number of probe numbers (`NoncesAssumption`).

- `EveryAnswerAwaited`: `[]Awaited`. The call service sends a query, an ATA or an AT+CHUP
  when it remembers none of that kind, and dials when it waits for no dial. If the rest held
  one that it has forgotten, it would ask twice; if it remembered one that the rest has lost
  without an answer, it would never ask again. `Inv` is `Serves`: each kind is in one place
  at most, of the HAL's queue, the command in flight and the answers on their way up, and it
  is in one exactly if the service remembers it. The halves need each other: that there is one
  only is known because it is remembered, and it may be forgotten with its answer because
  there was one only. A dial may be forgotten before its answer comes (by a restart, or when
  a list shows the call), so of dials only the one waited for is shown to have its answer to
  come; `Backed` adds that a call no list has shown yet has its dial, under way or settled.
- `Keeps` follows a request through the HAL, one lemma per output of the engine and per
  place in `Turn`: no turn, however the modem fails, adds or loses one, and what leaves the
  queue or the link is answered once. `Moves` follows it through what the driver flushes and
  reads, `Serves` through the service's handling of each answer (`HandleAll`), which may
  itself ask again. `SimOk` types the modem and the wire as far as what is read must be lines.
- A run of the HAL, the lines of a chunk, the outputs passed up and the answers handled
  are recursive functions. `RunTurns`, `LinesTaken`, `OutputsPassed` and `NoticesHandled` say that
  each is a sequence of single steps, so that what one step keeps all of them keep; it does not
  matter how many turns a run takes. They rest on `LeastNumber` (every set of numbers has
  a least element, by well-foundedness), which gives induction over a set (`CountTo`)
  without the library's induction theorems.

`HandsetProofs`: any keyboard, sessions and number of keys typed ahead
(`HandsetAssumption`), any networks, flash, SIM, mail server and chats
(`ProgramsAssumption`: the bridge's answer is a list), any mishaps.

- `SleepsQuiet`: `[]LockedIsQuiet`. Nothing in the code looks at a radio before it
  sleeps; that both are off follows from what was done since the lock key. `RadiosWatched`
  is the inductive invariant. `Locks`: a locked main thread is at the lock's job, or
  both are off, and nothing but an unlock leads from there to anything that starts a
  program. `Closing`: of that job, whatever is still on has a step left that switches it
  off, and no step left is one whose failure ends the job (`Sure`): a failed `ATH` on
  the way out of data mode is ignored. `Knows`: the driver's flag agrees with the
  modem's power unless the driver gave a booting modem up, and a pulse meant to switch
  it off is only ever left to do while it is on; PWRKEY toggles, so a second pulse would
  switch the modem on again under the lock.
- It rests on what programs do (`ProperPrograms`, `ProperExecute`, `ProperCalled`: no
  command line, selection or prompt leads to a job that pulses PWRKEY by itself or has
  a step behind a power-off) and on what a step of a job becomes when it is carried out
  (`ProperExpanded`). Above these there is one lemma per action.
- `KeysNeverMixedUp`: `[]KeysTrue`, for a FIFO of any size and any keys other than the
  event by which the main loop hears of the panel (`InputAssumption`). The chip's FIFO,
  the stroke the task holds, the key mapper and the inbox are one queue, of which every
  step moves something on or nothing. `Orderly` makes the statement inductive: the task holds a
  stroke exactly where it has one to deliver, it reads only from a FIFO that has one, and a
  loss stays on record. What a queue of strokes gives is a recursive function; `GivesFirst`
  (the oldest stroke first) and `GivesTaken` (one more typed at the end) say what a
  step at either end does to it, and `KeysTaken` the same of the keys in the inbox. They are
  proved by the induction described above.

Only model-checked: liveness (`Resyncs`, `Answered`, `Converges`, `Sleeps`,
`ShowsLast`, `GoesDark`, `AllAnswered`, `Reconfigures`, `Finishes`, `Announced`,
`AllTaken`; out of TLAPS's reach), and besides:

- `Sms`: `NothingLost`, `SendsTrue`. They say which text a message or a send has,
  across the modem, the SIM and the store; `Keeps` of `CallsProofs` is the part below the store.
- `Messages`: `TextsTrue`, `RepliesTrue`. They rest on what folds over septets, parts
  and lines compute for every text.
- `Handset`: `CallsClosed`, because for any session and a modem however slow it is not
  a theorem: a `NO CARRIER` that lies in the UART while a command waits ends that command, the driver
  is one answer behind from there on, and the in-call loop may end with an older call's `NO CARRIER`
  while the newest `ATD` is still to be carried out. The sessions of the
  run hold calls that end on either side; once something has failed it claims nothing.
- the action properties `ToldTrue`, `NoFalseEnd`, `OnlyConfigured`, and that `ModemService`
  implements `LinkPromise`.

## 5. Where the code and its words differ

Two differences have a run of their own (`at_link_write_error`,
`display_asleep_dark`). These were met while modelling, are in the models as the
code has them, and are excepted by the properties where they matter:

- Sleep: "Sleeping then waking immediately is harmless" (sleep.rs:17-18), and main.rs:175
  says "sleep until a key". But when the sleep ends or is refused the loop does not come
  back to it: it waits for an event without a deadline (main.rs:136, 194). A release, Shift,
  Sym or Alt ends it and posts no event (keyboard.rs:111, 128-130), so that, say, a key
  released just after Alt+L leaves the device locked and awake until the next key.
- Framebuffer: `invalidate` promises a full next flush (framebuffer.rs:140-141), but
  during a full flush it is forgotten when that flush succeeds (131-135). Nothing but
  the framebuffer's own failure path calls it.
- Service: a request submitted after power_off is sent, not refused, if the
  power_off is queued behind a running power-on (service.rs:51-54), or if an
  `*ATREADY` arrives after it (hal.rs:244); writes queued in the HAL when it is
  switched off are still carried out (hal.rs:170).
- HAL: a boot milestone during the first configuration pass is ignored (hal.rs:253);
  a modem that restarts while idle, with `*ATREADY` lost, runs requests with default
  settings, and a request that crosses `*ATREADY` may be executed although it is
  answered Unknown.
- Calls: ATA without a ringing call gets only NO CARRIER and times out Unknown; an
  ATA queued behind a list when the link was lost is sent after the resync. "Later in
  the stream is more recent" (request.rs:223-225) is not so of the simulator's timing.
- Transport: "between two Lost markers the bytes are contiguous"
  (transport.rs:20-21) does not hold of the device's reader, which marks a loss only
  after it has drained what came behind it; the engine drops the line begun before a
  marker, not the damaged rest after it (transport.rs:26-28, link.rs:489-492).
- SPI: "acted on before the next transaction of any other device" (scheduler.rs)
  holds of one other device, not of several.
- Input: `clear_modifiers` is never called by the lock although its comments say so
  (keymap.rs:105-108, keyboard.rs:95-97); `start()` returns when the notifier is sent,
  not "once the devices are set up"; ship mode on USB power loops for ever with the
  display off.
- Old driver: a line of a text that begins with AT is dropped as an echo
  (at.rs:146-147); NO CARRIER behind other lines is lost; enable_data that fails
  after CONNECT leaves the modem in data mode (modem.rs:489-493); a prompt timeout
  sends no ESC (modem.rs:629); "dial failed" after 5 s while the call goes on;
  power_on gives up on a modem that may still come up (modem.rs:555-557).
- Network and stores: the migration removes the legacy keys although writing the
  list failed, and forget says "forgot" though nothing was written
  (nvs_network_store.rs:64, 97-107); `connected_ssid` is stale after the access point
  goes (wifi.rs:131); WiFi stopped by the lock is not started again; a write error at
  QUIT reports an accepted mail as failed (email.rs:222-223); what was typed ahead as a
  password shows on the terminal if the program fails before its prompt.

## 6. Not modelled

The SD card (unused by `main`), layout and rendering (pure drawing), the old display
driver (examples only), the log. In modelled components: the bytes of PPP, HTTP and
SMTP; the write side of the transport; echoes, the random soak and the timings of the
simulator; call volume and durations in the new call manager; the one-step API of the
framebuffer. `PROJECT.json` gives the reason beside each component.

