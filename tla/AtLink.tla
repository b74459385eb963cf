------------------------------- MODULE AtLink -------------------------------
(***************************************************************************)
(* The L1 AT link engine (core/src/modem/link.rs) between its caller, the  *)
(* HAL, and an external modem at the other end of a serial line that may   *)
(* lose what the modem sends and fail what we write.                       *)
(*                                                                         *)
(* Grain: one step is one call into the engine (a submit, one received     *)
(* line, prompt or loss marker, one timeout, a reset, a power-off) with    *)
(* everything that call does, the writes it queues included: the driver    *)
(* carries those out before it feeds the engine again (link.rs:47).        *)
(*                                                                         *)
(* Time is abstract. A deadline may pass while the answer is still on its  *)
(* way (a "late" fault) or when nothing can come any more.                 *)
(***************************************************************************)
EXTENDS Naturals, Sequences

CONSTANTS
    Commands,       \* the commands the caller may submit, each at most once
    Payloads,       \* those with a payload (AT+CMGS)
    NoCommand,      \* no command at all
    PROBE_NONCES,   \* probe numbers cycle through 1..PROBE_NONCES
    Allowed         \* the faults a run may see: how many of each kind

Fault == {"loss", "late", "write", "restart", "power"}
NoFaults == [f \in Fault |-> 0]

ASSUME PayloadsAssumption == Payloads \subseteq Commands
ASSUME NoCommandAssumption == NoCommand \notin Commands
ASSUME NoncesAssumption == PROBE_NONCES \in Nat \ {0}
ASSUME AllowedAssumption == NoFaults \in Allowed /\ Allowed \subseteq [Fault -> Nat]

VARIABLES
    (* the engine *)
    state,          \* "Off", "Syncing" or "Ready"
    nonce,          \* the number of the last probe sent
    readBack,       \* Syncing: the latest probe's read-back has arrived
    inFlight,       \* Ready: the command in flight, or NoCommand
    payloadSent,    \* its payload went out
    info,           \* whose info lines it has collected
    queue,          \* commands not sent yet
    replies,        \* every reply emitted so far, in order
    resetDue,       \* the caller has seen *ATREADY and owes a reset()
    (* the two directions of the UART *)
    tx,             \* written, not yet seen by the modem
    rx,             \* received stream: lines, prompts and loss markers
    (* the modem *)
    power,          \* "Off", "Boot" or "On"
    pulse,          \* PWRKEY is being held to switch it off
    input,          \* the command whose payload it is waiting for
    garbled,        \* a stray prefix sits in its line buffer
    executed,       \* what it made of each command
    texts,          \* messages sent: <<command, whose text was sent>>
    (* the environment *)
    faults          \* how many of each kind have happened

engineVars == <<state, nonce, readBack, inFlight, payloadSent, info, queue, replies>>
modemVars == <<power, pulse, input, garbled, executed, texts>>
vars == <<engineVars, resetDue, tx, rx, modemVars, faults>>

-----------------------------------------------------------------------------
(* What travels on the wires *)

Cmd(c) == [t |-> "Cmd", of |-> c]
Payload(c) == [t |-> "Payload", of |-> c]
Esc == [t |-> "Esc"]
Probe(n) == [t |-> "Probe", n |-> n]

Info(c) == [t |-> "Info", of |-> c]
Final(c, ok) == [t |-> "Final", of |-> c, ok |-> ok]
Prompt(c) == [t |-> "Prompt", of |-> c]
ReadBack(n) == [t |-> "ReadBack", n |-> n]
AtReady == [t |-> "AtReady"]
Lost == [t |-> "Lost"]

Nonces == 1 .. PROBE_NONCES
Sources == Commands \cup {NoCommand}
Outcomes == {"Ok", "Failed", "Unknown", "NotSent"}

Written == [t : {"Cmd", "Payload"}, of : Commands] \cup {Esc} \cup [t : {"Probe"}, n : Nonces]
Received == [t : {"Info", "Prompt"}, of : Sources]
            \cup [t : {"Final"}, of : Sources, ok : BOOLEAN]
            \cup [t : {"ReadBack"}, n : Nonces]
            \cup {AtReady, Lost}
Reply(c, outcome, source, lines) ==
    [id |-> c, outcome |-> outcome, source |-> source, info |-> lines]

Suffer(f) ==
    /\ faults' = [faults EXCEPT ![f] = @ + 1]
    /\ faults' \in Allowed

-----------------------------------------------------------------------------
(* The engine's internals *)

NextNonce == (nonce % PROBE_NONCES) + 1

\* start_probe, after writing `first`
StartProbe(first) ==
    /\ nonce' = NextNonce
    /\ tx' = tx \o first \o <<Probe(NextNonce)>>
    /\ state' = "Syncing"
    /\ readBack' = FALSE

Settle(outcome, source) ==
    replies' = Append(replies, Reply(inFlight, outcome, source, info))

Idle ==
    /\ inFlight' = NoCommand
    /\ payloadSent' = FALSE
    /\ info' = {}

\* unsync: settle what is in flight as Unknown, cancel a pending input, probe
Unsync ==
    /\ IF inFlight = NoCommand
         THEN UNCHANGED replies
         ELSE Settle("Unknown", NoCommand)
    /\ Idle
    /\ StartProbe(IF inFlight \in Payloads /\ ~payloadSent THEN <<Esc>> ELSE <<>>)
    /\ UNCHANGED queue

\* Mutant of pump: the command sent stays in the queue
PumpKeepsHead(q) ==
    /\ state' = "Ready"
    /\ payloadSent' = FALSE
    /\ info' = {}
    /\ queue' = q
    /\ IF q = <<>>
         THEN inFlight' = NoCommand /\ UNCHANGED tx
         ELSE inFlight' = Head(q) /\ tx' = Append(tx, Cmd(Head(q)))
    /\ UNCHANGED <<nonce, readBack>>

\* pump with nothing in flight and q waiting
Pump(q) ==
    /\ state' = "Ready"
    /\ payloadSent' = FALSE
    /\ info' = {}
    /\ IF q = <<>>
         THEN inFlight' = NoCommand /\ queue' = q /\ UNCHANGED tx
         ELSE /\ inFlight' = Head(q)
              /\ queue' = Tail(q)
              /\ tx' = Append(tx, Cmd(Head(q)))
    /\ UNCHANGED <<nonce, readBack>>

NotSent(c) == Reply(c, "NotSent", NoCommand, {})

\* every command submitted so far, in order
Ids(r) == [i \in DOMAIN r |-> r[i].id]
Pending == IF inFlight = NoCommand THEN <<>> ELSE <<inFlight>>
Asked == Ids(replies) \o (Pending \o queue)
New(c) == \A i \in DOMAIN Asked : Asked[i] # c

-----------------------------------------------------------------------------
(* Calls into the engine *)

Submit(c) ==
    /\ New(c)
    /\ ~resetDue
    /\ IF state = "Off"
         THEN /\ replies' = Append(replies, NotSent(c))
              /\ UNCHANGED <<state, nonce, readBack, inFlight, payloadSent, info, queue, tx>>
         ELSE /\ IF state = "Ready" /\ inFlight = NoCommand
                   THEN Pump(Append(queue, c))
                   ELSE /\ queue' = Append(queue, c)
                        /\ UNCHANGED <<state, nonce, readBack, inFlight, payloadSent, info, tx>>
              /\ UNCHANGED replies
    /\ UNCHANGED <<resetDue, rx, modemVars, faults>>

\* Nothing more can arrive unless we write something.
Silent == tx = <<>> /\ rx = <<>>

\* on_tick at a deadline. A deadline that passes with the answer still under
\* way is a fault of its own.
Deadline ==
    /\ IF Silent THEN UNCHANGED faults ELSE Suffer("late")
    /\ UNCHANGED <<resetDue, rx, modemVars>>

\* Mutant: a command at its prompt never times out.
CommandTimeoutNotAtPrompt ==
    /\ state = "Ready" /\ inFlight \notin Payloads \cup {NoCommand}
    /\ Unsync
    /\ Deadline

CommandTimeout ==
    /\ state = "Ready" /\ inFlight # NoCommand
    /\ Unsync
    /\ Deadline

\* Mutant: no new probe unless a command waits for the link
ProbeTimeoutOnDemand ==
    /\ state = "Syncing" /\ queue # <<>>
    /\ StartProbe(<<>>)
    /\ UNCHANGED <<inFlight, payloadSent, info, queue, replies>>
    /\ Deadline

ProbeTimeout ==
    /\ state = "Syncing"
    /\ StartProbe(<<>>)
    /\ UNCHANGED <<inFlight, payloadSent, info, queue, replies>>
    /\ Deadline

\* reset(), called by the HAL for the *ATREADY it was handed
Reset ==
    /\ resetDue
    /\ resetDue' = FALSE
    /\ Unsync
    /\ UNCHANGED <<rx, modemVars, faults>>

\* power_off() but for its replies
SwitchOff ==
    /\ power # "Off" /\ ~pulse /\ ~resetDue
    /\ Suffer("power")
    /\ pulse' = TRUE /\ state' = "Off" /\ queue' = <<>> /\ readBack' = FALSE
    /\ Idle
    /\ UNCHANGED <<nonce, resetDue, tx, rx, power, input, garbled, executed, texts>>

\* Mutants of power_off: the command in flight counts as not sent; the queued
\* commands are answered first; they are dropped.
PowerOffForgets ==
    /\ SwitchOff
    /\ LET all == (IF inFlight = NoCommand THEN <<>> ELSE <<inFlight>>) \o queue
       IN replies' = replies \o [i \in DOMAIN all |-> NotSent(all[i])]

PowerOffSwapped ==
    /\ SwitchOff
    /\ replies' = replies
                  \o [i \in DOMAIN queue |-> NotSent(queue[i])]
                  \o (IF inFlight = NoCommand THEN <<>>
                       ELSE <<Reply(inFlight, "Unknown", NoCommand, info)>>)

PowerOffDrops ==
    /\ SwitchOff
    /\ replies' = IF inFlight = NoCommand THEN replies
                  ELSE Append(replies, Reply(inFlight, "Unknown", NoCommand, info))

\* power_off() with cancel_queued(): nothing is left waiting
PowerOff ==
    /\ SwitchOff
    /\ replies' = replies
                  \o (IF inFlight = NoCommand THEN <<>>
                       ELSE <<Reply(inFlight, "Unknown", NoCommand, info)>>)
                  \o [i \in DOMAIN queue |-> NotSent(queue[i])]

\* HAL power_on(): reset() on an engine that is off, at the end of the PWRKEY
\* pulse that starts the modem's boot
PowerOn ==
    /\ power = "Off" /\ ~resetDue
    /\ Unsync
    /\ power' = "Boot"
    /\ UNCHANGED <<resetDue, rx, pulse, input, garbled, executed, texts, faults>>

-----------------------------------------------------------------------------
(* on_rx, one received item at a time *)

Take(t) ==
    /\ rx # <<>> /\ Head(rx).t = t
    /\ rx' = Tail(rx)
    /\ UNCHANGED <<modemVars, faults>>

\* Mutant: the read-back of any probe will do.
OnAnyReadBack ==
    /\ Take("ReadBack")
    /\ readBack' = (readBack \/ state = "Syncing")
    /\ UNCHANGED <<state, nonce, inFlight, payloadSent, info, queue, replies, resetDue, tx>>

OnReadBack ==
    /\ Take("ReadBack")
    /\ readBack' = (readBack \/ (state = "Syncing" /\ Head(rx).n = nonce))
    /\ UNCHANGED <<state, nonce, inFlight, payloadSent, info, queue, replies, resetDue, tx>>

OnFinal ==
    /\ Take("Final")
    /\ \/ /\ state = "Off" \/ (state = "Syncing" /\ ~readBack)
          /\ UNCHANGED <<engineVars, tx>>
       \/ /\ state = "Syncing" /\ readBack /\ Head(rx).ok
          /\ Pump(queue)
          /\ UNCHANGED replies
       \/ /\ state = "Syncing" /\ readBack /\ ~Head(rx).ok
          /\ StartProbe(<<>>)
          /\ UNCHANGED <<inFlight, payloadSent, info, queue, replies>>
       \/ /\ state = "Ready" /\ inFlight = NoCommand
          /\ Unsync
       \/ /\ state = "Ready" /\ inFlight # NoCommand
          /\ Settle(IF Head(rx).ok THEN "Ok" ELSE "Failed", Head(rx).of)
          /\ Pump(queue)
    /\ UNCHANGED resetDue

\* An info line of the kind the command in flight declares: collected,
\* whoever it was really meant for. Otherwise it surfaces as a URC.
OnInfo ==
    /\ Take("Info")
    /\ info' = IF state = "Ready" /\ inFlight # NoCommand THEN info \cup {Head(rx).of} ELSE info
    /\ UNCHANGED <<state, nonce, readBack, inFlight, payloadSent, queue, replies, resetDue, tx>>

OnPrompt ==
    /\ Take("Prompt")
    /\ IF state = "Ready" /\ inFlight \in Payloads /\ ~payloadSent
         THEN payloadSent' = TRUE /\ tx' = Append(tx, Payload(inFlight))
         ELSE tx' = Append(tx, Esc) /\ UNCHANGED payloadSent
    /\ UNCHANGED <<state, nonce, readBack, inFlight, info, queue, replies, resetDue>>

\* *ATREADY is a URC to the engine; the HAL answers it with reset().
OnAtReady ==
    /\ Take("AtReady")
    /\ resetDue' = TRUE
    /\ UNCHANGED <<engineVars, tx>>

\* Mutant: lost bytes are only logged.
OnLostIgnored ==
    /\ Take("Lost")
    /\ UNCHANGED <<engineVars, resetDue, tx>>

OnLost ==
    /\ Take("Lost")
    /\ \/ /\ state = "Off" \/ (state = "Ready" /\ inFlight = NoCommand)
          /\ UNCHANGED <<engineVars, tx>>
       \/ /\ state = "Ready" /\ inFlight # NoCommand
          /\ Unsync
       \/ /\ state = "Syncing"
          /\ StartProbe(<<>>)
          /\ UNCHANGED <<inFlight, payloadSent, info, queue, replies>>
    /\ UNCHANGED resetDue

Receive == OnReadBack \/ OnFinal \/ OnInfo \/ OnPrompt \/ OnAtReady \/ OnLost

-----------------------------------------------------------------------------
(* The modem (external): executes what it is sent strictly in order        *)

\* `items` with one contiguous, non-empty part replaced by a loss marker
Damaged(items) ==
    {SubSeq(items, 1, cut[1]) \o <<Lost>> \o SubSeq(items, cut[2], Len(items)) :
        cut \in {p \in (0 .. Len(items)) \X (2 .. Len(items) + 1) : p[1] + 2 <= p[2]}}

Emit(items) ==
    \/ rx' = rx \o items /\ UNCHANGED faults
    \/ items # <<>> /\ Suffer("loss") /\ \E d \in Damaged(items) : rx' = rx \o d

Consume(t) ==
    /\ power = "On" /\ tx # <<>> /\ Head(tx).t = t
    /\ tx' = Tail(tx)
    /\ UNCHANGED <<engineVars, resetDue, power, pulse>>

\* While it waits for a payload every other byte is message text.
Typed == 
    /\ input # NoCommand
    /\ UNCHANGED <<input, garbled, executed, texts, rx, faults>>

Execute == LET c == Head(tx).of IN
    /\ Consume("Cmd")
    /\ \/ Typed
       \/ /\ input = NoCommand /\ garbled
          /\ garbled' = FALSE
          /\ executed' = [executed EXCEPT ![c] = "Failed"]
          /\ Emit(<<Final(c, FALSE)>>)
          /\ UNCHANGED <<input, texts>>
       \/ /\ input = NoCommand /\ ~garbled
          /\ \/ /\ c \notin Payloads
                /\ executed' = [executed EXCEPT ![c] = "Ok"]
                /\ Emit(<<Info(c), Final(c, TRUE)>>)
                /\ UNCHANGED input
             \/ /\ executed' = [executed EXCEPT ![c] = "Failed"]
                /\ Emit(<<Final(c, FALSE)>>)
                /\ UNCHANGED input
             \/ /\ c \in Payloads
                /\ input' = c
                /\ Emit(<<Prompt(c)>>)
                /\ UNCHANGED executed
          /\ UNCHANGED <<garbled, texts>>

AnswerProbe == LET n == Head(tx).n IN
    /\ Consume("Probe")
    /\ \/ Typed
       \/ /\ input = NoCommand
          /\ garbled' = FALSE
          /\ Emit(IF garbled THEN <<Final(NoCommand, FALSE)>>
                             ELSE <<ReadBack(n), Final(NoCommand, TRUE)>>)
          /\ UNCHANGED <<input, executed, texts>>

TakePayload == LET c == Head(tx).of IN
    /\ Consume("Payload")
    /\ \/ /\ input = NoCommand
          /\ garbled' = TRUE
          /\ UNCHANGED <<input, executed, texts, rx, faults>>
       \/ /\ input # NoCommand
          /\ input' = NoCommand
          /\ executed' = [executed EXCEPT ![input] = "Ok"]
          /\ texts' = texts \cup {<<input, c>>}
          /\ Emit(<<Info(input), Final(input, TRUE)>>)
          /\ UNCHANGED garbled

TakeEsc ==
    /\ Consume("Esc")
    /\ input' = NoCommand
    /\ IF input = NoCommand
         THEN UNCHANGED <<rx, faults>>
         ELSE Emit(<<Final(NoCommand, TRUE)>>)
    /\ UNCHANGED <<garbled, executed, texts>>

Modem == Execute \/ AnswerProbe \/ TakePayload \/ TakeEsc

\* Not On: the modem ignores what it is sent.
Ignore ==
    /\ power # "On" /\ tx # <<>>
    /\ tx' = Tail(tx)
    /\ UNCHANGED <<engineVars, resetDue, rx, modemVars, faults>>

\* Transport::write failed: an unknown prefix went out and nobody is told.
WriteFails ==
    /\ power = "On" /\ tx # <<>>
    /\ Suffer("write")
    /\ tx' = Tail(tx)
    /\ garbled' \in IF input = NoCommand /\ Head(tx).t # "Esc" THEN BOOLEAN ELSE {garbled}
    /\ UNCHANGED <<engineVars, resetDue, rx, power, pulse, input, executed, texts>>

Booted ==
    /\ power = "Boot"
    /\ power' = "On"
    /\ Emit(<<AtReady>>)
    /\ UNCHANGED <<engineVars, resetDue, tx, pulse, input, garbled, executed, texts>>

Forget == input' = NoCommand /\ garbled' = FALSE /\ tx' = <<>>

\* The modem restarts by itself: what it was doing is gone.
Restart ==
    /\ power = "On"
    /\ Suffer("restart")
    /\ power' = "Boot"
    /\ Forget
    /\ UNCHANGED <<engineVars, resetDue, rx, pulse, executed, texts>>

\* The PWRKEY off-pulse that follows power_off() takes effect.
ShutDown ==
    /\ pulse
    /\ pulse' = FALSE
    /\ power' = "Off"
    /\ Forget
    /\ UNCHANGED <<engineVars, resetDue, rx, executed, texts, faults>>

-----------------------------------------------------------------------------
Init ==
    /\ state = "Off"
    /\ nonce = 0
    /\ readBack = FALSE
    /\ inFlight = NoCommand
    /\ payloadSent = FALSE
    /\ info = {}
    /\ queue = <<>>
    /\ replies = <<>>
    /\ resetDue = FALSE
    /\ tx = <<>>
    /\ rx = <<>>
    /\ power = "Off"
    /\ pulse = FALSE
    /\ input = NoCommand
    /\ garbled = FALSE
    /\ executed = [c \in Commands |-> "No"]
    /\ texts = {}
    /\ faults = NoFaults

Calls == (\E c \in Commands : Submit(c)) \/ CommandTimeout \/ ProbeTimeout \/ Reset \/ PowerOff \/ PowerOn
External == ~resetDue /\ (Modem \/ Ignore \/ WriteFails \/ Booted \/ Restart \/ ShutDown)
Next == Calls \/ Receive \/ External

Spec == Init /\ [][Next]_vars

(* The driver loop (driver.rs) never stops reading, never waits past the
   engine's deadline and hands every *ATREADY to the HAL at once; the modem
   boots and answers. A deadline must pass only when nothing can come. *)
Expire == Silent /\ (CommandTimeout \/ ProbeTimeout)
Fairness ==
    /\ WF_vars(Receive)
    /\ WF_vars(Expire)
    /\ WF_vars(Reset)
    /\ WF_vars(~resetDue /\ (Modem \/ Ignore))
    /\ WF_vars(~resetDue /\ (Booted \/ ShutDown))

FairSpec == Spec /\ Fairness
-----------------------------------------------------------------------------
(* Properties *)

Replies == [id : Commands, outcome : Outcomes, source : Sources, info : SUBSET Sources]

EngineType ==
    /\ state \in {"Off", "Syncing", "Ready"}
    /\ nonce \in 0 .. PROBE_NONCES
    /\ readBack \in BOOLEAN
    /\ inFlight \in Sources
    /\ payloadSent \in BOOLEAN
    /\ info \subseteq Sources
    /\ queue \in Seq(Commands)
    /\ replies \in Seq(Replies)

ModemType ==
    /\ power \in {"Off", "Boot", "On"}
    /\ pulse \in BOOLEAN
    /\ input \in Payloads \cup {NoCommand}
    /\ garbled \in BOOLEAN
    /\ executed \in [Commands -> {"No", "Ok", "Failed"}]
    /\ texts \subseteq Payloads \X Commands

TypeOK ==
    /\ EngineType
    /\ ModemType
    /\ resetDue \in BOOLEAN
    /\ tx \in Seq(Written)
    /\ rx \in Seq(Received)
    /\ faults \in Allowed

\* "Every submitted command produces exactly one Output::Reply", "At most one
\* command is in flight" (link.rs:35-36): a command is in one place only, among
\* the replies, in flight or in the queue; none is in flight or waiting in an
\* engine that is off, and none waits behind an idle link.
Once == \A i, j \in DOMAIN Asked : Asked[i] = Asked[j] => i = j
Placed ==
    /\ inFlight # NoCommand => state = "Ready"
    /\ queue # <<>> => state = "Syncing" \/ inFlight # NoCommand
OneReply == Once /\ Placed

\* Replies come in the order of submission and no command is dropped: what was
\* asked (answered, in flight, waiting, in that order) only grows at its end.
\* A mix of resets, timeouts and a power-off could break it: power_off answers
\* the queue behind the command in flight (link.rs:319-326).
InOrder == [][Asked' = Asked \/ \E c \in Commands : New(c) /\ Asked' = Append(Asked, c)]_vars

\* Is x something the modem will answer, or an answer?
Concerns(x) ==
    IF x.t \in {"Cmd", "Payload", "Info", "Final", "Prompt"} THEN x.of
    ELSE NoCommand
Stale(x) ==
    \/ x.t \in {"Probe", "ReadBack"}
    \/ x.t \in {"Cmd", "Payload", "Info", "Final", "Prompt"} /\ x.of # inFlight

\* "The link is only synced once the latest probe has been answered ...
\* nothing stale is left in flight" (link.rs:18-26): while the link is Ready
\* neither wire holds anything of another command or of a probe, the modem
\* does not wait for another command's payload.
Drained == state = "Ready" =>
    /\ \A i \in DOMAIN tx : ~Stale(tx[i])
    /\ \A i \in DOMAIN rx : ~Stale(rx[i])
    /\ input \in {inFlight, NoCommand}

\* The number of the next probe is on neither wire ("recycled 1-99",
\* link.rs:50-53): what every guarantee on Ready rests on.
NoncesFresh ==
    /\ \A i \in DOMAIN tx : ~(tx[i].t = "Probe" /\ tx[i].n = NextNonce)
    /\ \A i \in DOMAIN rx : ~(rx[i].t = "ReadBack" /\ rx[i].n = NextNonce)

\* The probes that faults f can cause before an answer is read: one each, two
\* for a power cycle, and the two of the first power-up. It is enough for
\* NoncesFresh that there are fewer than numbers.
Spent(f) == f["late"] + f["loss"] + f["restart"] + 2 * f["power"] + 2
FewFaults == \A f \in Allowed : Spent(f) <= PROBE_NONCES - 2

\* "a reply is never credited" with another command's final code or info lines
\* (link.rs:39-40): Ok and Failed replies carry the final code of this very
\* command, and Ok carries all of its info lines and no other's.
OwnReply == \A i \in DOMAIN replies : LET r == replies[i] IN
    /\ r.outcome \in {"Ok", "Failed"} => r.source = r.id
    /\ r.outcome = "Ok" => r.info = {r.id}

\* The payload goes to the prompt of its own command (link.rs:28-31): no
\* message leaves the modem with another text, and no command or probe is
\* written while the modem takes what it reads for message text.
OwnText ==
    /\ \A t \in texts : t[1] = t[2]
    /\ input # NoCommand /\ tx # <<>> /\ ~pulse /\ faults["write"] = 0 => Head(tx).t \in {"Payload", "Esc"}

\* Nothing of one command is ever taken for another's.
OwnAnswer == OwnReply /\ OwnText

\* What the outcomes promise the layer above (link.rs:134-144): Ok and Failed
\* tell what the modem did; NotSent means it never saw the command and never
\* will.
Truthful == \A i \in DOMAIN replies : LET r == replies[i] IN
    /\ r.outcome \in {"Ok", "Failed"} => executed[r.id] = r.outcome
    /\ r.outcome = "NotSent" =>
          executed[r.id] = "No" /\ \A k \in DOMAIN tx : Concerns(tx[k]) # r.id

\* What can keep the link down: a modem that is off, and one that waits for a
\* message text after a failed write (the engine does not know of it).
Stuck == <>[](power = "Off" \/ (input # NoCommand /\ faults["write"] > 0))

\* Otherwise, whatever happened, a link that lost sync becomes trustworthy again
\* (link.rs:18-28),
Resyncs == []<>(state # "Syncing") \/ Stuck

\* and every submitted command is answered in the end (link.rs:35).
Answered == \A c \in Commands :
    (~New(c) ~> \E i \in DOMAIN replies : replies[i].id = c) \/ Stuck

\* After a failed write, too, "whatever was being sent will time out and the
\* link resyncs" (driver.rs:14-15).
WriteErrorHeals == (state = "Syncing") ~> (state # "Syncing" \/ power = "Off")

-----------------------------------------------------------------------------
(* The engine, the wires and the modem together keep the promise. *)

Promise == INSTANCE LinkPromise WITH
    asked <- Asked,
    answers <- [i \in DOMAIN replies |-> replies[i].outcome],
    executed <- executed

\* The engine implements LinkPromise: answers once each, in submission order,
\* true, and commands run one at a time (link.rs:34-45).
KeepsPromise == Promise!Spec
=============================================================================
