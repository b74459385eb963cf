--------------------------- MODULE ModemTransport ---------------------------
(***************************************************************************)
(* The byte stream from the modem (L0): the UART with its driver, the      *)
(* reader thread (device/src/modem_transport.rs), the queue it fills       *)
(* (RxQueue, behind a lock), and its consumer, which cuts the stream into  *)
(* lines (core/src/modem/at.rs, and on_lost of link.rs).                   *)
(*                                                                         *)
(* The modem sends Lines lines of Width bytes and a terminator; a byte is  *)
(* <<line, place>>. Left out: the prompt, text decoding, the write side,   *)
(* and how long the consumer waits.                                        *)
(***************************************************************************)
EXTENDS Naturals, FiniteSets, Sequences, SequencesExt

CONSTANTS
    Lines, Width,
    Capacity,           \* room in the queue
    FIFO, RING,         \* room in the UART and in the driver's buffer
    EVENTS,             \* room for the driver's events
    BUF,                \* the reader's buffer
    MaxNoise, MaxFailures

ASSUME StreamAssumption == Lines \in Nat \ {0} /\ Width \in Nat \ {0}
ASSUME CapacityAssumption == Capacity \in Nat \ {0}
ASSUME RoomAssumption == {FIFO, RING, EVENTS, BUF} \subseteq Nat \ {0}
ASSUME FaultAssumption == MaxNoise \in Nat /\ MaxFailures \in Nat

-----------------------------------------------------------------------------
(* The bounded queue of received bytes with loss markers                   *)
(* (core/src/modem/transport.rs): operators on the struct RxQueue. A       *)
(* marker is the stream offset before which bytes are missing.             *)

\* Among bytes <<line, place>>, which count from one
Lost == <<0, 0>>
NoLoss == 0

\* last_loss is an Option: offsets are kept one up, with 0 for None.
NewQueue == [buf |-> <<>>, head |-> 0, losses |-> <<>>, lastLoss |-> NoLoss]

QueueTail(q) == q.head + Len(q.buf)

\* Mutant: every gap gets a marker, wherever the last one is.
MarkLostAgain(q) ==
    [q EXCEPT !.losses = Append(@, QueueTail(q)), !.lastLoss = QueueTail(q) + 1]

MarkLost(q) ==
    IF q.lastLoss = QueueTail(q) + 1 THEN q
    ELSE [q EXCEPT !.losses = Append(@, QueueTail(q)), !.lastLoss = QueueTail(q) + 1]

\* As much of a sequence as fits, and the rest
Fit(s, room) == SubSeq(s, 1, IF room < Len(s) THEN room ELSE Len(s))
NoFit(s, room) == SubSeq(s, Len(Fit(s, room)) + 1, Len(s))

\* What fits is taken; a loss is marked behind it if that is not all.
Push(q, bytes) ==
    LET room == Capacity - Len(q.buf)
        taken == [q EXCEPT !.buf = @ \o Fit(bytes, room)]
    IN IF Len(bytes) > room THEN MarkLost(taken) ELSE taken

IsEmpty(q) == q.buf = <<>> /\ q.losses = <<>>
AtLoss(q) == q.losses # <<>> /\ Head(q.losses) = q.head

\* Bytes up to the next marker
Run(q) ==
    IF q.losses = <<>> THEN q.buf ELSE SubSeq(q.buf, 1, Head(q.losses) - q.head)

\* pop: the marker at the front, else all bytes up to the next.
Pop(q) ==
    IF AtLoss(q) THEN [item |-> <<Lost>>, rest |-> [q EXCEPT !.losses = Tail(@)]]
    ELSE [item |-> Run(q),
          rest |-> [q EXCEPT !.head = @ + Len(Run(q)), !.buf = SubSeq(@, Len(Run(q)) + 1, Len(@))]]

-----------------------------------------------------------------------------
VARIABLES
    next,               \* the byte the modem sends next
    fifo, ring, events, \* UART, driver
    unannounced,        \* an event of a loss was dropped by the driver
    reader,             \* the reader thread: where it is, and lost
    queue,              \* the pipe
    pushed,             \* what was ever put into it, gaps as one Lost each
    read,               \* what was ever taken out of it
    parser,             \* the line the consumer has begun
    told,               \* lines and losses told to the layer above
    noise, failures

vars == <<next, fifo, ring, events, unannounced, reader, queue, pushed, read, parser, told, noise, failures>>

\* Bytes of a line: Width characters and a terminator
Terminator == Width + 1
IsEnd(byte) == byte[2] = Terminator
After(byte) == IF IsEnd(byte) THEN <<byte[1] + 1, 1>> ELSE <<byte[1], byte[2] + 1>>

Init ==
    /\ next = <<1, 1>>
    /\ fifo = <<>> /\ ring = <<>> /\ events = <<>> /\ unannounced = FALSE
    /\ reader = [at |-> "Wait", lost |-> FALSE]
    /\ queue = NewQueue /\ pushed = <<>> /\ read = <<>>
    /\ parser = <<>> /\ told = <<>>
    /\ noise = 0 /\ failures = 0

-----------------------------------------------------------------------------
(* The UART and its driver. An event for which there is no room is dropped. *)

Post(event) ==
    IF Len(events) < EVENTS THEN events' = Append(events, event) /\ UNCHANGED unannounced
    ELSE events' = events /\ unannounced' = (unannounced \/ event # "Data")

\* A byte comes in; a full FIFO overflows, and is reset.
Arrive ==
    /\ next[1] <= Lines
    /\ next' = After(next)
    /\ IF Len(fifo) < FIFO THEN fifo' = Append(fifo, next) /\ UNCHANGED <<events, unannounced>>
       ELSE fifo' = <<>> /\ Post("RxFifoOverflow")
    /\ UNCHANGED <<ring, reader, queue, pushed, read, parser, told, noise, failures>>

\* A byte comes in damaged, and is not taken.
Noise ==
    /\ next[1] <= Lines /\ noise < MaxNoise /\ noise' = noise + 1
    /\ next' = After(next)
    /\ \E event \in {"FrameError", "ParityError"} : Post(event)
    /\ UNCHANGED <<fifo, ring, reader, queue, pushed, read, parser, told, failures>>

\* The interrupt moves what fits into the driver's buffer.
Interrupt ==
    /\ fifo # <<>> /\ Len(ring) < RING
    /\ LET room == RING - Len(ring)
       IN ring' = ring \o Fit(fifo, room) /\ fifo' = NoFit(fifo, room)
    /\ Post("Data")
    /\ UNCHANGED <<next, reader, queue, pushed, read, parser, told, noise, failures>>

-----------------------------------------------------------------------------
(* reader_loop *)

is_loss(event) == event \in {"RxFifoOverflow", "FrameError", "ParityError"}

\* Mutant: the last event decides.
TakenLast(lost, event) == is_loss(event)

Taken(lost, event) == lost \/ is_loss(event)

\* Take an event; the wait for the first may pass without one.
TakeEvent ==
    /\ reader.at \in {"Wait", "Events"}
    /\ \/ /\ events # <<>> /\ events' = Tail(events)
          /\ reader' = [at |-> "Events", lost |-> Taken(reader.lost, Head(events))]
       \/ /\ events = <<>> /\ UNCHANGED events
          /\ reader' = [reader EXCEPT !.at = "Drain"]
    /\ UNCHANGED <<next, fifo, ring, unannounced, queue, pushed, read, parser, told, noise, failures>>

\* The pipe's stream with a gap in it: one marker, however often it is told
WithGap(stream) == IF stream # <<>> /\ stream[Len(stream)] = Lost THEN stream ELSE Append(stream, Lost)

\* What is buffered goes into the pipe, a buffer at a time.
DrainSome ==
    /\ reader.at = "Drain" /\ ring # <<>>
    /\ ring' = NoFit(ring, BUF)
    /\ LET bytes == Fit(ring, BUF)
           fit == Fit(bytes, Capacity - Len(queue.buf))
       IN /\ queue' = Push(queue, bytes)
          /\ pushed' = IF fit = bytes THEN pushed \o bytes ELSE WithGap(pushed \o fit)
    /\ UNCHANGED <<next, fifo, events, unannounced, reader, read, parser, told, noise, failures>>

\* count or read fails.
DrainFails ==
    /\ reader.at = "Drain" /\ failures < MaxFailures /\ failures' = failures + 1
    /\ reader' = [at |-> "Mark", lost |-> TRUE]
    /\ UNCHANGED <<next, fifo, ring, events, unannounced, queue, pushed, read, parser, told, noise>>

Drained ==
    /\ reader.at = "Drain" /\ ring = <<>>
    /\ reader' = [reader EXCEPT !.at = "Mark"]
    /\ UNCHANGED <<next, fifo, ring, events, unannounced, queue, pushed, read, parser, told, noise, failures>>

Mark ==
    /\ reader.at = "Mark"
    /\ queue' = IF reader.lost THEN MarkLost(queue) ELSE queue
    /\ pushed' = IF reader.lost THEN WithGap(pushed) ELSE pushed
    /\ reader' = [at |-> "Wait", lost |-> FALSE]
    /\ UNCHANGED <<next, fifo, ring, events, unannounced, read, parser, told, noise, failures>>

-----------------------------------------------------------------------------
(* The consumer *)

\* AtParser::feed, one byte
Feed(s, byte) ==
    CASE ~IsEnd(byte) -> [s EXCEPT !.parser = Append(@, byte)]
      [] IsEnd(byte) /\ s.parser # <<>> -> [parser |-> <<>>, told |-> Append(s.told, s.parser)]
      [] IsEnd(byte) /\ s.parser = <<>> -> s

\* Mutant: the line begun is kept.
OnLostKeepsLine(s) == [s EXCEPT !.told = Append(@, <<Lost>>)]

\* on_lost: the line begun is dropped.
OnLost(s) == [parser |-> <<>>, told |-> Append(s.told, <<Lost>>)]

OnRx(s, item) == IF item = <<Lost>> THEN OnLost(s) ELSE FoldLeft(Feed, s, item)

Read ==
    /\ ~IsEmpty(queue)
    /\ LET popped == Pop(queue)
           after == OnRx([parser |-> parser, told |-> told], popped.item)
       IN /\ queue' = popped.rest
          /\ read' = read \o popped.item
          /\ parser' = after.parser /\ told' = after.told
    /\ UNCHANGED <<next, fifo, ring, events, unannounced, reader, pushed, noise, failures>>

-----------------------------------------------------------------------------
Next ==
    \/ Arrive \/ Noise \/ Interrupt
    \/ TakeEvent \/ DrainSome \/ DrainFails \/ Drained \/ Mark
    \/ Read

\* The hardware, the reader thread and the consumer go on.
Fairness ==
    /\ WF_vars(Arrive) /\ WF_vars(Interrupt) /\ WF_vars(Read)
    /\ WF_vars(TakeEvent) /\ WF_vars(DrainSome) /\ WF_vars(Drained) /\ WF_vars(Mark)

Spec == Init /\ [][Next]_vars /\ Fairness

-----------------------------------------------------------------------------
(* Properties *)

Place(byte) == (byte[1] - 1) * Terminator + byte[2]

\* What follows the first `from` items of the stream is what the queue still
\* holds: each byte behind the markers before it, each marker in front of the
\* byte at its offset
Holds(q, stream, from) ==
    /\ Len(stream) = from + Len(q.buf) + Len(q.losses)
    /\ \A j \in DOMAIN q.losses : stream[from + (q.losses[j] - q.head) + j] = Lost
    /\ \A i \in DOMAIN q.buf, n \in 0 .. Len(q.losses) :
          /\ n > 0 => q.losses[n] < q.head + i
          /\ n < Len(q.losses) => q.losses[n + 1] >= q.head + i
          => stream[from + i + n] = q.buf[i]

\* Every byte comes behind those sent before it.
InOrder(stream) ==
    \A i, j \in DOMAIN stream :
        i < j /\ stream[i] # Lost /\ stream[j] # Lost => Place(stream[i]) < Place(stream[j])

\* The queue passes on what was put in, with one marker exactly where bytes
\* were dropped or a loss was noted (transport.rs:67-70); and no byte is
\* repeated or overtaken on its way from the modem.
StreamTrue ==
    /\ IsPrefix(read, pushed) /\ Holds(queue, pushed, Len(read))
    /\ InOrder(pushed \o (ring \o fifo))

\* A gap between two bytes that were read, or behind the last
MissingAfter(i) ==
    LET later == {j \in DOMAIN read : j > i /\ read[j] # Lost}
        here == IF i = 0 THEN 0 ELSE Place(read[i])
    IN IF later = {} THEN here < Place(<<Lines, Terminator>>) ELSE here + 1 < Place(read[Min(later)])
Gaps == {i \in 0 .. Len(read) : (i = 0 \/ read[i] # Lost) /\ MissingAfter(i)}

\* Every line told is a piece of what was read: none is put together across
\* a marker.
Uncut ==
    \A line \in ToSet(told) :
        \E i \in 0 .. Len(read) - Len(line) : SubSeq(read, i + 1, i + Len(line)) = line

\* No line is ever told across a gap that was announced (what was told stays
\* told), and every gap is announced in the end: behind it, however late, or no
\* further ahead of it than the UART and its driver hold bytes
\* (transport.rs:26-28), unless the driver had no room for the event.
Announced ==
    <>[](/\ Uncut
         /\ \/ unannounced
            \/ \A i \in Gaps : \E j \in DOMAIN read : read[j] = Lost /\ j + FIFO + RING >= i)
=============================================================================
