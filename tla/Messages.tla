------------------------------ MODULE Messages ------------------------------
(***************************************************************************)
(* Text messages and calls as lines: a text is divided and encoded by its  *)
(* sender, its parts arrive in any order on the modem's SIM, replies and   *)
(* URCs come line by line, and what the lines say is parsed, decoded and   *)
(* joined into texts again.                                                *)
(*                                                                         *)
(* The exchange of commands itself (losses, timeouts, resyncs) is in       *)
(* AtLink, when messages are saved and deleted in SmsStore. Here the link  *)
(* is in sync and one request is out at a time; what can go wrong is a     *)
(* line damaged unnoticed, a URC in the middle of a reply, and the device  *)
(* restarting. The modem's replies are those of the simulator (sim.rs).    *)
(***************************************************************************)
EXTENDS Request, SmsPdu

CONSTANTS
    OwnNumber,      \* the device's number: texts from it are sent with AT+CMGS
    SMS_SLOTS,
    Scenarios       \* of each: the texts (from, second, text, reference), other PDUs the network
                    \* has, what the device asks besides what its messages need, and how many
                    \* repeats, damaged lines, restarts and changes of the call there may be

VARIABLES
    parts,          \* of each text: its parts as sent and as received
    written,        \* the texts that were sent
    unsent,         \* those of the device's own texts not handed to the modem
    network,        \* DELIVERs on their way
    modem,          \* stored messages, the call, the gain
    reply,          \* the request out, the lines to come, those collected
    saved, inbox,   \* PDUs kept on the device, and the texts they are
    offered, listed,  \* PDUs offered and still on the SIM, what the last listing showed
    answer,         \* the last request answered: what was meant, what was understood
    said, heard,    \* the last URCs of the modem, and as they were understood
    budget          \* what the scenario has left

vars == <<parts, written, unsent, network, modem, reply, saved, inbox, offered, listed, answer, said, heard, budget>>
senders == <<parts, written, unsent, network>>
device == <<saved, inbox, offered, listed, answer>>
Quiet == said' = <<>> /\ heard' = <<>>

Idle == [t |-> "Idle"]
Spend(what) == budget[what] > 0 /\ budget' = [budget EXCEPT ![what] = @ - 1]

-----------------------------------------------------------------------------
(* The senders and the network *)

\* A SUBMIT as the receiver gets it: the sender's address, the time at the
\* centre, the same coding and user data.
Forward(pdu, from, second) ==
    LET pid == AddressEnd(pdu, 4)
        named == IF from.t = "Name" THEN encode(from.text) ELSE <<>>
        oa == IF from.t = "Number" THEN encode_address(from).octets
              ELSE <<Ceil(7 * Len(named), 4), 208>> \o pack(named, 0)
    IN  <<0, IF pdu[2] = 81 THEN 68 ELSE 4>> \o oa
        \o <<0, pdu[pid + 1], 98, 16, 32, 48, 64, 16 * second, 64>> \o SubSeq(pdu, pid + 3, Len(pdu))

\* What a text becomes at its sender and at the receiver.
Parts(text) ==
    LET submits == encode_submit(Number(TRUE, <<4, 4>>), text.text, text.reference)
    IN  [sent |-> submits,
         received |-> [i \in DOMAIN submits |-> Forward(submits[i], text.from, text.second)]]

Init ==
    /\ budget \in Scenarios
    /\ parts = [text \in budget.texts |-> Parts(text)]
    /\ written = {} /\ unsent = <<>> /\ network = budget.others
    /\ modem = [messages |-> <<>>, call |-> "None", gain |-> 4]
    /\ reply = Idle /\ saved = <<>> /\ inbox = <<>> /\ offered = {} /\ listed = {} /\ answer = Idle
    /\ said = <<>> /\ heard = <<>>

Forwarded(text) == {parts[text].received[i] : i \in DOMAIN parts[text].received}
Arrived(text) == Forwarded(text) \subseteq {saved[i] : i \in DOMAIN saved}

\* A sender takes a reference again only for another text of as many parts
\* when its last one has arrived.
Write(text) ==
    /\ text \in budget.texts \ written
    /\ \A old \in written :
            old.from = text.from /\ old.reference = text.reference /\ Len(parts[old].sent) = Len(parts[text].sent)
            => Arrived(old)
    /\ written' = written \cup {text}
    /\ IF text.from = OwnNumber
       THEN unsent' = unsent \o parts[text].received /\ UNCHANGED network
       ELSE network' = network \cup Forwarded(text) /\ UNCHANGED unsent
    /\ Quiet /\ UNCHANGED <<parts, modem, reply, device, budget>>

-----------------------------------------------------------------------------
(* The modem's lines *)

CodeOf(status) == CHOOSE n \in 0..3 : STATUS[n + 1] = status
List(words) == FlattenSeq([i \in DOMAIN words |-> IF i = 1 THEN words[i] ELSE <<Comma>> \o words[i]])

ListHeader(m) ==
    Line("+CMGL", List(<< <<Numeral(m.index)>>, <<Numeral(CodeOf(m.status))>>, <<>>, <<Numeral(tpdu_len(m.pdu))>> >>))
ReadHeader(m) ==
    Line("+CMGR", List(<< <<Numeral(CodeOf(m.status))>>, <<Quote, Quote>>, <<Numeral(tpdu_len(m.pdu))>> >>))
UsageLine(used) ==
    LET role == <<Quoted("SM"), <<Numeral(used)>>, <<Numeral(SMS_SLOTS)>> >>
    IN  Line("+CPMS", List(role \o role \o role))
clcc_line(state) ==
    Line("+CLCC", List(<< <<"1">>, <<"1">>, <<Numeral(CHOOSE n \in 0..6 : STATES[n + 1] = state)>>,
                          <<"0">>, <<"0">>, Quoted("Caller"), <<"129">>, <<Quote, Quote>> >>))

ATI == [i \in 1..5 |-> Line(<<"Manufacturer:", "Model:", "Revision:", "IMEI:", "+GCAP:">>[i], <<"...">>)]

Slot(index) == CHOOSE m \in {modem.messages[i] : i \in DOMAIN modem.messages} : m.index = index

\* What the modem answers a request: the lines before OK.
InfoLines(request) ==
    CASE request.r = "ListMessages" ->
            FlattenSeq([i \in DOMAIN modem.messages |->
                <<ListHeader(modem.messages[i]), Hex(modem.messages[i].pdu)>>])
      [] request.r = "ReadMessage" -> <<ReadHeader(Slot(request.index)), Hex(Slot(request.index).pdu)>>
      [] request.r = "QueryStorage" -> <<UsageLine(Len(modem.messages))>>
      [] request.r = "QueryOutputGain" -> <<Line("+COUTGAIN", <<Numeral(modem.gain)>>)>>
      [] request.r = "QueryCallerId" -> <<Line("+CLIP", <<"1", Comma, "1">>)>>
      [] request.r = "QueryUrcDelay" -> <<Line("+CURCD", <<"0", Comma, "1">>)>>
      [] request.r \in {"QueryVerboseErrors", "QueryVoiceHangUp", "QueryPduMode"} ->
            <<Line(PREFIX[request.r], <<"0">>)>>
      [] request.r = "Firmware" -> <<Line("+CGMR", <<"A011">>)>>
      [] request.r = "ListCalls" -> IF modem.call = "None" THEN <<>> ELSE <<clcc_line(modem.call)>>
      [] request.r = "Identify" -> ATI
      [] request.r = "SendMessage" -> <<Line("+CMGS", <<"7">>)>>
      [] OTHER -> <<>>

\* Listing or reading a message marks it read.
Marked(messages, indices) ==
    [i \in DOMAIN messages |->
        IF messages[i].index \in indices /\ messages[i].status = "Unread"
        THEN [messages[i] EXCEPT !.status = "Read"] ELSE messages[i]]

Execute(request) ==
    CASE request.r = "ListMessages" -> [modem EXCEPT !.messages = Marked(@, 1..SMS_SLOTS)]
      [] request.r = "ReadMessage" -> [modem EXCEPT !.messages = Marked(@, {request.index})]
      [] request.r = "DeleteMessage" ->
            [modem EXCEPT !.messages = SelectSeq(@, LAMBDA m : m.index # request.index)]
      [] request.r = "SetOutputGain" -> [modem EXCEPT !.gain = request.gain]
      [] OTHER -> modem

-----------------------------------------------------------------------------
(* The link and the device *)

\* URCs go to the application, unless the request out takes them as its own.
Takes(line) == reply # Idle /\ IsOwn(reply.request, line)

Hear(lines, meant) ==
    /\ said' = meant
    /\ heard' = LET rest == SelectSeq(lines, LAMBDA line : ~Takes(line))
                IN  [i \in DOMAIN rest |-> parse(rest[i])]
    /\ reply' = IF reply = Idle THEN reply
                ELSE [reply EXCEPT !.info = @ \o SelectSeq(lines, LAMBDA line : Takes(line)),
                                   !.states = @ \cup {meant[i].says.state :
                                        i \in {k \in DOMAIN meant : meant[k].u = "Call"}}]

\* The network hands a part to the modem, perhaps not for the last time: the
\* lowest free slot, the messages in order of their slots.
Deliver(pdu) ==
    LET taken == {modem.messages[i].index : i \in DOMAIN modem.messages}
        index == Min(1..SMS_SLOTS \ taken)
        ByIndex(m, k) == m.index < k.index
    IN  /\ pdu \in network /\ Cardinality(taken) < SMS_SLOTS
        /\ modem' = [modem EXCEPT !.messages =
                SortSeq(Append(@, [index |-> index, status |-> "Unread", pdu |-> pdu]), ByIndex)]
        /\ Hear(<<Line("+CMTI", Quoted("SM") \o <<Comma, Numeral(index)>>)>>,
                <<[u |-> "NewSms", says |-> [storage |-> <<"SM">>, index |-> index]]>>)
        /\ \/ network' = network \ {pdu} /\ UNCHANGED budget
           \/ Spend("repeats") /\ UNCHANGED network
        /\ UNCHANGED <<parts, written, unsent, device>>

Call(state) ==
    [u |-> "Call", says |-> [index |-> 1, direction |-> "Incoming", state |-> state, mode |-> "Voice",
                             multiparty |-> FALSE, number |-> Some(<<"Caller">>)]]
Says(u) == [u |-> u, says |-> None]

\* A call comes, is answered, ends: what the modem says of it at once.
ChangeOfCall ==
    /\ Spend("changes")
    /\ \/ /\ modem.call = "None"
          /\ modem' = [modem EXCEPT !.call = "Incoming"]
          /\ Hear(<<Plain("RING"), Line("+CLIP", Quoted("Caller") \o <<Comma, "129">>), clcc_line("Incoming")>>,
                  <<Says("Ring"), [u |-> "CallerId", says |-> Some(<<"Caller">>)], Call("Incoming")>>)
       \/ /\ modem.call = "Incoming"
          /\ modem' = [modem EXCEPT !.call = "Active"]
          /\ Hear(<<Plain("VOICE CALL: BEGIN"), clcc_line("Active"),
                    Line("+COLP", Quoted("Caller") \o <<Comma, "129">>)>>,
                  <<Says("VoiceCallBegin"), Call("Active"), [u |-> "ConnectedLine", says |-> Some(<<"Caller">>)]>>)
       \/ /\ modem.call = "Incoming"
          /\ modem' = [modem EXCEPT !.call = "None"]
          /\ Hear(<<clcc_line("Disconnected"), Plain("VOICE CALL: END"), Plain("NO CARRIER")>>,
                  <<Call("Disconnected"), Says("VoiceCallEnd"), Says("NoCarrier")>>)
       \/ /\ modem.call = "Active"
          /\ modem' = [modem EXCEPT !.call = "None"]
          /\ Hear(<<Line("+CGEV", <<"NW DEACT 8", Comma, "10">>), clcc_line("Disconnected"),
                    Line("VOICE CALL: END", <<"0", "1", "10">>), Plain("NO CARRIER")>>,
                  <<[u |-> "PacketDomain", says |-> <<"NW DEACT 8", Comma, "10">>], Call("Disconnected"),
                    [u |-> "VoiceCallEnd", says |-> 70], Says("NoCarrier")>>)
    /\ UNCHANGED <<senders, device>>

\* What an undamaged reply means, from the state the modem answered in.
Meant(request) ==
    CASE request.r = "ListMessages" -> Response("Messages", modem.messages)
      [] request.r = "ReadMessage" -> Response("Messages", <<Slot(request.index)>>)
      [] request.r = "QueryStorage" ->
            Response("Storage", [role \in 1..3 |->
                [storage |-> <<"SM">>, used |-> Len(modem.messages), total |-> SMS_SLOTS]])
      [] request.r = "QueryOutputGain" -> Response("Gain", modem.gain)
      [] request.r \in QUERIES -> Response("Setting", IF request.r = "QueryCallerId" THEN 1 ELSE 0)
      [] request.r = "Firmware" -> Response("Firmware", <<"A011">>)
      [] request.r = "ListCalls" -> Response("Calls", modem.call)
      [] request.r = "Identify" -> Response("Lines", ATI)
      [] request.r = "SendMessage" -> Response("MessageRef", 7)
      [] OTHER -> Done

Ask(request) ==
    /\ reply = Idle
    /\ reply' = [t |-> "Out", request |-> request, lines |-> InfoLines(request), info |-> <<>>,
                 meant |-> Meant(request), states |-> {modem.call}, damaged |-> FALSE]
    /\ modem' = Execute(request)
    /\ answer' = Idle
    /\ Quiet /\ UNCHANGED <<saved, inbox, offered, listed, budget>>

\* A round of the store: there is something the last listing did not show.
AskMessages ==
    /\ \E i \in DOMAIN modem.messages : modem.messages[i].pdu \notin {m.pdu : m \in listed}
    /\ Ask([r |-> "ListMessages"]) /\ UNCHANGED senders
AskRead == \E m \in listed :
    /\ "ReadMessage" \in budget.requests
    /\ \E i \in DOMAIN modem.messages : modem.messages[i].index = m.index
    /\ Ask([r |-> "ReadMessage", index |-> m.index]) /\ UNCHANGED senders
AskDelete == \E m \in listed : Ask([r |-> "DeleteMessage", index |-> m.index]) /\ UNCHANGED senders
AskOther == \E r \in budget.requests \ {"ReadMessage"} :
    Ask(IF r = "SetOutputGain" THEN [r |-> r, gain |-> 7] ELSE [r |-> r]) /\ UNCHANGED senders

\* The device sends the next part of its own text.
AskSend ==
    /\ unsent # <<>>
    /\ Ask([r |-> "SendMessage"])
    /\ unsent' = Tail(unsent)
    /\ network' = network \cup {Head(unsent)}
    /\ UNCHANGED <<parts, written>>

\* A line of a reply arrives; one of a message may be damaged.
ReplyLine(line) ==
    /\ reply # Idle /\ reply.lines # <<>>
    /\ \/ line = Head(reply.lines) /\ UNCHANGED budget
       \/ line = Plain("?") /\ reply.request.r \in {"ListMessages", "ReadMessage"} /\ Spend("damaged")
    /\ reply' = [reply EXCEPT !.lines = Tail(@), !.damaged = @ \/ line # Head(reply.lines),
                              !.info = IF Takes(line) THEN Append(@, line) ELSE @]
    /\ said' = <<>> /\ heard' = IF Takes(line) THEN <<>> ELSE <<parse(line)>>
    /\ UNCHANGED <<senders, modem, device>>

ReplyLines == \E line \in {Plain("?")} \cup {reply.lines[i] : i \in IF reply = Idle THEN {} ELSE DOMAIN reply.lines} :
    ReplyLine(line)

\* A silent message, which is never offered.
is_type_0(pdu) == Pdu(pdu).t = "Deliver" /\ Pdu(pdu).pid = 64

\* What a listing shows and was not offered while it stayed on the SIM is
\* saved and goes to the inbox.
Take(stored, new) ==
    /\ offered' = (offered \cap {stored[i].pdu : i \in DOMAIN stored}) \cup {new[i] : i \in DOMAIN new}
    /\ saved' = saved \o new
    /\ inbox' = FoldLeft(add, inbox, new)
    /\ listed' = {stored[i] : i \in DOMAIN stored}

\* The PDUs of a listing to offer.
New(stored) ==
    SelectSeq([i \in DOMAIN stored |-> stored[i].pdu], LAMBDA pdu : pdu \notin offered /\ ~is_type_0(pdu))

\* The round of the store ends with what the reply says.
Note(request, response) ==
    CASE request.r = "ListMessages" /\ response.t = "Messages" ->
            Take(response.value, New(response.value))
      [] request.r = "ListMessages" /\ response.t # "Messages" ->
            listed' = {} /\ UNCHANGED <<saved, inbox, offered>>
      [] request.r = "DeleteMessage" ->
            listed' = {m \in listed : m.index # request.index} /\ UNCHANGED <<saved, inbox, offered>>
      [] OTHER -> UNCHANGED <<saved, inbox, offered, listed>>

\* OK: the request is done.
Answered ==
    /\ reply # Idle /\ reply.lines = <<>>
    /\ \E response \in {parse_reply(reply.request, reply.info)} :
        /\ Note(reply.request, response)
        /\ answer' = [t |-> "Answer", request |-> reply.request, meant |-> reply.meant,
                      states |-> reply.states, damaged |-> reply.damaged, response |-> response]
    /\ reply' = Idle
    /\ Quiet /\ UNCHANGED <<senders, modem, budget>>

\* The device restarts: the inbox is made again from what was saved.
Restart ==
    /\ Spend("restarts")
    /\ reply' = Idle /\ answer' = Idle /\ offered' = {} /\ listed' = {} /\ unsent' = <<>>
    /\ inbox' = Rebuilt(saved)
    /\ Quiet /\ UNCHANGED <<parts, written, network, modem, saved>>

Next ==
    \/ \E text \in budget.texts : Write(text)
    \/ \E pdu \in network : Deliver(pdu)
    \/ ChangeOfCall \/ ReplyLines \/ Answered \/ Restart
    \/ AskMessages \/ AskRead \/ AskDelete \/ AskOther \/ AskSend

Spec == Init /\ [][Next]_vars

-----------------------------------------------------------------------------
(* Properties *)

\* Every part of a text that was sent decodes to its share of it, in order
\* and with its number in the text, and fits into one message
\* (sms_pdu.rs:21-22). The parts do not change: they are read before any
\* text is written.
PartsTrue == written = {} =>
    \A text \in DOMAIN parts :
        LET n == Len(parts[text].sent)
            pdu == [i \in 1..n |-> Pdu(parts[text].sent[i])]
        IN  /\ \A i \in 1..n :
                /\ pdu[i].t = "Submit" /\ pdu[i].body.t = "Text"
                /\ pdu[i].concat = IF n = 1 THEN NoConcat
                                   ELSE [t |-> "Concat", reference |-> text.reference, total |-> n, seq |-> i]
            /\ FlattenSeq([i \in 1..n |-> pdu[i].body.text]) = text.text

\* The parts of an entry that were sent as those of one text.
OfText(e, text) == \A i \in DOMAIN e.parts : e.parts[i].pdu \in Forwarded(text)

\* Whatever order parts of several texts arrive in, with a reference taken
\* again, parts repeated and restarts: each entry of the inbox is of one
\* text, no text has two, a complete one reads as it was written, and what
\* was saved is in exactly one of them (sms_inbox.rs:16-21).
InboxTrue ==
    /\ \A i \in DOMAIN inbox :
        \/ \E text \in written :
            /\ OfText(inbox[i], text) /\ message(inbox[i]).from = text.from
            /\ message(inbox[i]).complete => message(inbox[i]).text = text.text
            /\ \A k \in DOMAIN inbox : OfText(inbox[k], text) => k = i
        \/ {inbox[i].parts[k].pdu : k \in DOMAIN inbox[i].parts} \subseteq budget.others
    /\ \A pdu \in {saved[k] : k \in DOMAIN saved} :
        Cardinality({<<i, k>> \in (DOMAIN inbox) \X (1..Len(saved)) :
                        k \in DOMAIN inbox[i].parts /\ inbox[i].parts[k].pdu = pdu})
            = IF pdu \in budget.others /\ Pdu(pdu).t # "Deliver" THEN 0 ELSE 1

\* The texts come through the encoding, the modem's storage and the inbox.
TextsTrue == PartsTrue /\ InboxTrue

\* A reply is understood as the modem meant it, whatever URCs arrive in its
\* middle: a call is in one of the states it was in meanwhile, and is listed
\* once. A message whose lines were damaged is Malformed, never a part of
\* what is stored (sms_storage.rs:14-17).
ReplyTrue ==
    LET response == answer.response
    IN  CASE answer = Idle -> TRUE
          [] answer # Idle /\ answer.damaged -> response.t = "Malformed"
          [] answer # Idle /\ ~answer.damaged /\ answer.request.r = "ListCalls" ->
                /\ response.t = "Calls" /\ Len(response.value) <= 1
                /\ response.value = <<>> => "None" \in answer.states
                /\ \A i \in DOMAIN response.value : response.value[i].state \in answer.states
          [] OTHER -> response = answer.meant

\* No URC is taken into a reply, changed or invented, but for a +CLCC while
\* the calls are being listed (link.rs:93-95).
UrcsTrue ==
    IF said = <<>> THEN \A i \in DOMAIN heard : heard[i].u = "Unrecognised"
    ELSE heard = IF reply # Idle /\ reply.request.r = "ListCalls"
                 THEN SelectSeq(said, LAMBDA urc : urc.u # "Call") ELSE said

RepliesTrue == ReplyTrue /\ UrcsTrue
=============================================================================
