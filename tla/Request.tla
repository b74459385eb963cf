------------------------------ MODULE Request ------------------------------
(***************************************************************************)
(* Lines of the modem, typed: what a line it sends by itself says          *)
(* (core/src/modem/unsolicited.rs), which lines are a request's own and    *)
(* what its reply says (core/src/modem/request.rs, with the routing of     *)
(* link.rs), those of the message storage in PDU mode first: listings, one *)
(* message and usage (core/src/modem/sms_storage.rs). Command texts and    *)
(* timeouts are left out: AtLink and Hal have the exchange itself.         *)
(*                                                                         *)
(* A line is its head (all of a plain line, "+CLCC" of "+CLCC: ...") and   *)
(* the rest as tokens: quotes, commas, and numerals or words between them. *)
(* A line of hex digits has its octets instead.                            *)
(***************************************************************************)
EXTENDS Integers, Sequences, FiniteSets, SequencesExt, TLC

Quote == "\""
Comma == ","
Plain(text) == [head |-> text, rest |-> <<>>]
Line(head, rest) == [head |-> head, rest |-> rest]
Hex(octets) == [head |-> "hex", pdu |-> octets]
Quoted(word) == <<Quote, word, Quote>>

None == [t |-> "None"]
Some(x) == [t |-> "Some", some |-> x]

NUMERALS == [n \in 0..255 |-> ToString(n)]
Numeral(n) == NUMERALS[n]
VALUES == [s \in {NUMERALS[n] : n \in 0..255} |-> CHOOSE n \in 0..255 : NUMERALS[n] = s]

\* What a field says as a number, -1 if it is none.
Value(field) == IF Len(field) = 1 /\ field[1] \in DOMAIN VALUES THEN VALUES[field[1]] ELSE -1

\* Pieces between commas; in fields() those in quotes do not count, and the
\* quotes are dropped.
Pieces(rest, quotes) ==
    LET Step(st, x) ==
            IF quotes /\ x = Quote THEN [st EXCEPT !.quoted = ~@]
            ELSE IF x = Comma /\ ~st.quoted THEN [st EXCEPT !.out = Append(@, st.cur), !.cur = <<>>]
            ELSE [st EXCEPT !.cur = Append(@, x)]
        end == FoldLeft(Step, [quoted |-> FALSE, out |-> <<>>, cur |-> <<>>], rest)
    IN  Append(end.out, end.cur)

fields(rest) == Pieces(rest, TRUE)
split_commas(rest) == Pieces(rest, FALSE)

-----------------------------------------------------------------------------

STATES == <<"Active", "Held", "Dialling", "Alerting", "Incoming", "Waiting", "Disconnected">>
MODES == <<"Voice", "Data", "Fax">>

\* A number withheld or absent is none.
GivenNumber(field) == IF field = <<>> THEN None ELSE Some(field)

\* <id>,<dir>,<stat>,<mode>,<mpty>[,"<number>",...]
parse_call(rest) ==
    LET f == fields(rest)
        v == [i \in 1..5 |-> Value(f[i])]
    IN  IF Len(f) < 5 THEN None
        ELSE IF v[1] = -1 \/ v[2] \notin 0..1 \/ v[3] \notin 0..6 \/ v[4] = -1 \/ v[5] \notin 0..1 THEN None
        ELSE Some([index |-> v[1], direction |-> IF v[2] = 0 THEN "Outgoing" ELSE "Incoming",
                   state |-> STATES[v[3] + 1], mode |-> IF v[4] < 3 THEN MODES[v[4] + 1] ELSE "Other",
                   multiparty |-> v[5] = 1,
                   number |-> IF Len(f) > 5 THEN GivenNumber(f[6]) ELSE None])

\* A quoted number, with its type after it.
parse_number_field(rest) ==
    IF rest = <<>> \/ Head(rest) # Quote \/ Len(fields(rest)) < 2 THEN None
    ELSE Some(GivenNumber(fields(rest)[1]))

\* Hours, minutes and seconds, a numeral each.
parse_hhmmss(rest) ==
    LET v == [i \in DOMAIN rest |-> Value(<<rest[i]>>)]
    IN  IF Len(rest) # 3 \/ -1 \in {v[i] : i \in DOMAIN v} THEN None
        ELSE IF v[2] >= 60 \/ v[3] >= 60 THEN None
        ELSE Some(v[1] * 3600 + v[2] * 60 + v[3])

PLAIN ==
    [text \in {"*ATREADY: 1", "SMS DONE", "PB DONE", "RING", "VOICE CALL: BEGIN", "VOICE CALL: END",
               "NO CARRIER", "BUSY", "NO ANSWER"} |->
        CASE text = "*ATREADY: 1" -> "Ready"
          [] text = "SMS DONE" -> "SmsReady"
          [] text = "PB DONE" -> "PhonebookReady"
          [] text = "RING" -> "Ring"
          [] text = "VOICE CALL: BEGIN" -> "VoiceCallBegin"
          [] text = "VOICE CALL: END" -> "VoiceCallEnd"
          [] text = "NO CARRIER" -> "NoCarrier"
          [] text = "BUSY" -> "Busy"
          [] text = "NO ANSWER" -> "NoAnswer"]

Unrecognised(line) == [u |-> "Unrecognised", line |-> line]
Urc(kind, parsed, line) ==
    IF parsed = None THEN Unrecognised(line) ELSE [u |-> kind, says |-> parsed.some]

parse(line) ==
    LET head == line.head
        f == fields(line.rest)
    IN  CASE head = "hex" -> Unrecognised(line)
          [] head = "VOICE CALL: END" /\ line.rest # <<>> ->
                Urc("VoiceCallEnd", parse_hhmmss(line.rest), line)
          [] head \in DOMAIN PLAIN /\ line.rest = <<>> -> [u |-> PLAIN[head], says |-> None]
          [] head = "+CLCC" -> Urc("Call", parse_call(line.rest), line)
          [] head = "+CLIP" -> Urc("CallerId", parse_number_field(line.rest), line)
          [] head = "+COLP" -> Urc("ConnectedLine", parse_number_field(line.rest), line)
          [] head = "+CMTI" ->
                IF Len(f) = 2 /\ Value(f[2]) # -1
                THEN [u |-> "NewSms", says |-> [storage |-> f[1], index |-> Value(f[2])]]
                ELSE Unrecognised(line)
          [] head = "+CPIN" -> [u |-> "Sim", says |-> line.rest]
          [] head = "+CGEV" -> [u |-> "PacketDomain", says |-> line.rest]
          [] OTHER -> Unrecognised(line)

-----------------------------------------------------------------------------
(* The message storage *)

STATUS == <<"Unread", "Read", "Unsent", "Sent">>

\* Whether the header's length is that of the PDU without its centre's address.
length_matches(pdu, len) == pdu # <<>> /\ Len(pdu) = 1 + pdu[1] + len

\* <index>,<stat>,,<length>
list_header(line) ==
    LET f == split_commas(line.rest)
    IN  IF line.head # "+CMGL" THEN None
        ELSE IF Len(f) # 4 \/ f[3] # <<>> \/ -1 \in {Value(f[i]) : i \in {1, 2, 4}} \/ Value(f[2]) > 3
        THEN None
        ELSE Some([index |-> Value(f[1]), status |-> STATUS[Value(f[2]) + 1], len |-> Value(f[4])])

\* <stat>,"",<length>
read_header(line) ==
    LET f == split_commas(line.rest)
    IN  IF line.head # "+CMGR" THEN None
        ELSE IF Len(f) # 3 \/ f[2] # <<Quote, Quote>> \/ -1 \in {Value(f[i]) : i \in {1, 3}} \/ Value(f[1]) > 3
        THEN None
        ELSE Some([status |-> STATUS[Value(f[1]) + 1], len |-> Value(f[3])])

is_list_line(line) == line.head \in {"+CMGL", "hex"}
is_read_line(line) == line.head \in {"+CMGR", "hex"}

Stored(index, status, pdu) == [index |-> index, status |-> status, pdu |-> pdu]

\* A header line and the line after it, which must be its PDU.
Pair(head, header, line) ==
    IF line.head # "hex" \/ header = None THEN None
    ELSE IF ~length_matches(line.pdu, header.some.len) THEN None
    ELSE Some(Stored(head, header.some.status, line.pdu))

\* All of the listing or nothing.
parse_list(info) ==
    LET header(i) == list_header(info[2 * i - 1])
        message(i) == IF header(i) = None THEN None ELSE Pair(header(i).some.index, header(i), info[2 * i])
        n == Len(info) \div 2
    IN  IF Len(info) % 2 # 0 \/ \E i \in 1..n : message(i) = None THEN None
        ELSE Some([i \in 1..n |-> message(i).some])

\* An empty slot has no lines.
parse_read(index, info) ==
    IF info = <<>> THEN Some(<<>>)
    ELSE IF Len(info) # 2 THEN None
    ELSE LET message == Pair(index, read_header(info[1]), info[2])
         IN  IF message = None THEN None ELSE Some(<<message.some>>)

\* "<mem>",<used>,<total> for each of the three roles of a storage.
parse_usage(line) ==
    LET f == split_commas(line.rest)
        Good(i) == /\ Len(f[i]) >= 2 /\ Head(f[i]) = Quote /\ Last(f[i]) = Quote
                   /\ Value(f[i + 1]) # -1 /\ Value(f[i + 2]) # -1
    IN  IF line.head # "+CPMS" THEN None
        ELSE IF Len(f) # 9 \/ \E i \in {1, 4, 7} : ~Good(i) THEN None
        ELSE Some([role \in 1..3 |->
                LET i == 3 * role - 2
                IN  [storage |-> SubSeq(f[i], 2, Len(f[i]) - 1),
                     used |-> Value(f[i + 1]), total |-> Value(f[i + 2])]])

-----------------------------------------------------------------------------

\* Requests whose reply is only a final code.
SETTERS ==
    {"Dial", "Answer", "HangUp", "SetOutputGain", "EchoOff", "SetVerboseErrors", "SetVoiceHangUp",
     "SetCallerId", "ClearUrcDelay", "SetPduMode", "SetNewMessageIndication", "DeleteMessage"}

\* The prefix of an own line, and the requests answered by one setting.
PREFIX ==
    [r \in {"ListCalls", "QueryOutputGain", "QueryVerboseErrors", "QueryVoiceHangUp", "QueryUrcDelay",
            "Firmware", "QueryPduMode", "QueryStorage", "SendMessage", "QueryCallerId"} |->
        CASE r = "ListCalls" -> "+CLCC"
          [] r = "QueryOutputGain" -> "+COUTGAIN"
          [] r = "QueryVerboseErrors" -> "+CMEE"
          [] r = "QueryVoiceHangUp" -> "+CVHU"
          [] r = "QueryUrcDelay" -> "+CURCD"
          [] r = "Firmware" -> "+CGMR"
          [] r = "QueryPduMode" -> "+CMGF"
          [] r = "QueryStorage" -> "+CPMS"
          [] r = "SendMessage" -> "+CMGS"
          [] r = "QueryCallerId" -> "+CLIP"]
QUERIES == {"QueryVerboseErrors", "QueryVoiceHangUp", "QueryUrcDelay", "QueryPduMode", "QueryCallerId"}

is_ati_line(line) == line.head \in {"Manufacturer:", "Model:", "Revision:", "IMEI:", "+GCAP:"}

\* Mutant: the caller's number passes for the setting.
is_any_clip(line) == line.head = "+CLIP"

\* "+CLIP: 1,1", unlike the caller's number, which is quoted.
is_clip_setting(line) ==
    line.head = "+CLIP" /\ \A i \in DOMAIN split_commas(line.rest) : Value(split_commas(line.rest)[i]) # -1

\* Info of the request's ReplySpec: whether a line belongs to its reply.
IsOwn(request, line) ==
    CASE request.r = "QueryCallerId" -> is_clip_setting(line)
      [] request.r = "Identify" -> is_ati_line(line)
      [] request.r = "ListMessages" -> is_list_line(line)
      [] request.r = "ReadMessage" -> is_read_line(line)
      [] request.r \in DOMAIN PREFIX \ {"QueryCallerId"} -> line.head = PREFIX[request.r]
      [] request.r \in SETTERS -> FALSE

-----------------------------------------------------------------------------

Response(kind, value) == [t |-> kind, value |-> value]
Done == Response("Done", <<>>)
Malformed(info) == Response("Malformed", info)
Parsed(kind, value, info) == IF value = None THEN Malformed(info) ELSE Response(kind, value.some)

\* The first field of a setting's line.
setting_line(prefix, line) ==
    LET value == Value(split_commas(line.rest)[1])
    IN  IF line.head = prefix /\ value # -1 THEN Some(value) ELSE None

\* +CLCC lines: for a call named twice, the latest.
Calls(info) ==
    LET all == [i \in DOMAIN info |-> parse_call(info[i].rest)]
        Put(calls, c) ==
            LET same == {k \in DOMAIN calls : calls[k].index = c.some.index}
            IN  IF same = {} THEN Append(calls, c.some)
                ELSE [calls EXCEPT ![CHOOSE k \in same : TRUE] = c.some]
    IN  IF \E i \in DOMAIN all : all[i] = None THEN None ELSE Some(FoldLeft(Put, <<>>, all))

parse_reply(request, info) ==
    LET One(kind, value) == IF Len(info) # 1 THEN Malformed(info) ELSE Parsed(kind, value, info)
        setting == setting_line(PREFIX[request.r], info[1])
    IN  CASE request.r \in SETTERS -> IF info = <<>> THEN Done ELSE Malformed(info)
          [] request.r = "ListCalls" -> Parsed("Calls", Calls(info), info)
          [] request.r = "QueryOutputGain" ->
                One("Gain", IF setting # None /\ setting.some <= 7 THEN setting ELSE None)
          [] request.r \in QUERIES -> One("Setting", setting)
          [] request.r = "Identify" -> Response("Lines", info)
          [] request.r = "Firmware" -> One("Firmware", Some(info[1].rest))
          [] request.r = "QueryStorage" -> One("Storage", parse_usage(info[1]))
          [] request.r = "ListMessages" -> Parsed("Messages", parse_list(info), info)
          [] request.r = "ReadMessage" -> Parsed("Messages", parse_read(request.index, info), info)
          [] request.r = "SendMessage" ->
            One("MessageRef", IF Value(info[1].rest) = -1 THEN None ELSE Some(Value(info[1].rest)))
=============================================================================
