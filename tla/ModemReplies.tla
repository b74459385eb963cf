----------------------------- MODULE ModemReplies -----------------------------
(* How the old modem driver reads what its modem says: the classes of lines
   (core/src/modem/at.rs), the texts of a text-mode listing (core/src/sms.rs), and
   the status queries (device/src/modem.rs, core/src/modem/mod.rs).

   A line is what it begins with and its fields, each a token, that is a sequence
   of words.  A line of a text is such a line too, and nothing tells it apart. *)
EXTENDS Integers, Sequences, SequencesExt

CONSTANT Numbers \* tokens of digits, with or without a plus

Line(head) == [head |-> head, fields |-> <<>>]
Info(head, fields) == [head |-> head, fields |-> fields]
Blank == Line("")

(* AtParser::feed(): empty lines are padding. *)
Fed(lines) == SelectSeq(lines, LAMBDA l : l # Blank)

(* classify(), and the prompt, which the parser tells from a line.  "AT" stands
   for every line that begins so. *)
Errors == {"ERROR", "CMS ERROR 321", "NO CARRIER"}
Class(line) ==
    CASE line.head \in Errors \cup {"OK"} -> line.head
      [] line.head = ">" -> "Prompt"
      [] line.head \in {"RING", "+CMTI:"} -> "Urc"
      [] line.head = "AT" -> "Echo"
      [] OTHER -> "Info"

(* The first line that begins so, or none. *)
FirstOf(lines, head) ==
    LET at == SelectInSeq(lines, LAMBDA l : l.head = head)
    IN IF at = 0 THEN Blank ELSE lines[at]

----------------------------------------------------------------------------
(* sms.rs *)

(* SmsStatus::from_at_string(), and its label. *)
StatusOf(field) ==
    CASE field = << "REC UNREAD" >> -> "unread"
      [] field = << "REC READ" >> -> "read"
      [] field = << "STO UNSENT" >> -> "draft"
      [] field = << "STO SENT" >> -> "sent"
      [] OTHER -> "?"

(* parse_header(): a +CMGL header leads with the index, a +CMGR header has none. *)
Skipped(line) ==
    IF line.fields # <<>> /\ Head(line.fields) \in Numbers THEN 1 ELSE 0
IsHeader(line, prefix) ==
    line.head = prefix /\ Len(line.fields) >= Skipped(line) + 2
Message(line, body) ==
    LET at == Skipped(line)
    IN [index |-> IF at = 1 THEN Head(line.fields) ELSE << "0" >>,
        status |-> StatusOf(line.fields[at + 1]),
        sender |-> line.fields[at + 2],
        timestamp |-> IF Len(line.fields) < at + 4 THEN <<>>
                      ELSE line.fields[at + 4],
        body |-> body]

LineAfter(lines, i) == IF i = Len(lines) THEN Blank ELSE lines[i + 1]

(* parse_inbox(): the line after a header is its body, if it is no header. *)
parse_inbox(lines) ==
    LET IsCmgl(i) == IsHeader(lines[i], "+CMGL:")
        Body(i) ==
            IF i < Len(lines) /\ IsCmgl(i + 1) THEN Blank ELSE LineAfter(lines, i)
        heads == SelectSeq([i \in 1 .. Len(lines) |-> i], IsCmgl)
    IN [k \in DOMAIN heads |-> Message(lines[heads[k]], Body(heads[k]))]

(* parse_cmgr(): the first header and the line after it, under the index that was
   asked for; no message without a header. *)
parse_cmgr(lines, index) ==
    LET at == SelectInSeq(lines, LAMBDA l : IsHeader(l, "+CMGR:"))
    IN IF at = 0 THEN <<>>
       ELSE << [Message(lines[at], LineAfter(lines, at)) EXCEPT !.index = index] >>

(* format_inbox() leaves out when a text was sent, format_message() shows all. *)
format_inbox(messages) ==
    [k \in DOMAIN messages |->
        [f \in {"index", "status", "sender", "body"} |-> messages[k][f]]]

----------------------------------------------------------------------------
(* status() of the driver: a reply is whether the command went well, and the
   lines that came with it. *)

query_sim(reply) ==
    LET line == FirstOf(reply.info, "+CPIN:")
    IN CASE ~reply.ok -> "not ready"
         [] reply.ok /\ line = Blank -> "unknown"
         [] reply.ok /\ line # Blank ->
              CASE line.fields[1] = << "READY" >> -> "ready"
                [] line.fields[1] \in {<< "SIM PIN" >>, << "SIM PUK" >>} -> "locked"
                [] OTHER -> "not ready"

from_creg_stat(stat) ==
    IF stat \in 0 .. 3 \cup {5}
    THEN << "not registered", "home", "searching", "denied", "", "roaming" >>[stat + 1]
    ELSE "unknown"

query_reg_command(reply, prefix) ==
    LET line == FirstOf(reply.info, prefix)
    IN IF ~reply.ok \/ Len(line.fields) < 2 THEN "unknown"
       ELSE from_creg_stat(line.fields[2])

(* prefer_registered(): registered on either network is registered. *)
RANKS ==
    [status \in {"unknown", "not registered", "denied", "searching", "roaming", "home"} |->
        CASE status = "home" -> 5
          [] status = "roaming" -> 4
          [] status = "searching" -> 3
          [] status = "denied" -> 2
          [] status = "not registered" -> 1
          [] status = "unknown" -> 0]
prefer_registered(a, b) == IF RANKS[a] >= RANKS[b] THEN a ELSE b

query_registration(lte, legacy) ==
    prefer_registered(query_reg_command(lte, "+CEREG:"),
                      query_reg_command(legacy, "+CREG:"))

Unmeasured == 0
rssi_index_to_dbm(rssi) == IF rssi \in 0 .. 31 THEN 2 * rssi - 113 ELSE Unmeasured
query_signal(reply) ==
    LET line == FirstOf(reply.info, "+CSQ:")
    IN IF ~reply.ok \/ line = Blank THEN Unmeasured
       ELSE rssi_index_to_dbm(line.fields[1])

(* What format_status() shows of the replies to AT, +CPIN?, +CEREG?, +CREG? and
   +CSQ. *)
format_status(replies) ==
    [responsive |-> replies[1].ok,
     sim |-> query_sim(replies[2]),
     network |-> query_registration(replies[3], replies[4]),
     signal |-> query_signal(replies[5])]
=============================================================================
