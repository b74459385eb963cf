------------------------------- MODULE SmsPdu -------------------------------
(***************************************************************************)
(* SMS PDUs, as the modem gives and takes them (core/src/modem/sms_pdu.rs).*)
(* A PDU is the sequence of its octets; the hex digits they travel as are  *)
(* left out. The GSM 7-bit default alphabet and the packing of septets     *)
(* into octets are those of core/src/modem/gsm7.rs. A character is its     *)
(* Unicode code point, so a text is a sequence of numbers; septets and     *)
(* octets are numbers too.                                                 *)
(***************************************************************************)
EXTENDS Integers, Sequences, FiniteSets, SequencesExt, FiniteSetsExt

CONSTANT MAX_UD          \* octets of user data in one message: 140
ASSUME PduAssumption == MAX_UD \in Nat /\ MAX_UD > 14

\* Op(x). TLC evaluates x once, however often Op uses it.
Once(Op(_), x) == CHOOSE y \in {Op(v) : v \in {x}} : TRUE

Bits(octet, low, n) == (octet \div 2^low) % 2^n
Err == [t |-> "Err"]
NoConcat == [t |-> "None"]

\* Semi-octets 0..14 stand for 0-9 * # a b c.
Number(plus, digits) == [t |-> "Number", plus |-> plus, digits |-> digits]
Name(text) == [t |-> "Name", text |-> text]

-----------------------------------------------------------------------------
(* The alphabet and the packing *)

ESC == 27

\* Characters of the default alphabet that are their own septets.
Own(c) == c \in {10, 13} \/ c \in 32..35 \/ c \in 37..63 \/ c \in 65..90 \/ c \in 97..122

\* The others: septet, character. That of ESC is never looked up.
OTHERS ==
    {<<0, 64>>, <<1, 163>>, <<2, 36>>, <<3, 165>>, <<4, 232>>, <<5, 233>>, <<6, 249>>, <<7, 236>>,
     <<8, 242>>, <<9, 199>>, <<11, 216>>, <<12, 248>>, <<14, 197>>, <<15, 229>>, <<16, 916>>, <<17, 95>>,
     <<18, 934>>, <<19, 915>>, <<20, 923>>, <<21, 937>>, <<22, 928>>, <<23, 936>>, <<24, 931>>,
     <<25, 920>>, <<26, 926>>, <<28, 198>>, <<29, 230>>, <<30, 223>>, <<31, 201>>, <<36, 164>>,
     <<64, 161>>, <<91, 196>>, <<92, 214>>, <<93, 209>>, <<94, 220>>, <<95, 167>>, <<96, 191>>,
     <<123, 228>>, <<124, 246>>, <<125, 241>>, <<126, 252>>, <<127, 224>>}
DEFAULT(s) == IF Own(s) THEN s ELSE (CHOOSE e \in OTHERS : e[1] = s)[2]

\* The extension table: septet after ESC, character.
EXTENSION ==
    {<<10, 12>>, <<20, 94>>, <<40, 123>>, <<41, 125>>, <<47, 92>>,
     <<60, 91>>, <<61, 126>>, <<62, 93>>, <<64, 124>>, <<101, 8364>>}

\* The septets of a character, none if it is not in the alphabet.
septets_of(c) ==
    LET In(table) == {e \in table : e[2] = c}
    IN  IF Own(c) THEN <<c>>
        ELSE IF In(EXTENSION) # {} THEN <<ESC, (CHOOSE e \in In(EXTENSION) : TRUE)[1]>>
        ELSE IF In(OTHERS) # {} THEN <<(CHOOSE e \in In(OTHERS) : TRUE)[1]>> ELSE <<>>

Encodable(text) == \A i \in DOMAIN text : septets_of(text[i]) # <<>>

encode(text) == FlattenSeq([i \in DOMAIN text |-> septets_of(text[i])])

septet_len(c) == Len(septets_of(c))

\* An unknown extension code is its default character, a lone ESC a space.
AfterEsc(s) ==
    LET extended == {e \in EXTENSION : e[1] = s}
    IN  IF extended # {} THEN (CHOOSE e \in extended : TRUE)[2]
        ELSE IF s = ESC THEN 32 ELSE DEFAULT(s)

decode(septets) ==
    LET Step(st, s) ==
            IF st.esc THEN [esc |-> FALSE, out |-> Append(st.out, AfterEsc(s))]
            ELSE IF s = ESC THEN [st EXCEPT !.esc = TRUE]
            ELSE [st EXCEPT !.out = Append(@, DEFAULT(s))]
        end == FoldLeft(Step, [esc |-> FALSE, out |-> <<>>], septets)
    IN  IF end.esc THEN Append(end.out, 32) ELSE end.out

-----------------------------------------------------------------------------

Ceil(n, d) == (n + d - 1) \div d

\* Septets into octets, least significant bit first, after fill zero bits.
pack(septets, fill) ==
    LET at(i) == fill + 7 * (i - 1)
        Packed(all) ==
            LET v(i)  == (all[i] % 128) * 2^(at(i) % 8)
                Low(k)  == {i \in DOMAIN all : at(i) \div 8 + 1 = k}
                High(k) == {i \in DOMAIN all : at(i) \div 8 + 2 = k}
            IN  [k \in 1..Ceil(fill + 7 * Len(all), 8) |->
                    MapThenSumSet(LAMBDA i : v(i) % 256, Low(k))
                    + MapThenSumSet(LAMBDA i : v(i) \div 256, High(k))]
    IN  Once(Packed, septets)

\* count septets from fill bits into the octets, fewer where the data ends.
unpack(octets, fill, count) ==
    LET at(i) == fill + 7 * (i - 1)
        There(i) ==
            /\ at(i) \div 8 < Len(octets)
            /\ at(i) % 8 > 1 => at(i) \div 8 + 1 < Len(octets)
        here == Cardinality({i \in 1..count : There(i)})
        Octet(k) == IF k <= Len(octets) THEN octets[k] ELSE 0
    IN  [i \in 1..here |->
            ((Octet(at(i) \div 8 + 2) * 256 + Octet(at(i) \div 8 + 1)) \div 2^(at(i) % 8)) % 128]

-----------------------------------------------------------------------------
(* Decoding *)

\* The address at octet at, and where what follows it begins.
AddressEnd(b, at) == at + 2 + Ceil(b[at], 2)

address(b, at) ==
    LET digits == b[at]
        octets == SubSeq(b, at + 2, AddressEnd(b, at) - 1)
        semi   == [i \in 1..digits |-> Bits(octets[(i + 1) \div 2], IF i % 2 = 1 THEN 0 ELSE 4, 4)]
    IN  IF Bits(b[at + 1], 4, 3) = 5
        THEN Name(decode(unpack(octets, 0, (digits * 4) \div 7)))
        ELSE IF \E i \in 1..digits : semi[i] = 15 THEN Err
        ELSE Number(Bits(b[at + 1], 4, 3) = 1, semi)

\* Six swapped pairs of digits and the zone, whose sign is a bit of its own.
timestamp(t) ==
    LET tens(o) == Bits(o, 0, 4)
        ones(o) == Bits(o, 4, 4)
        quarters == Bits(t[7], 0, 3) * 10 + ones(t[7])
    IN  IF (\E i \in 1..6 : tens(t[i]) > 9 \/ ones(t[i]) > 9) \/ ones(t[7]) > 9 THEN Err
        ELSE [t |-> "Time", fields |-> [i \in 1..6 |-> tens(t[i]) * 10 + ones(t[i])],
              tz_quarters |-> IF Bits(t[7], 3, 1) = 1 THEN -quarters ELSE quarters]

\* The alphabet a data coding scheme selects.
coding(dcs) ==
    CASE dcs \div 16 \in 0..7 ->
            IF Bits(dcs, 5, 1) = 1 THEN "Data"
            ELSE CASE Bits(dcs, 2, 2) = 0 -> "Gsm7" [] Bits(dcs, 2, 2) = 2 -> "Ucs2" [] OTHER -> "Data"
      [] dcs \div 16 = 14 -> "Ucs2"
      [] dcs \div 16 = 15 /\ Bits(dcs, 2, 1) = 1 -> "Data"
      [] OTHER -> "Gsm7"

\* The last concatenation element of a user-data header, if any.
concat_of(header) ==
    LET Found(ref, total, seq) ==
            IF total = 0 \/ seq = 0 \/ seq > total THEN Err
            ELSE [t |-> "Concat", reference |-> ref, total |-> total, seq |-> seq]
        Element(id, d) ==
            IF id \notin {0, 8} THEN NoConcat
            ELSE IF Len(d) # (IF id = 0 THEN 3 ELSE 4) THEN Err
            ELSE IF id = 0 THEN Found(d[1], d[2], d[3])
            ELSE Found(d[1] * 256 + d[2], d[3], d[4])
        From[i \in 1..(Len(header) + 1)] ==
            IF i > Len(header) THEN NoConcat
            ELSE IF i = Len(header) \/ i + 1 + header[i + 1] > Len(header) THEN Err
            ELSE LET this == Element(header[i], SubSeq(header, i + 2, i + 1 + header[i + 1]))
                     rest == From[i + 2 + header[i + 1]]
                 IN  IF Err \in {this, rest} THEN Err ELSE IF rest # NoConcat THEN rest ELSE this
    IN  From[1]

\* from_utf16_lossy of big-endian octets: a lone surrogate reads as U+FFFD.
utf16(octets) ==
    LET units == [i \in 1..Ceil(Len(octets), 2) |->
                    octets[2 * i - 1] * 256 + (IF 2 * i <= Len(octets) THEN octets[2 * i] ELSE 0)]
        High(u) == u \in 55296..56319
        Low(u)  == u \in 56320..57343
        Step(st, u) ==
            IF st.high # 0 /\ Low(u)
            THEN [high |-> 0, out |-> Append(st.out, 65536 + (st.high - 55296) * 1024 + u - 56320)]
            ELSE LET out == IF st.high # 0 THEN Append(st.out, 65533) ELSE st.out
                 IN  IF High(u) THEN [high |-> u, out |-> out]
                     ELSE [high |-> 0, out |-> Append(out, IF Low(u) THEN 65533 ELSE u)]
        end == FoldLeft(Step, [high |-> 0, out |-> <<>>], units)
    IN  IF end.high # 0 THEN Append(end.out, 65533) ELSE end.out

Text(points) == [t |-> "Text", text |-> points]
Data(octets) == [t |-> "Data", octets |-> octets]

\* Length and user data at octet at, which must be the last of the PDU.
user_data(b, at, dcs, udhi) ==
    LET udl    == b[at]
        octets == IF coding(dcs) = "Gsm7" THEN Ceil(udl * 7, 8) ELSE udl
        ud     == SubSeq(b, at + 1, at + octets)
        header == IF udhi THEN 1 + ud[1] ELSE 0
        concat == IF udhi THEN concat_of(SubSeq(ud, 2, header)) ELSE NoConcat
        rest   == SubSeq(ud, header + 1, octets)
        skipped == Ceil(header * 8, 7)
        Read(body) == IF body = Err THEN Err ELSE [t |-> "UserData", concat |-> concat, body |-> body]
        Septets(unpacked) ==
            IF udl < skipped \/ Len(unpacked) # udl - skipped THEN Err ELSE Text(decode(unpacked))
    IN  IF \/ octets > MAX_UD \/ Len(b) # at + octets
           \/ udhi /\ (octets = 0 \/ header > octets \/ concat = Err)
        THEN Err
        ELSE Once(Read,
                CASE coding(dcs) = "Gsm7" ->
                        Once(Septets, unpack(rest, skipped * 7 - header * 8, udl - skipped))
                  [] coding(dcs) = "Ucs2" -> Text(utf16(rest))
                  [] coding(dcs) = "Data" -> Data(rest))

\* first, message reference (of a SUBMIT), address, PID, DCS, then the time
\* the centre stamped (DELIVER) or the validity (SUBMIT), then the user data.
Pdu(b) ==
    LET first  == b[1] + 2
        kind   == Bits(b[first], 0, 2)
        addr   == IF kind = 0 THEN first + 1 ELSE first + 2
        after  == AddressEnd(b, addr)
        extra  == CASE kind = 0 \/ Bits(b[first], 3, 2) \in {1, 3} -> 7
                    [] kind = 1 /\ Bits(b[first], 3, 2) = 2 -> 1
                    [] kind = 1 /\ Bits(b[first], 3, 2) = 0 -> 0
        when   == timestamp(SubSeq(b, after + 2, after + 8))
        Whole(all) ==
            IF Err \in {all[1], all[2]} \/ (kind = 0 /\ when = Err) THEN Err
            ELSE IF kind = 0
            THEN [t |-> "Deliver", from |-> all[1], pid |-> b[after], sent_at |-> when,
                  body |-> all[2].body, concat |-> all[2].concat]
            ELSE [t |-> "Submit", to |-> all[1], body |-> all[2].body, concat |-> all[2].concat]
    IN  IF b = <<>> \/ Len(b) < first THEN Err
        ELSE IF kind \notin {0, 1} THEN [t |-> "Other", mti |-> kind]
        ELSE IF Len(b) < addr \/ Len(b) < after + 2 + extra THEN Err
        ELSE Once(Whole, <<address(b, addr),
                           user_data(b, after + 2 + extra, b[after + 1], Bits(b[first], 6, 1) = 1)>>)

-----------------------------------------------------------------------------
(* Encoding *)

\* Only 0-9, * and # can be dialled, twenty at most.
encode_address(to) ==
    LET n == Len(to.digits)
        Semi(i) == IF i <= n THEN to.digits[i] ELSE 15
    IN  IF n \notin 1..20 \/ \E i \in 1..n : to.digits[i] > 11 THEN Err
        ELSE [t |-> "Octets", octets |->
                <<n, IF to.plus THEN 145 ELSE 129>>
                \o [i \in 1..Ceil(n, 2) |-> Semi(2 * i - 1) + 16 * Semi(2 * i)]]

\* What fits: 160 septets or 70 units alone, 153 or 67 behind the 6 octets
\* of a concatenation header.
Single(gsm) == IF gsm THEN (MAX_UD * 8) \div 7 ELSE MAX_UD \div 2
Share(gsm) == IF gsm THEN ((MAX_UD - 6) * 8) \div 7 ELSE (MAX_UD - 6) \div 2

cost(c, gsm) == IF gsm THEN septet_len(c) ELSE IF c > 65535 THEN 2 ELSE 1
Cost(text, gsm) == FoldLeft(LAMBDA sum, c : sum + cost(c, gsm), 0, text)

\* The parts a text needs. No character is divided.
split(text, gsm) ==
    LET Step(parts, c) ==
            IF Cost(Last(parts), gsm) + cost(c, gsm) > Share(gsm) THEN Append(parts, <<c>>)
            ELSE [parts EXCEPT ![Len(parts)] = Append(@, c)]
    IN  IF Cost(text, gsm) <= Single(gsm) THEN <<text>> ELSE FoldLeft(Step, << <<>> >>, text)

Utf16(text) ==
    LET Octets(u) == <<u \div 256, u % 256>>
        Units(c) == IF c <= 65535 THEN Octets(c)
                    ELSE Octets(55296 + ((c - 65536) \div 1024)) \o Octets(56320 + ((c - 65536) % 1024))
    IN  FlattenSeq([i \in DOMAIN text |-> Units(text[i])])

\* The SUBMITs of a text, concatenated by reference if there are several,
\* and none (EncodeError) for an empty text, a bad number or too long a text.
encode_submit(number, text, reference) ==
    LET gsm == Encodable(text)
        da  == encode_address(number)
        Submit(i, n, coded) ==
            LET header == IF n > 1 THEN <<5, 0, 3, reference, n, i>> ELSE <<>>
                septets == Ceil(Len(header) * 8, 7)
                ud  == header \o IF gsm THEN pack(coded, septets * 7 - Len(header) * 8) ELSE coded
                udl == IF gsm THEN septets + Len(coded) ELSE Len(ud)
            IN  <<0, IF header = <<>> THEN 17 ELSE 81, 0>> \o da.octets
                \o <<0, IF gsm THEN 0 ELSE 8, 170, udl>> \o ud
        Submits(parts) ==
            IF Len(parts) > 255 THEN <<>>
            ELSE [i \in DOMAIN parts |->
                    Submit(i, Len(parts), IF gsm THEN encode(parts[i]) ELSE Utf16(parts[i]))]
    IN  IF text = <<>> \/ da = Err THEN <<>> ELSE Once(Submits, split(text, gsm))

\* The length AT+CMGS wants: what follows the service centre's address.
tpdu_len(pdu) == Len(pdu) - 1 - pdu[1]

-----------------------------------------------------------------------------
(* Received parts joined into texts (core/src/modem/sms_inbox.rs). The     *)
(* inbox is the sequence of its entries. Left out: the flag of what the    *)
(* user has seen.                                                          *)

MISSING == <<8230>>
DATA == <<91, 100, 97, 116, 97, 32, 109, 101, 115, 115, 97, 103, 101, 93>>

\* How many parts an entry's key announces.
Total(e) == IF e.concat = NoConcat THEN 1 ELSE e.concat.total
is_complete(e) == Len(e.parts) = Total(e)
Seqs(e) == {e.parts[i].seq : i \in DOMAIN e.parts}

\* Mutant: the sender is forgotten.
OpenAnySender(inbox, from, key, seq) ==
    {i \in DOMAIN inbox : inbox[i].concat = key /\ ~is_complete(inbox[i]) /\ seq \notin Seqs(inbox[i])}

\* The incomplete texts of a part's sender and key that lack its number.
Open(inbox, from, key, seq) ==
    {i \in DOMAIN inbox :
        /\ inbox[i].from = from /\ inbox[i].concat = key
        /\ ~is_complete(inbox[i]) /\ seq \notin Seqs(inbox[i])}

\* A part joins the oldest of them.
add(inbox, pdu) ==
    LET known == \E i \in DOMAIN inbox : \E k \in DOMAIN inbox[i].parts : inbox[i].parts[k].pdu = pdu
        BySeq(p, q) == p.seq < q.seq
        Join(d) ==
            LET many == d.concat # NoConcat /\ d.concat.total > 1
                key  == IF many THEN [reference |-> d.concat.reference, total |-> d.concat.total]
                        ELSE NoConcat
                part == [pdu |-> pdu, seq |-> IF many THEN d.concat.seq ELSE 1,
                         body |-> d.body, sent_at |-> d.sent_at]
                open == Open(inbox, d.from, key, part.seq)
            IN  IF d.t # "Deliver" \/ known THEN inbox
                ELSE IF many /\ open # {}
                THEN [inbox EXCEPT ![Min(open)].parts = SortSeq(Append(@, part), BySeq)]
                ELSE Append(inbox, [from |-> d.from, concat |-> key, parts |-> <<part>>])
    IN  Once(Join, Pdu(pdu))

\* The inbox of what was saved, in the order it was received.
Rebuilt(saved) == FoldLeft(add, <<>>, saved)

\* A text as the user sees it.
message(e) ==
    LET Shown(seq) ==
            LET here == {i \in DOMAIN e.parts : e.parts[i].seq = seq}
            IN  IF here = {} THEN MISSING
                ELSE LET body == e.parts[Min(here)].body
                     IN  IF body.t = "Text" THEN body.text ELSE DATA
    IN  [from |-> e.from, sent_at |-> e.parts[1].sent_at, complete |-> is_complete(e),
         text |-> FlattenSeq([seq \in 1..Total(e) |-> Shown(seq)])]
=============================================================================
