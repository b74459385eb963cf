----------------------------- MODULE MCMessages -----------------------------
(* Small texts: 16 octets of user data hold 18 septets or 8 units alone, 11  *)
(* or 5 in a part. Two characters are at the border of two parts.            *)
EXTENDS Messages

Repeat(c, n) == [i \in 1..n |-> c]
Alice == Number(TRUE, <<4, 4, 7>>)
Bob == Name(<<66, 111>>)
MCOwn == Number(FALSE, <<0, 7>>)
Euro == 8364
Smile == 128512
Texted(from, second, text) == [from |-> from, second |-> second, reference |-> 1, text |-> text]

A1 == Texted(Alice, 1, Repeat(97, 10) \o <<Euro>> \o Repeat(98, 7))     \* two parts
A2 == Texted(Alice, 2, Repeat(20320, 4) \o <<Smile>> \o Repeat(99, 3))  \* two, with A1's reference
B1 == Texted(Bob, 3, Repeat(100, 19))                                   \* two, from another sender
C1 == Texted(MCOwn, 4, <<64, Euro>>)                                    \* one
C2 == Texted(MCOwn, 5, Repeat(97, 22) \o <<Euro>>)                      \* three

\* Eight-bit data with a 16-bit reference, a status report, a truncated PDU
\* and a silent message.
Data16 == <<0, 68, 2, 145, 68, 0, 4, 98, 16, 32, 48, 64, 16, 64, 9, 6, 8, 4, 1, 1, 2, 1, 202, 254>>
Report == <<0, 6, 1, 2, 145, 68>>
Truncated == <<0, 4, 2, 145, 68, 0, 0, 98, 16, 32>>
Silent == <<0, 4, 2, 145, 68, 64, 0, 98, 16, 32, 48, 64, 16, 64, 0>>

Scenario(texts, others, requests, repeats, damaged, restarts, changes) ==
    [texts |-> texts, others |-> others, requests |-> requests, repeats |-> repeats,
     damaged |-> damaged, restarts |-> restarts, changes |-> changes]

MCScenarios ==
    {Scenario({A1, A2, B1}, {}, {}, 0, 0, 0, 0),
     Scenario({A1, A2}, {}, {}, 1, 0, 0, 0),
     Scenario({C2}, {}, {}, 0, 0, 1, 0),
     Scenario({C1}, {Data16, Report}, {}, 0, 0, 1, 0),
     Scenario({}, {Silent, Truncated}, {}, 1, 0, 1, 0),
     Scenario({A1}, {}, {"ReadMessage"}, 1, 1, 0, 0),
     Scenario({C1, B1}, {}, {"ReadMessage", "QueryStorage"}, 0, 1, 0, 1),
     Scenario({C1}, {}, QUERIES \cup {"ListCalls", "Identify", "Firmware"}, 0, 0, 0, 4),
     Scenario({}, {}, {"ListCalls", "SetOutputGain", "QueryOutputGain"}, 0, 0, 1, 5)}
=============================================================================
