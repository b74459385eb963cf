------------------------------- MODULE MCSms -------------------------------
(* Two parts of a text, in the wrong order, and a silent message arrive, and one
   text goes out. *)
EXTENDS Sms

MCPart(n) == [from |-> "friend", concat |-> <<1, 2>>, seq |-> n, silent |-> FALSE]
MCSilent == [from |-> "network", concat |-> <<>>, seq |-> 1, silent |-> TRUE]
MCArriving == <<MCPart(2), MCSilent, MCPart(1)>>
MCTexts == {"hello"}
MCParts(text) == 2
MCFollowed == {"cmgf"}
=============================================================================
