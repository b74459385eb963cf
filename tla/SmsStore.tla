------------------------------ MODULE SmsStore ------------------------------
(***************************************************************************)
(* The SMS service (core/src/modem/sms_store.rs) and the inbox             *)
(* (sms_inbox.rs): operators on a struct that has the fields of the        *)
(* driver's and store, the SmsStore, with the events it has to report.     *)
(*                                                                         *)
(* A PDU is a record [from, concat, seq, silent]; concat is <<>> for a     *)
(* text of one part, else <<reference, total>>. A text to send is a name   *)
(* and its number of parts: what encode_submit makes of it is left out.    *)
(***************************************************************************)
EXTENDS Hal

CONSTANT MAX_ATTEMPTS
ASSUME AttemptsAssumption == MAX_ATTEMPTS \in Nat \ {0}

NewStore ==
    [round |-> "Idle", deleting |-> {}, again |-> FALSE, failed |-> FALSE, due |-> FALSE,
     offered |-> {}, saved |-> {}, events |-> <<>>,
     outbox |-> <<>>, sending |-> FALSE, sendBlocked |-> FALSE, linkUp |-> FALSE]

(* Requests, each with an id of its own among those in flight *)
ListMessages == [c |-> "List", id |-> <<"List">>]
DeleteMessage(i) == [c |-> "Delete", id |-> <<"Delete", i>>, index |-> i]
SendMessage(text, part) == [c |-> "Send", id |-> <<"Send", text, part>>]

Received(pdu) == [k |-> "Received", pdu |-> pdu]
SentEvent(o, result) == [k |-> "Sent", text |-> o.text, result |-> result, parts |-> o.sent]

Request(t, cmd) == [t EXCEPT !.hal = HalSubmit(@, cmd)]
Report(t, e) == [t EXCEPT !.store.events = Append(@, e)]

-----------------------------------------------------------------------------
(* Rounds *)

StartRound(t) ==
    Request([t EXCEPT !.store.again = FALSE, !.store.failed = FALSE, !.store.due = TRUE,
                      !.store.round = "Listing"], ListMessages)

WantRound(t) ==
    IF t.store.round = "Idle" /\ t.store.linkUp THEN StartRound(t) ELSE [t EXCEPT !.store.again = TRUE]

\* A failed round is retried later, whatever else was wanted.
EndRound(t) ==
    LET idle == [t EXCEPT !.store.round = "Idle", !.store.failed = FALSE]
    IN CASE t.store.failed -> [idle EXCEPT !.store.again = FALSE, !.store.due = TRUE]
         [] ~t.store.failed /\ t.store.again /\ t.store.linkUp -> StartRound(idle)
         [] OTHER -> [idle EXCEPT !.store.due = TRUE]

\* What the owner saved, and silent messages, leave the SIM; the rest is
\* offered, once. (Slots in order.)
OnListing(t, list) ==
    LET onSim == {list[i].pdu : i \in DOMAIN list}
        kept == [t EXCEPT !.store.saved = @ \cap onSim, !.store.offered = @ \cap onSim]
        deletes == {i \in DOMAIN list : list[i].pdu \in kept.store.saved \/ list[i].pdu.silent}
        slots == SetToSortSeq(DOMAIN list, <)
        Look(s, i) ==
            CASE i \in deletes -> Request(s, DeleteMessage(i))
              [] i \notin deletes /\ list[i].pdu \notin s.store.offered ->
                   Report([s EXCEPT !.store.offered = @ \cup {list[i].pdu}], Received(list[i].pdu))
              [] OTHER -> s
        looked == FoldLeft(Look, kept, slots)
    IN IF deletes = {} THEN EndRound(looked)
       ELSE [looked EXCEPT !.store.round = "Deleting", !.store.deleting = deletes]

OnListed(t, outcome, list) ==
    IF outcome = "Ok" THEN OnListing(t, list) ELSE EndRound([t EXCEPT !.store.failed = TRUE])

\* Mutant: a delete that may not have happened is sent again at once.
OnDeletedBlind(t, i, outcome) ==
    IF outcome # "Ok" THEN Request(t, DeleteMessage(i))
    ELSE LET done == [t EXCEPT !.store.deleting = @ \ {i}]
         IN IF done.store.deleting = {} THEN EndRound(done) ELSE done

OnDeleted(t, i, outcome) ==
    LET done == [t EXCEPT !.store.deleting = @ \ {i}, !.store.failed = @ \/ outcome # "Ok"]
    IN IF done.store.deleting = {} THEN EndRound(done) ELSE done

-----------------------------------------------------------------------------
(* The outbox *)

PumpOutbox(t) ==
    LET o == Head(t.store.outbox)
    IN IF t.store.sending \/ ~t.store.linkUp \/ t.store.sendBlocked \/ t.store.outbox = <<>> THEN t
       ELSE Request([t EXCEPT !.store.sending = TRUE], SendMessage(o.text, o.sent + 1))

Finished(t, o, result) == Report([t EXCEPT !.store.outbox = Tail(@)], SentEvent(o, result))

\* Mutant: a part whose fate is not known is sent again.
OnSentRetries(t, outcome) ==
    LET o == Head(t.store.outbox)
        accepted == [o EXCEPT !.sent = @ + 1, !.attempts = 0]
        tried == [o EXCEPT !.attempts = @ + 1]
        AtHead(s, entry) == [s EXCEPT !.store.outbox[1] = entry]
    IN CASE outcome = "Ok" /\ accepted.sent = o.parts -> Finished(t, accepted, "Sent")
         [] outcome = "Ok" /\ accepted.sent # o.parts -> AtHead(t, accepted)
         [] outcome \in {"NotSent", "Unknown"} /\ tried.attempts >= MAX_ATTEMPTS -> Finished(t, tried, "Failed")
         [] outcome \in {"NotSent", "Unknown"} /\ tried.attempts < MAX_ATTEMPTS ->
              AtHead([t EXCEPT !.store.sendBlocked = outcome = "NotSent"], tried)
         [] OTHER -> Finished(t, o, "Failed")

\* Only a part the modem never saw is tried again.
OnSent(t, outcome) ==
    LET o == Head(t.store.outbox)
        accepted == [o EXCEPT !.sent = @ + 1, !.attempts = 0]
        tried == [o EXCEPT !.attempts = @ + 1]
        blocked == [t EXCEPT !.store.sendBlocked = TRUE]
        AtHead(s, entry) == [s EXCEPT !.store.outbox[1] = entry]
    IN CASE outcome = "Ok" /\ accepted.sent = o.parts -> Finished(t, accepted, "Sent")
         [] outcome = "Ok" /\ accepted.sent # o.parts -> AtHead(t, accepted)
         [] outcome = "NotSent" /\ tried.attempts >= MAX_ATTEMPTS -> Finished(blocked, o, "Failed")
         [] outcome = "NotSent" /\ tried.attempts < MAX_ATTEMPTS -> AtHead(blocked, tried)
         [] OTHER -> Finished(t, o, outcome)

-----------------------------------------------------------------------------
(* handle *)

OnDone(t, n) ==
    CASE n.id[1] = "Send" -> PumpOutbox(OnSent([t EXCEPT !.store.sending = FALSE], n.outcome))
      [] n.id[1] = "List" -> OnListed(t, n.outcome, n.info)
      [] n.id[1] = "Delete" -> OnDeleted(t, n.id[2], n.outcome)

\* Mutant: texts that were held back stay so when the modem is configured again.
OnEventHolds(t, e) ==
    CASE e.k = "Configured" -> PumpOutbox(WantRound([t EXCEPT !.store.linkUp = TRUE]))
      [] e.k \in {"LinkLost", "Restarted"} -> [t EXCEPT !.store.linkUp = FALSE]
      [] e.k \in {"CMTI", "SMS DONE", "BytesLost"} -> WantRound(t)
      [] OTHER -> t

OnEvent(t, e) ==
    CASE e.k = "Configured" ->
           PumpOutbox(WantRound([t EXCEPT !.store.linkUp = TRUE, !.store.sendBlocked = FALSE]))
      [] e.k \in {"LinkLost", "Restarted"} -> [t EXCEPT !.store.linkUp = FALSE]
      [] e.k \in {"CMTI", "SMS DONE", "BytesLost"} -> WantRound(t)
      [] OTHER -> t

Handle(t, n) == IF n.o = "Done" THEN OnDone(t, n) ELSE OnEvent(t, n.e)

\* The owner hands over every notice, in order.
HandleAll(t) ==
    Once(FoldLeft(Handle, t, t.notices), LAMBDA done : [done EXCEPT !.notices = <<>>])

-----------------------------------------------------------------------------
(* The owner's calls *)

CanTick(store) == store.linkUp /\ store.round = "Idle" /\ store.due

Saved(t, pdu) ==
    IF pdu \notin t.store.offered THEN t
    ELSE WantRound([t EXCEPT !.store.offered = @ \ {pdu}, !.store.saved = @ \cup {pdu}])

SendText(t, text, parts) ==
    PumpOutbox([t EXCEPT !.store.outbox =
        Append(@, [text |-> text, parts |-> parts, sent |-> 0, attempts |-> 0])])

-----------------------------------------------------------------------------
(* Inbox::add: entries are [from, concat, parts], parts a set of PDUs *)

Total(entry) == IF entry.concat = <<>> THEN 1 ELSE entry.concat[2]
IsComplete(entry) == Cardinality(entry.parts) = Total(entry)

\* Texts a part may join: of the same sender and numbers, without this part
Open(entries, pdu) ==
    {i \in DOMAIN entries : entries[i].from = pdu.from /\ entries[i].concat = pdu.concat
        /\ ~IsComplete(entries[i]) /\ \A p \in entries[i].parts : p.seq # pdu.seq}

AddNew(entries, pdu) == Append(entries, [from |-> pdu.from, concat |-> pdu.concat, parts |-> {pdu}])

Add(entries, pdu) ==
    CASE \E i \in DOMAIN entries : pdu \in entries[i].parts -> entries
      [] ~(\E i \in DOMAIN entries : pdu \in entries[i].parts) /\ pdu.concat # <<>> /\ Open(entries, pdu) # {} ->
           [entries EXCEPT ![Min(Open(entries, pdu))].parts = @ \cup {pdu}]
      [] OTHER -> AddNew(entries, pdu)
=============================================================================
