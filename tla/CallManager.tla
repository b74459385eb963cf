---------------------------- MODULE CallManager ----------------------------
(***************************************************************************)
(* The call service (core/src/modem/call_manager.rs): operators on a       *)
(* struct that has the fields of the driver's and cm, the CallManager.     *)
(* Its port is the HAL, as in SimModem (port/tests/sim_modem.rs).          *)
(*                                                                         *)
(* The modem has one call at a time, as the simulator does, so its index   *)
(* is only whether the call was seen in a list. Left out: the volume,      *)
(* durations, what is shown of the last call, and non-voice calls.         *)
(***************************************************************************)
EXTENDS Hal

NewCm ==
    [calls |-> None, tracked |-> None, dial |-> None, query |-> FALSE,
     requery |-> FALSE, synced |-> FALSE, actions |-> {}, linkUp |-> FALSE]

(* Requests: at most one of each kind is in flight, so the kind names it *)
ListCalls == [c |-> "ListCalls", id |-> "ListCalls"]
Act(action) == [c |-> action, id |-> action]
DialOf(number) == [c |-> "Dial", id |-> number, number |-> number]

Sent(number) == [k |-> "Sent", number |-> number]
Settled == [k |-> "Settled"]

Ask(t, cmd) == [t EXCEPT !.hal = HalSubmit(@, cmd)]
Live(call) == IF call # None /\ call.state # "Disconnected" THEN call ELSE None

\* status
Incoming(cm) == cm.tracked # None /\ cm.tracked.seen /\ cm.calls # None /\ cm.calls.state = "Incoming"

-----------------------------------------------------------------------------
(* Queries *)

SubmitQuery(t) == Ask([t EXCEPT !.cm.query = TRUE], ListCalls)

\* Mutant: a query is sent whether or not one is in flight.
WantQueryAgain(t) == SubmitQuery(t)

WantQuery(t) == IF t.cm.query THEN [t EXCEPT !.cm.requery = TRUE] ELSE SubmitQuery(t)

-----------------------------------------------------------------------------
(* reconcile *)

End(cm) == [cm EXCEPT !.tracked = None, !.dial = None]

\* The tracked call against the list: a dial is adopted once it shows up, and
\* over when it cannot show up any more; any other call ends with the list.
Settle(cm, fromQuery) ==
    LET unseen == cm.tracked # None /\ ~cm.tracked.seen
        listed == cm.calls # None /\ cm.calls.dir = "Outgoing"
    IN CASE unseen /\ listed -> [cm EXCEPT !.tracked.seen = TRUE, !.dial = None]
         [] unseen /\ ~listed ->
              IF cm.dial = None \/ (fromQuery /\ cm.dial = Settled) THEN End(cm) ELSE cm
         [] ~unseen -> IF cm.tracked # None /\ cm.calls = None THEN End(cm) ELSE cm

PickUp(cm) ==
    IF cm.tracked # None \/ cm.calls = None THEN cm
    ELSE [cm EXCEPT !.tracked = [seen |-> TRUE, dir |-> cm.calls.dir, number |-> cm.calls.number]]

Refresh(cm) ==
    IF cm.tracked = None \/ cm.calls = None \/ ~cm.tracked.seen THEN cm
    ELSE [cm EXCEPT !.tracked.number = cm.calls.number]

Reconcile(cm, fromQuery) == Refresh(PickUp(Settle(cm, fromQuery)))

-----------------------------------------------------------------------------
(* handle *)

OnList(t, outcome, call) ==
    IF t.cm.requery THEN SubmitQuery([t EXCEPT !.cm.requery = FALSE])
    ELSE IF outcome # "Ok" THEN [t EXCEPT !.cm.query = FALSE, !.cm.synced = FALSE]
    ELSE [t EXCEPT !.cm = Reconcile([@ EXCEPT !.query = FALSE, !.synced = TRUE, !.calls = Live(call)], TRUE)]

\* Mutant: a dial whose answer was lost is taken for one that failed.
OnDialledGivesUp(t, outcome) ==
    IF outcome = "Ok" THEN WantQuery([t EXCEPT !.cm.dial = Settled])
    ELSE [t EXCEPT !.cm = Reconcile([@ EXCEPT !.dial = None], FALSE)]

OnDialled(t, outcome) ==
    IF outcome \in {"Ok", "Unknown"} THEN WantQuery([t EXCEPT !.cm.dial = Settled])
    ELSE [t EXCEPT !.cm = Reconcile([@ EXCEPT !.dial = None], FALSE)]

\* A hang-up is confirmed by the list, and so is an answer that failed.
OnActed(t, action, outcome) ==
    Once([t EXCEPT !.cm.actions = @ \ {action}],
         LAMBDA done : IF action = "HangUp" \/ outcome # "Ok" THEN WantQuery(done) ELSE done)

OnDone(t, n) ==
    CASE n.id = "ListCalls" -> OnList(t, n.outcome, n.info)
      [] t.cm.dial = Sent(n.id) -> OnDialled(t, n.outcome)
      [] n.id \in t.cm.actions -> OnActed(t, n.id, n.outcome)
      [] OTHER -> t

Hints == {"RING", "BEGIN", "END", "NO CARRIER", "BytesLost"}

\* Mutant: only a +CLCC counts as news.
OnEventDeaf(t, e) ==
    CASE e.k = "CLCC" -> [t EXCEPT !.cm = Reconcile([@ EXCEPT !.calls = Live(e.call)], FALSE)]
      [] e.k = "Restarted" ->
           [t EXCEPT !.cm = Reconcile([@ EXCEPT !.linkUp = FALSE, !.calls = None, !.dial = None], FALSE)]
      [] e.k = "LinkLost" -> [t EXCEPT !.cm.linkUp = FALSE]
      [] e.k = "Configured" -> [t EXCEPT !.cm.linkUp = TRUE]
      [] OTHER -> t

OnEvent(t, e) ==
    CASE e.k = "CLCC" ->
           [t EXCEPT !.cm = Reconcile([t.cm EXCEPT !.requery = @ \/ t.cm.query, !.calls = Live(e.call)], FALSE)]
      [] e.k \in Hints -> WantQuery(t)
      [] e.k = "LinkLost" -> WantQuery([t EXCEPT !.cm.linkUp = FALSE])
      [] e.k = "Restarted" ->
           WantQuery([t EXCEPT !.cm =
               Reconcile([@ EXCEPT !.linkUp = FALSE, !.calls = None, !.dial = None], FALSE)])
      [] e.k = "Configured" -> WantQuery([t EXCEPT !.cm.linkUp = TRUE])
      [] OTHER -> t

Handle(t, n) == IF n.o = "Done" THEN OnDone(t, n) ELSE OnEvent(t, n.e)

\* The owner hands over every notice, in order.
HandleAll(t) ==
    LET handled[n \in 0 .. Len(t.notices)] ==
            IF n = 0 THEN [t EXCEPT !.notices = <<>>]
            ELSE Once(handled[n - 1], LAMBDA s : Handle(s, t.notices[n]))
    IN handled[Len(t.notices)]

-----------------------------------------------------------------------------
(* The user's actions and tick, where they are not refused *)

CanDial(cm) == cm.tracked = None /\ cm.calls = None /\ cm.linkUp
DialIt(t, number) ==
    Ask([t EXCEPT !.cm.dial = Sent(number),
                  !.cm.tracked = [seen |-> FALSE, dir |-> "Outgoing", number |-> number]],
        DialOf(number))

CanAnswer(cm) == Incoming(cm) /\ cm.linkUp
CanHangUp(cm) == cm.tracked # None /\ cm.linkUp

\* act: not again while the same action is in flight.
Acts(t, action) ==
    IF action \in t.cm.actions THEN t ELSE Ask([t EXCEPT !.cm.actions = @ \cup {action}], Act(action))

Polls(cm) == ~cm.query /\ (cm.tracked # None \/ ~cm.synced)
=============================================================================
