---------------------------- MODULE AtLinkProofs ----------------------------
(***************************************************************************)
(* Theorems about AtLink for every set of commands, every number of probe  *)
(* nonces and any faults.                                                  *)
(*                                                                         *)
(* First: types, and one reply to each command, in order. Then: a link     *)
(* that is Ready is drained, nothing stale is on a wire. The invariant,    *)
(* Sync, says what the wires may hold while the link is Syncing and while  *)
(* it is Ready, with and without a command in flight; it rests on          *)
(* NoncesFresh. Then: NoncesFresh in runs of fewer faults than there are   *)
(* probe numbers. Last: what the replies say is true, no answer or text of *)
(* one command is ever taken for another's, and the engine, the wires and  *)
(* the modem together implement LinkPromise.                               *)
(***************************************************************************)
EXTENDS AtLink, FiniteSetTheorems, SequenceTheorems, TLAPS

USE PayloadsAssumption, NoCommandAssumption, NoncesAssumption, AllowedAssumption

-----------------------------------------------------------------------------
(* What the helpers of the engine and of the modem leave behind *)

\* Losing bytes leaves a received stream a received stream.
LEMMA DamagedType ==
    ASSUME NEW items \in Seq(Received), NEW d \in Damaged(items)
    PROVE  d \in Seq(Received)
<1>1. PICK p \in (0 .. Len(items)) \X (2 .. Len(items) + 1) :
            d = SubSeq(items, 1, p[1]) \o <<Lost>> \o SubSeq(items, p[2], Len(items))
      BY DEF Damaged
<1>2. SubSeq(items, 1, p[1]) \in Seq(Received)
      OBVIOUS
<1>3. SubSeq(items, p[2], Len(items)) \in Seq(Received)
      OBVIOUS
<1>4. <<Lost>> \in Seq(Received)
      BY DEF Received
<1> QED BY <1>1, <1>2, <1>3, <1>4

LEMMA EmitType ==
    ASSUME rx \in Seq(Received), faults \in Allowed,
           NEW items \in Seq(Received), Emit(items)
    PROVE  rx' \in Seq(Received) /\ faults' \in Allowed
<1>1. CASE rx' = rx \o items /\ UNCHANGED faults
      BY <1>1
<1>2. CASE Suffer("loss") /\ \E d \in Damaged(items) : rx' = rx \o d
      BY <1>2, DamagedType DEF Suffer
<1> QED BY <1>1, <1>2 DEF Emit

LEMMA StartProbeType ==
    ASSUME TypeOK, NEW first \in Seq(Written), StartProbe(first)
    PROVE  /\ state' = "Syncing" /\ nonce' \in 0 .. PROBE_NONCES /\ readBack' = FALSE
           /\ tx' \in Seq(Written)
<1>1. NextNonce \in Nonces
      BY DEF TypeOK, EngineType, NextNonce, Nonces
<1>2. <<Probe(NextNonce)>> \in Seq(Written)
      BY <1>1 DEF Written, Probe
<1>3. nonce' \in 0 .. PROBE_NONCES
      BY <1>1 DEF StartProbe, Nonces
<1> QED BY <1>2, <1>3 DEF StartProbe, TypeOK

LEMMA SettleType ==
    ASSUME TypeOK, inFlight # NoCommand,
           NEW outcome \in Outcomes, NEW source \in Sources, Settle(outcome, source)
    PROVE  replies' \in Seq(Replies)
BY DEF TypeOK, EngineType, Settle, Reply, Replies, Sources

LEMMA UnsyncType ==
    ASSUME TypeOK, Unsync
    PROVE  EngineType' /\ tx' \in Seq(Written)
<1>1. replies' \in Seq(Replies)
      <2>1. CASE inFlight = NoCommand
            BY <2>1 DEF Unsync, TypeOK, EngineType
      <2>2. CASE inFlight # NoCommand
            BY <2>2, SettleType DEF Unsync, Outcomes, Sources
      <2> QED BY <2>1, <2>2
<1>2. /\ state' = "Syncing" /\ nonce' \in 0 .. PROBE_NONCES /\ readBack' = FALSE
      /\ tx' \in Seq(Written)
      <2> DEFINE first == IF inFlight \in Payloads /\ ~payloadSent THEN <<Esc>> ELSE <<>>
      <2>1. <<Esc>> \in Seq(Written) /\ <<>> \in Seq(Written)
            BY DEF Written
      <2>2. first \in Seq(Written)
            BY <2>1
      <2> QED BY <2>2, StartProbeType DEF Unsync
<1>3. inFlight' \in Sources /\ payloadSent' \in BOOLEAN /\ info' \subseteq Sources
      BY DEF Unsync, Idle, Sources
<1>4. queue' \in Seq(Commands)
      BY DEF Unsync, TypeOK, EngineType
<1> QED BY <1>1, <1>2, <1>3, <1>4 DEF EngineType

LEMMA PumpType ==
    ASSUME TypeOK, NEW q \in Seq(Commands), Pump(q)
    PROVE  /\ state' = "Ready" /\ inFlight' \in Sources /\ payloadSent' = FALSE
           /\ info' = {} /\ queue' \in Seq(Commands)
           /\ tx' \in Seq(Written)
           /\ UNCHANGED <<nonce, readBack>>
<1>1. CASE q = <<>>
      BY <1>1 DEF Pump, TypeOK, Sources
<1>2. CASE q # <<>>
      <2>1. Head(q) \in Commands /\ Tail(q) \in Seq(Commands)
            BY <1>2
      <2>2. Cmd(Head(q)) \in Written
            BY <2>1 DEF Cmd, Written
      <2>3. tx' = Append(tx, Cmd(Head(q)))
            BY <1>2 DEF Pump
      <2>4. tx' \in Seq(Written)
            BY <2>2, <2>3 DEF TypeOK
      <2> QED BY <1>2, <2>1, <2>4 DEF Pump, Sources
<1> QED BY <1>1, <1>2

LEMMA ShortSequences ==
    ASSUME NEW S, NEW a \in S, NEW b \in S
    PROVE  <<a>> \in Seq(S) /\ <<a, b>> \in Seq(S)
OBVIOUS

LEMMA HeadTailType ==
    ASSUME NEW S, NEW s \in Seq(S), s # <<>>
    PROVE  Head(s) \in S /\ Tail(s) \in Seq(S)
OBVIOUS

LEMMA ConsumeType ==
    ASSUME TypeOK, NEW t, Consume(t)
    PROVE  /\ EngineType' /\ resetDue' \in BOOLEAN /\ tx' \in Seq(Written)
           /\ power' \in {"Off", "Boot", "On"} /\ pulse' \in BOOLEAN
           /\ Head(tx) \in Written /\ Head(tx).t = t
<1>1. tx # <<>> /\ Head(tx).t = t /\ tx' = Tail(tx)
      BY DEF Consume
<1>2. Head(tx) \in Written /\ Tail(tx) \in Seq(Written)
      BY <1>1, HeadTailType DEF TypeOK
<1>3. EngineType'
      BY DEF Consume, engineVars, TypeOK, EngineType
<1>4. UNCHANGED <<resetDue, power, pulse>>
      BY DEF Consume
<1> QED BY <1>1, <1>2, <1>3, <1>4 DEF TypeOK, ModemType

\* What a step of the modem must keep
ModemStepType ==
    /\ input' \in Payloads \cup {NoCommand} /\ garbled' \in BOOLEAN
    /\ executed' \in [Commands -> {"No", "Ok", "Failed"}]
    /\ texts' \subseteq Payloads \X Commands
    /\ rx' \in Seq(Received) /\ faults' \in Allowed

LEMMA ConsumedType ==
    ASSUME TypeOK, NEW t, Consume(t), ModemStepType
    PROVE  TypeOK'
BY ConsumeType DEF TypeOK, ModemType, ModemStepType

LEMMA TypedType ==
    ASSUME TypeOK, Typed
    PROVE  ModemStepType
BY DEF TypeOK, ModemType, Typed, ModemStepType

\* What the modem sends is what a serial line carries.
LEMMA ItemsType ==
    /\ \A c \in Sources, ok \in BOOLEAN :
          <<Final(c, ok)>> \in Seq(Received) /\ <<Info(c), Final(c, ok)>> \in Seq(Received)
    /\ \A c \in Sources : <<Prompt(c)>> \in Seq(Received)
    /\ \A n \in Nonces : <<ReadBack(n), Final(NoCommand, TRUE)>> \in Seq(Received)
    /\ <<AtReady>> \in Seq(Received)
<1>1. \A c \in Sources, ok \in BOOLEAN : Final(c, ok) \in Received
      BY DEF Final, Received
<1>2. \A c \in Sources : Info(c) \in Received /\ Prompt(c) \in Received
      BY DEF Info, Prompt, Received
<1>3. \A n \in Nonces : ReadBack(n) \in Received
      BY DEF ReadBack, Received
<1>4. AtReady \in Received
      BY DEF Received
<1>5. NoCommand \in Sources
      BY DEF Sources
<1>6. \A c \in Sources, ok \in BOOLEAN :
          <<Final(c, ok)>> \in Seq(Received) /\ <<Info(c), Final(c, ok)>> \in Seq(Received)
      BY <1>1, <1>2, ShortSequences
<1>7. \A c \in Sources : <<Prompt(c)>> \in Seq(Received)
      BY <1>2, ShortSequences
<1>8. \A n \in Nonces : <<ReadBack(n), Final(NoCommand, TRUE)>> \in Seq(Received)
      BY <1>1, <1>3, <1>5, ShortSequences
<1>9. <<AtReady>> \in Seq(Received)
      BY <1>4, ShortSequences
<1> QED BY <1>6, <1>7, <1>8, <1>9

LEMMA WrittenFields ==
    ASSUME NEW w \in Written
    PROVE  /\ w.t \in {"Cmd", "Payload"} => w.of \in Commands
           /\ w.t = "Probe" => w.n \in Nonces
BY DEF Written, Esc

LEMMA PowerOffType ==
    ASSUME TypeOK, PowerOff
    PROVE  TypeOK'
<1>1. replies' \in Seq(Replies)
      <2> DEFINE last == IF inFlight = NoCommand THEN <<>>
                         ELSE <<Reply(inFlight, "Unknown", NoCommand, info)>>
                 rest == [i \in DOMAIN queue |-> NotSent(queue[i])]
      <2>1. last \in Seq(Replies)
            <3>1. CASE inFlight = NoCommand
                  BY <3>1
            <3>2. CASE inFlight # NoCommand
                  <4>1. Reply(inFlight, "Unknown", NoCommand, info) \in Replies
                        BY <3>2 DEF TypeOK, EngineType, Reply, Replies, Outcomes, Sources
                  <4> QED BY <3>2, <4>1, ShortSequences
            <3> QED BY <3>1, <3>2
      <2>2. rest \in Seq(Replies)
            <3>1. \A c \in Commands : NotSent(c) \in Replies
                  BY DEF NotSent, Reply, Replies, Outcomes, Sources
            <3>2. queue \in Seq(Commands)
                  BY DEF TypeOK, EngineType
            <3> QED BY <3>1, <3>2
      <2>3. replies' = replies \o last \o rest
            BY DEF PowerOff
      <2> QED BY <2>1, <2>2, <2>3 DEF TypeOK, EngineType
<1>2. EngineType'
      <2>1. /\ state' = "Off" /\ nonce' = nonce /\ readBack' = FALSE /\ queue' = <<>>
            /\ inFlight' = NoCommand /\ payloadSent' = FALSE /\ info' = {}
            BY DEF PowerOff, SwitchOff, Idle
      <2>2. /\ state' \in {"Off", "Syncing", "Ready"} /\ nonce' \in 0 .. PROBE_NONCES
            /\ inFlight' \in Sources /\ info' \subseteq Sources /\ queue' \in Seq(Commands)
            BY <2>1 DEF TypeOK, EngineType, Sources
      <2> QED BY <1>1, <2>1, <2>2 DEF EngineType
<1>3. faults' \in Allowed
      BY DEF PowerOff, SwitchOff, Suffer
<1> QED BY <1>2, <1>3 DEF PowerOff, SwitchOff, TypeOK, ModemType

-----------------------------------------------------------------------------
(* Type correctness, one lemma per part of Next *)

LEMMA CallsType ==
    ASSUME TypeOK, Calls
    PROVE  TypeOK'
<1>1. ASSUME NEW c \in Commands, Submit(c) PROVE TypeOK'
      <2>1. CASE state = "Off"
            <3>1. NotSent(c) \in Replies
                  BY DEF NotSent, Reply, Replies, Outcomes, Sources
            <3>2. replies' \in Seq(Replies)
                  BY <1>1, <2>1, <3>1, SMTT(30) DEF Submit, TypeOK, EngineType
            <3>3. /\ UNCHANGED <<state, nonce, readBack, inFlight, payloadSent, info, queue, tx>>
                  /\ UNCHANGED <<resetDue, rx, modemVars, faults>>
                  BY <1>1, <2>1 DEF Submit
            <3> QED BY <3>2, <3>3 DEF TypeOK, EngineType, ModemType, modemVars
      <2>2. CASE state # "Off" /\ state = "Ready" /\ inFlight = NoCommand
            <3>1. Append(queue, c) \in Seq(Commands)
                  BY DEF TypeOK, EngineType
            <3>2. Pump(Append(queue, c)) /\ UNCHANGED <<replies, resetDue, rx, modemVars, faults>>
                  BY <1>1, <2>2 DEF Submit
            <3>3. /\ state' = "Ready" /\ inFlight' \in Sources /\ payloadSent' = FALSE
                  /\ info' = {} /\ queue' \in Seq(Commands) /\ tx' \in Seq(Written)
                  /\ UNCHANGED <<nonce, readBack>>
                  BY <3>1, <3>2, PumpType
            <3> QED BY <3>2, <3>3 DEF TypeOK, EngineType, ModemType, modemVars
      <2>3. CASE state # "Off" /\ ~(state = "Ready" /\ inFlight = NoCommand)
            <3>1. queue' = Append(queue, c) /\ queue \in Seq(Commands)
                  BY <1>1, <2>3 DEF Submit, TypeOK, EngineType
            <3>2. /\ UNCHANGED <<state, nonce, readBack, inFlight, payloadSent, info, tx, replies>>
                  /\ UNCHANGED <<resetDue, rx, modemVars, faults>>
                  BY <1>1, <2>3 DEF Submit
            <3> QED BY <3>1, <3>2 DEF TypeOK, EngineType, ModemType, modemVars
      <2> QED BY <2>1, <2>2, <2>3
<1>2. ASSUME Deadline PROVE faults' \in Allowed /\ UNCHANGED <<resetDue, rx, modemVars>>
      BY <1>2 DEF Deadline, Suffer, TypeOK
<1>3. CASE CommandTimeout
      BY <1>2, <1>3, UnsyncType DEF CommandTimeout, TypeOK, ModemType, modemVars
<1>4. CASE ProbeTimeout
      <2>1. <<>> \in Seq(Written)
            OBVIOUS
      <2>2. /\ state' = "Syncing" /\ nonce' \in 0 .. PROBE_NONCES /\ readBack' = FALSE
            /\ tx' \in Seq(Written)
            BY <1>4, <2>1, StartProbeType DEF ProbeTimeout
      <2>3. UNCHANGED <<inFlight, payloadSent, info, queue, replies>>
            BY <1>4 DEF ProbeTimeout
      <2>4. EngineType'
            BY <2>2, <2>3 DEF TypeOK, EngineType
      <2> QED BY <1>2, <1>4, <2>2, <2>4 DEF ProbeTimeout, TypeOK, ModemType, modemVars
<1>5. CASE Reset
      BY <1>5, UnsyncType DEF Reset, TypeOK, ModemType, modemVars
<1>6. CASE PowerOff
      BY <1>6, PowerOffType
<1>7. CASE PowerOn
      BY <1>7, UnsyncType DEF PowerOn, TypeOK, ModemType
<1> QED BY <1>1, <1>3, <1>4, <1>5, <1>6, <1>7 DEF Calls

LEMMA TakeType ==
    ASSUME TypeOK, NEW t, Take(t)
    PROVE  /\ rx' \in Seq(Received) /\ ModemType' /\ faults' \in Allowed
           /\ Head(rx) \in Received /\ Head(rx).t = t
<1>1. rx \in Seq(Received) /\ rx # <<>> /\ rx' = Tail(rx) /\ Head(rx).t = t
      BY DEF Take, TypeOK
<1>2. rx' \in Seq(Received) /\ Head(rx) \in Received
      BY <1>1, HeadTailType
<1>3. ModemType' /\ faults' \in Allowed
      BY DEF Take, modemVars, TypeOK, ModemType
<1> QED BY <1>1, <1>2, <1>3

LEMMA ReceivedFields ==
    ASSUME NEW r \in Received
    PROVE  /\ r.t \in {"Info", "Prompt", "Final"} => r.of \in Sources
           /\ r.t = "Final" => r.ok \in BOOLEAN
           /\ r.t = "ReadBack" => r.n \in Nonces
BY DEF Received, AtReady, Lost

LEMMA Unanswered ==
    ASSUME TypeOK, StartProbe(<<>>), UNCHANGED <<inFlight, payloadSent, info, queue, replies>>
    PROVE  EngineType' /\ tx' \in Seq(Written)
<1>1. <<>> \in Seq(Written)
      OBVIOUS
<1>2. /\ state' = "Syncing" /\ nonce' \in 0 .. PROBE_NONCES /\ readBack' = FALSE
      /\ tx' \in Seq(Written)
      BY <1>1, StartProbeType
<1> QED BY <1>2 DEF TypeOK, EngineType

LEMMA FinalType ==
    ASSUME TypeOK, OnFinal
    PROVE  EngineType' /\ tx' \in Seq(Written)
<1>1. CASE UNCHANGED <<engineVars, tx>>
      BY <1>1 DEF TypeOK, EngineType, engineVars
<1>2. CASE Pump(queue) /\ UNCHANGED replies
      <2>1. queue \in Seq(Commands)
            BY DEF TypeOK, EngineType
      <2>2. /\ state' = "Ready" /\ inFlight' \in Sources /\ payloadSent' = FALSE
            /\ info' = {} /\ queue' \in Seq(Commands) /\ tx' \in Seq(Written)
            /\ UNCHANGED <<nonce, readBack>>
            BY <1>2, <2>1, PumpType
      <2> QED BY <1>2, <2>2 DEF TypeOK, EngineType
<1>3. CASE StartProbe(<<>>) /\ UNCHANGED <<inFlight, payloadSent, info, queue, replies>>
      BY <1>3, Unanswered
<1>4. CASE Unsync
      BY <1>4, UnsyncType
<1>5. CASE /\ inFlight # NoCommand
           /\ Settle(IF Head(rx).ok THEN "Ok" ELSE "Failed", Head(rx).of)
           /\ Pump(queue)
      <2>1. Head(rx).of \in Sources
            BY TakeType, ReceivedFields DEF OnFinal
      <2>2. (IF Head(rx).ok THEN "Ok" ELSE "Failed") \in Outcomes
            BY DEF Outcomes
      <2>3. replies' \in Seq(Replies)
            BY <1>5, <2>1, <2>2, SettleType
      <2>4. queue \in Seq(Commands)
            BY DEF TypeOK, EngineType
      <2>5. /\ state' = "Ready" /\ inFlight' \in Sources /\ payloadSent' = FALSE
            /\ info' = {} /\ queue' \in Seq(Commands) /\ tx' \in Seq(Written)
            /\ UNCHANGED <<nonce, readBack>>
            BY <1>5, <2>4, PumpType
      <2> QED BY <2>3, <2>5 DEF TypeOK, EngineType
<1> QED BY <1>1, <1>2, <1>3, <1>4, <1>5 DEF OnFinal

LEMMA PromptType ==
    ASSUME TypeOK, OnPrompt
    PROVE  EngineType' /\ tx' \in Seq(Written)
<1>1. tx' \in Seq(Written)
      <2>1. CASE state = "Ready" /\ inFlight \in Payloads /\ ~payloadSent
            <3>1. Payload(inFlight) \in Written
                  BY <2>1 DEF Payload, Written
            <3>2. tx' = Append(tx, Payload(inFlight)) /\ tx \in Seq(Written)
                  BY <2>1 DEF OnPrompt, TypeOK
            <3> QED BY <3>1, <3>2
      <2>2. CASE ~(state = "Ready" /\ inFlight \in Payloads /\ ~payloadSent)
            <3>1. Esc \in Written
                  BY DEF Written
            <3>2. tx' = Append(tx, Esc) /\ tx \in Seq(Written)
                  BY <2>2 DEF OnPrompt, TypeOK
            <3> QED BY <3>1, <3>2
      <2> QED BY <2>1, <2>2
<1>2. payloadSent' \in BOOLEAN
      BY DEF OnPrompt, TypeOK, EngineType
<1>3. UNCHANGED <<state, nonce, readBack, inFlight, info, queue, replies>>
      BY DEF OnPrompt
<1> QED BY <1>1, <1>2, <1>3 DEF TypeOK, EngineType

LEMMA LostType ==
    ASSUME TypeOK, OnLost
    PROVE  EngineType' /\ tx' \in Seq(Written)
<1>1. CASE UNCHANGED <<engineVars, tx>>
      BY <1>1 DEF TypeOK, EngineType, engineVars
<1>2. CASE Unsync
      BY <1>2, UnsyncType
<1>3. CASE StartProbe(<<>>) /\ UNCHANGED <<inFlight, payloadSent, info, queue, replies>>
      BY <1>3, Unanswered
<1> QED BY <1>1, <1>2, <1>3 DEF OnLost

LEMMA ReceiveType ==
    ASSUME TypeOK, Receive
    PROVE  TypeOK'
<1>1. ASSUME NEW t, Take(t), EngineType', resetDue' \in BOOLEAN, tx' \in Seq(Written)
      PROVE  TypeOK'
      BY <1>1, TakeType DEF TypeOK
<1>2. CASE OnReadBack
      <2>1. readBack' \in BOOLEAN
            BY <1>2 DEF OnReadBack, TypeOK, EngineType
      <2>2. UNCHANGED <<state, nonce, inFlight, payloadSent, info, queue, replies, resetDue, tx>>
            BY <1>2 DEF OnReadBack
      <2>3. EngineType' /\ resetDue' \in BOOLEAN /\ tx' \in Seq(Written)
            BY <2>1, <2>2 DEF TypeOK, EngineType
      <2> QED BY <1>1, <1>2, <2>3 DEF OnReadBack
<1>3. CASE OnFinal
      <2>1. Take("Final") /\ resetDue' \in BOOLEAN
            BY <1>3 DEF OnFinal, TypeOK
      <2> QED BY <1>1, <1>3, <2>1, FinalType
<1>4. CASE OnInfo
      <2>0. Take("Info")
            BY <1>4 DEF OnInfo
      <2>1. info' \subseteq Sources
            <3>1. Head(rx).of \in Sources
                  BY <2>0, TakeType, ReceivedFields
            <3> QED BY <1>4, <3>1 DEF OnInfo, TypeOK, EngineType
      <2>2. UNCHANGED <<state, nonce, readBack, inFlight, payloadSent, queue, replies, resetDue, tx>>
            BY <1>4 DEF OnInfo
      <2>3. EngineType' /\ resetDue' \in BOOLEAN /\ tx' \in Seq(Written)
            BY <2>1, <2>2 DEF TypeOK, EngineType
      <2> QED BY <1>1, <2>0, <2>3
<1>5. CASE OnPrompt
      <2>1. Take("Prompt") /\ resetDue' \in BOOLEAN
            BY <1>5 DEF OnPrompt, TypeOK
      <2> QED BY <1>1, <1>5, <2>1, PromptType
<1>6. CASE OnAtReady
      <2>1. EngineType' /\ tx' \in Seq(Written)
            BY <1>6 DEF OnAtReady, TypeOK, EngineType, engineVars
      <2>2. Take("AtReady") /\ resetDue' \in BOOLEAN
            BY <1>6 DEF OnAtReady
      <2> QED BY <1>1, <2>1, <2>2
<1>7. CASE OnLost
      <2>1. EngineType' /\ tx' \in Seq(Written)
            BY <1>7, LostType
      <2>2. Take("Lost") /\ resetDue' \in BOOLEAN
            BY <1>7 DEF OnLost, TypeOK
      <2> QED BY <1>1, <2>1, <2>2
<1> QED BY <1>2, <1>3, <1>4, <1>5, <1>6, <1>7 DEF Receive

LEMMA ExecuteType ==
    ASSUME TypeOK, Execute
    PROVE  TypeOK'
<1> DEFINE c == Head(tx).of
<1>1. Consume("Cmd") /\ c \in Commands /\ c \in Sources
      BY ConsumeType, WrittenFields DEF Execute, Sources
<1>2. rx \in Seq(Received) /\ faults \in Allowed
      BY DEF TypeOK
<1>3. CASE Typed
      BY <1>1, <1>3, TypedType, ConsumedType
<1>4. ASSUME NEW items \in Seq(Received), Emit(items),
             executed' = executed \/ executed' = [executed EXCEPT ![c] = "Ok"]
                                  \/ executed' = [executed EXCEPT ![c] = "Failed"],
             input' \in {input, c} /\ (input' = input \/ c \in Payloads),
             garbled' \in BOOLEAN, UNCHANGED texts
      PROVE  TypeOK'
      <2>1. rx' \in Seq(Received) /\ faults' \in Allowed
            BY <1>2, <1>4, EmitType
      <2>2. executed' \in [Commands -> {"No", "Ok", "Failed"}]
            BY <1>1, <1>4 DEF TypeOK, ModemType
      <2>3. ModemStepType
            BY <1>4, <2>1, <2>2 DEF ModemStepType, TypeOK, ModemType
      <2> QED BY <1>1, <2>3, ConsumedType
<1>5. /\ <<Final(c, FALSE)>> \in Seq(Received) /\ <<Prompt(c)>> \in Seq(Received)
      /\ <<Info(c), Final(c, TRUE)>> \in Seq(Received)
      BY <1>1, ItemsType
<1>6. CASE /\ input = NoCommand /\ garbled /\ garbled' = FALSE
           /\ executed' = [executed EXCEPT ![c] = "Failed"]
           /\ Emit(<<Final(c, FALSE)>>)
           /\ UNCHANGED <<input, texts>>
      BY <1>4, <1>5, <1>6
<1>7. ASSUME UNCHANGED <<garbled, texts>> PROVE garbled' \in BOOLEAN /\ UNCHANGED texts
      BY <1>7 DEF TypeOK, ModemType
<1>8. CASE /\ executed' = [executed EXCEPT ![c] = "Ok"]
           /\ Emit(<<Info(c), Final(c, TRUE)>>)
           /\ UNCHANGED input /\ UNCHANGED <<garbled, texts>>
      BY <1>4, <1>5, <1>7, <1>8
<1>9. CASE /\ executed' = [executed EXCEPT ![c] = "Failed"]
           /\ Emit(<<Final(c, FALSE)>>)
           /\ UNCHANGED input /\ UNCHANGED <<garbled, texts>>
      BY <1>4, <1>5, <1>7, <1>9
<1>10. CASE /\ c \in Payloads /\ input' = c
            /\ Emit(<<Prompt(c)>>)
            /\ UNCHANGED executed /\ UNCHANGED <<garbled, texts>>
      BY <1>4, <1>5, <1>7, <1>10
<1> QED BY <1>3, <1>6, <1>8, <1>9, <1>10 DEF Execute

LEMMA AnswerProbeType ==
    ASSUME TypeOK, AnswerProbe
    PROVE  TypeOK'
<1> DEFINE items == IF garbled THEN <<Final(NoCommand, FALSE)>>
                    ELSE <<ReadBack(Head(tx).n), Final(NoCommand, TRUE)>>
<1>1. Consume("Probe") /\ Head(tx).n \in Nonces
      BY ConsumeType, WrittenFields DEF AnswerProbe
<1>2. CASE Typed
      BY <1>1, <1>2, TypedType, ConsumedType
<1>3. CASE garbled' = FALSE /\ Emit(items) /\ UNCHANGED <<input, executed, texts>>
      <2>1. NoCommand \in Sources
            BY DEF Sources
      <2>2. items \in Seq(Received)
            BY <1>1, <2>1, ItemsType
      <2>3. rx' \in Seq(Received) /\ faults' \in Allowed
            BY <1>3, <2>2, EmitType DEF TypeOK
      <2>4. ModemStepType
            BY <1>3, <2>3 DEF ModemStepType, TypeOK, ModemType
      <2> QED BY <1>1, <2>4, ConsumedType
<1> QED BY <1>2, <1>3 DEF AnswerProbe

LEMMA TakePayloadType ==
    ASSUME TypeOK, TakePayload
    PROVE  TypeOK'
<1> DEFINE c == Head(tx).of
<1>1. Consume("Payload") /\ c \in Commands
      BY ConsumeType, WrittenFields DEF TakePayload
<1>2. CASE garbled' = TRUE /\ UNCHANGED <<input, executed, texts, rx, faults>>
      <2>1. ModemStepType
            BY <1>2 DEF ModemStepType, TypeOK, ModemType
      <2> QED BY <1>1, <2>1, ConsumedType
<1>3. CASE /\ input # NoCommand /\ input' = NoCommand
           /\ executed' = [executed EXCEPT ![input] = "Ok"]
           /\ texts' = texts \cup {<<input, c>>}
           /\ Emit(<<Info(input), Final(input, TRUE)>>)
           /\ UNCHANGED garbled
      <2>1. input \in Payloads /\ input \in Commands /\ input \in Sources
            BY <1>3 DEF TypeOK, ModemType, Sources
      <2>2. <<Info(input), Final(input, TRUE)>> \in Seq(Received)
            BY <2>1, ItemsType
      <2>3. rx' \in Seq(Received) /\ faults' \in Allowed
            BY <1>3, <2>2, EmitType DEF TypeOK
      <2>4. executed' \in [Commands -> {"No", "Ok", "Failed"}]
            BY <1>3, <2>1 DEF TypeOK, ModemType
      <2>5. texts' \subseteq Payloads \X Commands
            BY <1>1, <1>3, <2>1 DEF TypeOK, ModemType
      <2>6. ModemStepType
            BY <1>3, <2>3, <2>4, <2>5 DEF ModemStepType, TypeOK, ModemType
      <2> QED BY <1>1, <2>6, ConsumedType
<1> QED BY <1>2, <1>3 DEF TakePayload

LEMMA TakeEscType ==
    ASSUME TypeOK, TakeEsc
    PROVE  TypeOK'
<1>1. Consume("Esc")
      BY DEF TakeEsc
<1>2. rx' \in Seq(Received) /\ faults' \in Allowed
      <2>1. CASE input = NoCommand
            BY <2>1 DEF TakeEsc, TypeOK
      <2>2. CASE input # NoCommand
            <3>1. <<Final(NoCommand, TRUE)>> \in Seq(Received)
                  BY ItemsType DEF Sources
            <3> QED BY <2>2, <3>1, EmitType DEF TakeEsc, TypeOK
      <2> QED BY <2>1, <2>2
<1>3. ModemStepType
      BY <1>2 DEF TakeEsc, ModemStepType, TypeOK, ModemType
<1> QED BY <1>1, <1>3, ConsumedType

LEMMA ExternalType ==
    ASSUME TypeOK, External
    PROVE  TypeOK'
<1>1. CASE Modem
      BY <1>1, ExecuteType, AnswerProbeType, TakePayloadType, TakeEscType DEF Modem
<1>2. tx # <<>> => Tail(tx) \in Seq(Written)
      BY HeadTailType DEF TypeOK
<1>3. CASE Ignore
      BY <1>2, <1>3 DEF Ignore, TypeOK, EngineType, ModemType, engineVars, modemVars
<1>4. CASE WriteFails
      <2>1. faults' \in Allowed /\ tx' \in Seq(Written)
            BY <1>2, <1>4 DEF WriteFails, Suffer
      <2>2. garbled' \in BOOLEAN
            BY <1>4 DEF WriteFails, TypeOK, ModemType
      <2> QED BY <1>4, <2>1, <2>2 DEF WriteFails, TypeOK, EngineType, ModemType, engineVars
<1>5. CASE Booted
      <2>1. rx' \in Seq(Received) /\ faults' \in Allowed
            BY <1>5, ItemsType, EmitType DEF Booted, TypeOK
      <2> QED BY <1>5, <2>1 DEF Booted, TypeOK, EngineType, ModemType, engineVars
<1>6. <<>> \in Seq(Written)
      OBVIOUS
<1>7. CASE Restart
      BY <1>6, <1>7 DEF Restart, Forget, Suffer, TypeOK, EngineType, ModemType, engineVars
<1>8. CASE ShutDown
      BY <1>6, <1>8 DEF ShutDown, Forget, TypeOK, EngineType, ModemType, engineVars
<1> QED BY <1>1, <1>3, <1>4, <1>5, <1>7, <1>8 DEF External

LEMMA InitType ==
    ASSUME Init
    PROVE  TypeOK
<1>1. /\ <<>> \in Seq(Commands) /\ <<>> \in Seq(Replies)
      /\ <<>> \in Seq(Written) /\ <<>> \in Seq(Received)
      OBVIOUS
<1>2. EngineType
      <2>1. 0 \in 0 .. PROBE_NONCES
            OBVIOUS
      <2> QED BY <1>1, <2>1 DEF Init, EngineType, Sources
<1>3. ModemType
      BY DEF Init, ModemType
<1> QED BY <1>1, <1>2, <1>3 DEF Init, TypeOK

\* Every variable keeps its type, for any commands, nonces and faults.
THEOREM TypeCorrect == Spec => []TypeOK
<1>1. Init => TypeOK
      BY InitType
<1>2. TypeOK /\ [Next]_vars => TypeOK'
      <2>1. CASE Next
            BY <2>1, CallsType, ReceiveType, ExternalType DEF Next
      <2>2. CASE UNCHANGED vars
            BY <2>2 DEF vars, engineVars, modemVars, TypeOK, EngineType, ModemType
      <2> QED BY <2>1, <2>2
<1> QED BY <1>1, <1>2, PTL DEF Spec

-----------------------------------------------------------------------------
(* One reply for every command. The sequence Asked (answered, in flight,   *)
(* queued) is never reordered: a step leaves it or adds a new command.     *)

LEMMA IdsType ==
    ASSUME NEW r \in Seq(Replies)
    PROVE  /\ Ids(r) \in Seq(Commands) /\ Len(Ids(r)) = Len(r)
           /\ \A i \in 1 .. Len(r) : Ids(r)[i] = r[i].id
<1>1. ASSUME NEW i \in 1 .. Len(r) PROVE r[i].id \in Commands
      <2>1. r[i] \in Replies
            BY ElementOfSeq
      <2> QED BY <2>1 DEF Replies
<1>2. DOMAIN r = 1 .. Len(r) /\ Len(r) \in Nat
      BY LenProperties
<1> QED BY <1>1, <1>2 DEF Ids

LEMMA IdsConcat ==
    ASSUME NEW r \in Seq(Replies), NEW s \in Seq(Replies)
    PROVE  Ids(r \o s) = Ids(r) \o Ids(s)
<1>1. r \o s \in Seq(Replies) /\ Len(r \o s) = Len(r) + Len(s)
      OBVIOUS
<1>2. /\ Ids(r) \in Seq(Commands) /\ Ids(s) \in Seq(Commands)
      /\ Ids(r \o s) \in Seq(Commands) /\ Ids(r) \o Ids(s) \in Seq(Commands)
      BY <1>1, IdsType, ConcatProperties
<1>3. /\ Len(Ids(r)) = Len(r) /\ Len(Ids(s)) = Len(s)
      /\ Len(Ids(r \o s)) = Len(r) + Len(s)
      /\ Len(Ids(r) \o Ids(s)) = Len(r) + Len(s)
      <2>1. Len(Ids(r)) = Len(r) /\ Len(Ids(s)) = Len(s) /\ Len(Ids(r \o s)) = Len(r \o s)
            BY <1>1, IdsType
      <2>2. Len(Ids(r) \o Ids(s)) = Len(Ids(r)) + Len(Ids(s))
            BY <1>2, ConcatProperties
      <2> QED BY <1>1, <2>1, <2>2
<1>4. ASSUME NEW i \in 1 .. Len(r) + Len(s)
      PROVE  Ids(r \o s)[i] = (Ids(r) \o Ids(s))[i]
      <2>1. Ids(r \o s)[i] = (r \o s)[i].id
            BY <1>1, IdsType
      <2>2. CASE i \in 1 .. Len(r)
            <3>1. (r \o s)[i] = r[i] /\ (Ids(r) \o Ids(s))[i] = Ids(r)[i]
                  BY <1>2, <1>3, <2>2
            <3> QED BY <2>1, <2>2, <3>1, IdsType
      <2>3. CASE i \notin 1 .. Len(r)
            <3>1. i - Len(r) \in 1 .. Len(s)
                  BY <2>3
            <3>2. (r \o s)[i] = s[i - Len(r)] /\ (Ids(r) \o Ids(s))[i] = Ids(s)[i - Len(r)]
                  BY <1>2, <1>3, <2>3
            <3> QED BY <2>1, <3>1, <3>2, IdsType
      <2> QED BY <2>2, <2>3
<1> QED BY <1>2, <1>3, <1>4, SeqEqual

LEMMA IdsSingle ==
    ASSUME NEW x \in Replies
    PROVE  <<x>> \in Seq(Replies) /\ Ids(<<x>>) = <<x.id>>
BY DEF Ids

LEMMA IdsAppend ==
    ASSUME NEW r \in Seq(Replies), NEW x \in Replies
    PROVE  /\ Append(r, x) \in Seq(Replies)
           /\ Ids(Append(r, x)) = Ids(r) \o <<x.id>>
<1>1. Append(r, x) = r \o <<x>>
      OBVIOUS
<1>2. <<x>> \in Seq(Replies) /\ Ids(<<x>>) = <<x.id>>
      BY IdsSingle
<1>3. Ids(r \o <<x>>) = Ids(r) \o Ids(<<x>>)
      BY <1>2, IdsConcat
<1>4. r \o <<x>> \in Seq(Replies)
      BY <1>2, ConcatProperties
<1>5. Append(r, x) \in Seq(Replies)
      BY <1>1, <1>4
<1>6. Ids(Append(r, x)) = Ids(r \o <<x>>)
      BY <1>1
<1> QED BY <1>2, <1>3, <1>5, <1>6

LEMMA PendingType ==
    ASSUME TypeOK
    PROVE  /\ Ids(replies) \in Seq(Commands)
           /\ Pending \in Seq(Commands) /\ queue \in Seq(Commands)
           /\ Pending \o queue \in Seq(Commands) /\ Asked \in Seq(Commands)
<1>1. Ids(replies) \in Seq(Commands)
      BY IdsType DEF TypeOK, EngineType
<1>2. Pending \in Seq(Commands)
      <2>1. CASE inFlight = NoCommand
            BY <2>1 DEF Pending
      <2>2. CASE inFlight # NoCommand
            <3>1. inFlight \in Commands
                  BY <2>2 DEF TypeOK, EngineType, Sources
            <3> QED BY <2>2, <3>1 DEF Pending
      <2> QED BY <2>1, <2>2
<1>3. queue \in Seq(Commands)
      BY DEF TypeOK, EngineType
<1>4. Pending \o queue \in Seq(Commands)
      BY <1>2, <1>3, ConcatProperties
<1> QED BY <1>1, <1>2, <1>3, <1>4, ConcatProperties DEF Asked

LEMMA AskedUnchanged ==
    ASSUME UNCHANGED <<replies, inFlight, queue>>
    PROVE  Asked' = Asked
BY DEF Asked, Ids, Pending

\* Sending the next command only moves it.
LEMMA PumpAsked ==
    ASSUME NEW q \in Seq(Commands), Pump(q)
    PROVE  (Pending \o queue)' = q
<1>1. CASE q = <<>>
      <2>1. Pending' = <<>> /\ queue' = q
            BY <1>1 DEF Pump, Pending
      <2> QED BY <2>1, ConcatEmptySeq
<1>2. CASE q # <<>>
      <2>1. Head(q) \in Commands /\ inFlight' = Head(q) /\ queue' = Tail(q)
            BY <1>2, HeadTailType DEF Pump
      <2>2. Pending' = <<Head(q)>>
            BY <2>1 DEF Pending
      <2>3. <<Head(q)>> \o Tail(q) = q
            BY <1>2
      <2> QED BY <2>1, <2>2, <2>3
<1> QED BY <1>1, <1>2

\* Answering the command in flight only moves it.
LEMMA SettleAsked ==
    ASSUME TypeOK, inFlight # NoCommand,
           NEW outcome \in Outcomes, NEW source \in Sources, Settle(outcome, source)
    PROVE  Ids(replies') = Ids(replies) \o Pending
<1>1. Reply(inFlight, outcome, source, info) \in Replies
      BY DEF TypeOK, EngineType, Reply, Replies, Sources
<1>2. replies \in Seq(Replies)
      BY DEF TypeOK, EngineType
<1>3. Reply(inFlight, outcome, source, info).id = inFlight
      BY DEF Reply
<1> QED BY <1>1, <1>2, <1>3, IdsAppend DEF Settle, Pending

LEMMA UnsyncAsked ==
    ASSUME TypeOK, Unsync
    PROVE  Asked' = Asked
<1>1. Pending' = <<>> /\ queue' = queue
      BY DEF Unsync, Idle, Pending
<1>2. /\ Ids(replies) \in Seq(Commands) /\ Pending \in Seq(Commands)
      /\ queue \in Seq(Commands)
      BY PendingType
<1>3. (Pending \o queue)' = queue
      BY <1>1, <1>2, ConcatEmptySeq
<1>4. CASE inFlight = NoCommand
      <2>1. Pending = <<>> /\ replies' = replies
            BY <1>4 DEF Unsync, Pending
      <2>2. Pending \o queue = queue
            BY <1>2, <2>1, ConcatEmptySeq
      <2>3. Ids(replies') = Ids(replies)
            BY <2>1
      <2> QED BY <1>3, <2>2, <2>3 DEF Asked, Ids
<1>5. CASE inFlight # NoCommand
      <2>1. Ids(replies') = Ids(replies) \o Pending
            BY <1>5, SettleAsked DEF Unsync, Outcomes, Sources
      <2>2. (Ids(replies) \o Pending) \o queue = Ids(replies) \o (Pending \o queue)
            BY <1>2, ConcatAssociative, SMTT(60)
      <2>3. Asked' = Ids(replies') \o queue
            BY <1>3 DEF Asked, Ids
      <2> QED BY <2>1, <2>2, <2>3 DEF Asked
<1> QED BY <1>4, <1>5

LEMMA SubmitAsked ==
    ASSUME TypeOK, Placed, NEW c \in Commands, Submit(c)
    PROVE  Asked' = Append(Asked, c)
<1>1. /\ Ids(replies) \in Seq(Commands) /\ Pending \in Seq(Commands)
      /\ queue \in Seq(Commands) /\ Asked \in Seq(Commands)
      /\ Pending \o queue \in Seq(Commands)
      BY PendingType
<1>2. <<c>> \in Seq(Commands)
      OBVIOUS
<1>3. Append(Asked, c) = Asked \o <<c>> /\ Append(queue, c) = queue \o <<c>>
      BY <1>1, SMTT(30)
<1>4. CASE state = "Off"
      <2>1. inFlight = NoCommand /\ queue = <<>>
            BY <1>4 DEF Placed
      <2>2. NotSent(c) \in Replies /\ NotSent(c).id = c
            BY DEF NotSent, Reply, Replies, Outcomes, Sources
      <2>3. /\ replies' = Append(replies, NotSent(c))
            /\ inFlight' = NoCommand /\ queue' = <<>>
            BY <1>4, <2>1 DEF Submit
      <2>4. Ids(replies') = Ids(replies) \o <<c>>
            BY <2>2, <2>3, IdsAppend DEF TypeOK, EngineType
      <2>5. Pending \o queue = <<>> /\ (Pending \o queue)' = <<>>
            BY <2>1, <2>3 DEF Pending
      <2>6. Asked = Ids(replies)
            BY <1>1, <2>5, ConcatEmptySeq DEF Asked
      <2>7. Asked' = Ids(replies')
            <3>1. Asked' = Ids(replies') \o <<>>
                  BY <2>5 DEF Asked, Ids
            <3>2. Ids(replies') \in Seq(Commands)
                  BY <1>1, <1>2, <2>4, ConcatProperties
            <3> QED BY <3>1, <3>2, ConcatEmptySeq
      <2> QED BY <1>3, <2>4, <2>6, <2>7
<1>5. CASE state # "Off"
      <2>1. replies' = replies
            BY <1>5 DEF Submit
      <2>2. (Pending \o queue)' = (Pending \o queue) \o <<c>>
            <3>1. CASE state = "Ready" /\ inFlight = NoCommand
                  <4>1. Pump(Append(queue, c))
                        BY <1>5, <3>1 DEF Submit
                  <4>2. Append(queue, c) \in Seq(Commands)
                        BY <1>1
                  <4>4. (Pending \o queue)' = Append(queue, c)
                        BY <4>1, <4>2, PumpAsked
                  <4>3. Pending \o queue = queue
                        BY <1>1, <3>1, ConcatEmptySeq DEF Pending
                  <4> QED BY <1>3, <4>3, <4>4
            <3>2. CASE ~(state = "Ready" /\ inFlight = NoCommand)
                  <4>1. queue' = Append(queue, c) /\ Pending' = Pending
                        BY <1>5, <3>2 DEF Submit, Pending
                  <4> QED BY <1>1, <1>2, <1>3, <4>1, ConcatAssociative
            <3> QED BY <3>1, <3>2
      <2>3. Asked' = Ids(replies) \o ((Pending \o queue) \o <<c>>)
            BY <2>1, <2>2 DEF Asked, Ids
      <2>4. Ids(replies) \o ((Pending \o queue) \o <<c>>) = Asked \o <<c>>
            BY <1>1, <1>2, ConcatAssociative DEF Asked
      <2> QED BY <1>3, <2>3, <2>4
<1> QED BY <1>4, <1>5

LEMMA PowerOffAsked ==
    ASSUME TypeOK, PowerOff
    PROVE  Asked' = Asked
<1> DEFINE last == IF inFlight = NoCommand THEN <<>>
                   ELSE <<Reply(inFlight, "Unknown", NoCommand, info)>>
           rest == [i \in DOMAIN queue |-> NotSent(queue[i])]
<1>1. /\ Ids(replies) \in Seq(Commands) /\ Pending \in Seq(Commands)
      /\ queue \in Seq(Commands)
      BY PendingType
<1>2. replies \in Seq(Replies)
      BY DEF TypeOK, EngineType
<1>3. last \in Seq(Replies) /\ Ids(last) = Pending
      <2>1. CASE inFlight = NoCommand
            BY <2>1 DEF Pending, Ids
      <2>2. CASE inFlight # NoCommand
            <3>1. Reply(inFlight, "Unknown", NoCommand, info) \in Replies
                  BY <2>2 DEF TypeOK, EngineType, Reply, Replies, Outcomes, Sources
            <3>2. Reply(inFlight, "Unknown", NoCommand, info).id = inFlight
                  BY DEF Reply
            <3> QED BY <2>2, <3>1, <3>2, IdsSingle DEF Pending
      <2> QED BY <2>1, <2>2
<1>4. rest \in Seq(Replies) /\ Ids(rest) = queue
      <2>1. \A c \in Commands : NotSent(c) \in Replies /\ NotSent(c).id = c
            BY DEF NotSent, Reply, Replies, Outcomes, Sources
      <2>2. DOMAIN queue = 1 .. Len(queue) /\ Len(queue) \in Nat
            BY <1>1
      <2>3. \A i \in 1 .. Len(queue) : queue[i] \in Commands
            BY <1>1, ElementOfSeq
      <2>4. rest \in Seq(Replies) /\ Len(rest) = Len(queue)
            BY <2>1, <2>2, <2>3
      <2>5. \A i \in 1 .. Len(queue) : rest[i].id = queue[i]
            BY <2>1, <2>2, <2>3
      <2>6. /\ Ids(rest) \in Seq(Commands) /\ Len(Ids(rest)) = Len(rest)
            /\ \A i \in 1 .. Len(rest) : Ids(rest)[i] = rest[i].id
            BY <2>4, IdsType
      <2>7. \A i \in 1 .. Len(queue) : Ids(rest)[i] = queue[i]
            BY <2>4, <2>5, <2>6
      <2>8. Ids(rest) = queue
            BY <1>1, <2>4, <2>6, <2>7, SeqEqual
      <2> QED BY <2>4, <2>8
<1>5. replies' = (replies \o last) \o rest
      BY DEF PowerOff
<1>6. inFlight' = NoCommand /\ queue' = <<>>
      BY DEF PowerOff, SwitchOff, Idle
<1> HIDE DEF last, rest
<1>7. replies \o last \in Seq(Replies) /\ Ids(replies \o last) = Ids(replies) \o Pending
      BY <1>2, <1>3, IdsConcat, ConcatProperties
<1>8. Ids(replies') = (Ids(replies) \o Pending) \o queue
      BY <1>4, <1>5, <1>7, IdsConcat
<1>9. (Ids(replies) \o Pending) \o queue = Asked
      BY <1>1, ConcatAssociative DEF Asked
<1>10. Asked' = Ids(replies')
      <2>1. (Pending \o queue)' = <<>>
            BY <1>6 DEF Pending
      <2>2. Asked' = Ids(replies') \o <<>>
            BY <2>1 DEF Asked, Ids
      <2>3. Ids(replies') \in Seq(Commands)
            BY <1>8, <1>9, PendingType
      <2> QED BY <2>2, <2>3, ConcatEmptySeq
<1> QED BY <1>8, <1>9, <1>10

LEMMA OnFinalAsked ==
    ASSUME TypeOK, Placed, OnFinal
    PROVE  Asked' = Asked
<1>1. /\ Ids(replies) \in Seq(Commands) /\ Pending \in Seq(Commands)
      /\ queue \in Seq(Commands)
      BY PendingType
<1>2. CASE UNCHANGED <<engineVars, tx>>
      BY <1>2, AskedUnchanged DEF engineVars
<1>3. CASE state = "Syncing" /\ Pump(queue) /\ UNCHANGED replies
      <2>1. inFlight = NoCommand
            BY <1>3 DEF Placed
      <2>2. Pending \o queue = queue
            BY <1>1, <2>1, ConcatEmptySeq DEF Pending
      <2>3. (Pending \o queue)' = queue
            BY <1>1, <1>3, PumpAsked
      <2> QED BY <1>3, <2>2, <2>3 DEF Asked, Ids
<1>4. CASE UNCHANGED <<inFlight, queue, replies>>
      BY <1>4, AskedUnchanged
<1>5. CASE Unsync
      BY <1>5, UnsyncAsked
<1>6. CASE /\ inFlight # NoCommand
           /\ Settle(IF Head(rx).ok THEN "Ok" ELSE "Failed", Head(rx).of)
           /\ Pump(queue)
      <2>1. Take("Final")
            BY DEF OnFinal
      <2>2. Head(rx).of \in Sources
            BY <2>1, TakeType, ReceivedFields
      <2>3. (IF Head(rx).ok THEN "Ok" ELSE "Failed") \in Outcomes
            BY DEF Outcomes
      <2>4. Ids(replies') = Ids(replies) \o Pending
            BY <1>6, <2>2, <2>3, SettleAsked
      <2>5. (Pending \o queue)' = queue
            BY <1>1, <1>6, PumpAsked
      <2>6. Asked' = (Ids(replies) \o Pending) \o queue
            BY <2>4, <2>5 DEF Asked, Ids
      <2>7. (Ids(replies) \o Pending) \o queue = Asked
            BY <1>1, ConcatAssociative DEF Asked
      <2> QED BY <2>6, <2>7
<1> QED BY <1>2, <1>3, <1>4, <1>5, <1>6 DEF OnFinal

\* No step reorders or drops a command, only Submit adds one.
LEMMA AskedStep ==
    ASSUME TypeOK, Placed, [Next]_vars
    PROVE  \/ Asked' = Asked
           \/ \E c \in Commands : Submit(c) /\ New(c) /\ Asked' = Append(Asked, c)
<1>1. CASE \E c \in Commands : Submit(c)
      <2>1. PICK c \in Commands : Submit(c)
            BY <1>1
      <2>2. New(c)
            BY <2>1 DEF Submit
      <2> QED BY <2>1, <2>2, SubmitAsked
<1>2. CASE CommandTimeout
      BY <1>2, UnsyncAsked DEF CommandTimeout
<1>3. CASE ProbeTimeout
      BY <1>3, AskedUnchanged DEF ProbeTimeout
<1>4. CASE Reset
      BY <1>4, UnsyncAsked DEF Reset
<1>5. CASE PowerOff
      BY <1>5, PowerOffAsked
<1>6. CASE PowerOn
      BY <1>6, UnsyncAsked DEF PowerOn
<1>7. CASE OnFinal
      BY <1>7, OnFinalAsked
<1>8. CASE OnReadBack
      BY <1>8, AskedUnchanged DEF OnReadBack
<1>9. CASE OnInfo
      BY <1>9, AskedUnchanged DEF OnInfo
<1>10. CASE OnPrompt
      BY <1>10, AskedUnchanged DEF OnPrompt
<1>11. CASE OnAtReady
      BY <1>11, AskedUnchanged DEF OnAtReady, engineVars
<1>12. CASE OnLost
      <2>1. CASE Unsync
            BY <2>1, UnsyncAsked
      <2>2. CASE UNCHANGED <<engineVars, tx>>
            BY <2>2, AskedUnchanged DEF engineVars
      <2>3. CASE UNCHANGED <<inFlight, payloadSent, info, queue, replies>>
            BY <2>3, AskedUnchanged
      <2> QED BY <1>12, <2>1, <2>2, <2>3 DEF OnLost
<1>13. CASE External
      <2>1. UNCHANGED engineVars
            BY <1>13 DEF External, Modem, Execute, AnswerProbe, TakePayload, TakeEsc, Consume,
                         Ignore, WriteFails, Booted, Restart, ShutDown
      <2> QED BY <2>1, AskedUnchanged DEF engineVars
<1>14. CASE UNCHANGED vars
      BY <1>14, AskedUnchanged DEF vars, engineVars
<1> QED BY <1>1, <1>2, <1>3, <1>4, <1>5, <1>6, <1>7, <1>8, <1>9, <1>10, <1>11, <1>12, <1>13, <1>14
        DEF Next, Calls, Receive

LEMMA PumpPlaced ==
    ASSUME NEW q \in Seq(Commands), Pump(q)
    PROVE  Placed'
<1>1. CASE q = <<>>
      BY <1>1 DEF Pump, Placed
<1>2. CASE q # <<>>
      <2>1. Head(q) \in Commands
            BY <1>2, HeadTailType
      <2> QED BY <1>2, <2>1, NoCommandAssumption DEF Pump, Placed
<1> QED BY <1>1, <1>2

LEMMA UnsyncPlaced ==
    ASSUME Unsync
    PROVE  Placed'
BY DEF Unsync, Idle, StartProbe, Placed

LEMMA PlacedUnchanged ==
    ASSUME Placed, UNCHANGED <<state, inFlight, queue>>
    PROVE  Placed'
BY DEF Placed

\* A new probe while Syncing: nothing was in flight.
LEMMA ProbePlaced ==
    ASSUME Placed, state = "Syncing", StartProbe(<<>>), UNCHANGED <<inFlight, queue>>
    PROVE  Placed'
BY DEF Placed, StartProbe

LEMMA PlacedStep ==
    ASSUME TypeOK, Placed, [Next]_vars
    PROVE  Placed'
<1>1. queue \in Seq(Commands)
      BY DEF TypeOK, EngineType
<1>2. CASE \E c \in Commands : Submit(c)
      <2>1. PICK c \in Commands : Submit(c)
            BY <1>2
      <2>2. CASE state = "Off"
            <3>1. UNCHANGED <<state, inFlight, queue>>
                  BY <2>1, <2>2 DEF Submit
            <3> QED BY <3>1, PlacedUnchanged
      <2>3. CASE state = "Ready" /\ inFlight = NoCommand
            <3>1. Append(queue, c) \in Seq(Commands)
                  BY <1>1
            <3>2. Pump(Append(queue, c))
                  BY <2>1, <2>3 DEF Submit
            <3> QED BY <3>1, <3>2, PumpPlaced
      <2>4. CASE state # "Off" /\ ~(state = "Ready" /\ inFlight = NoCommand)
            <3>1. UNCHANGED <<state, inFlight>>
                  BY <2>1, <2>4 DEF Submit
            <3>2. state \in {"Syncing", "Ready"}
                  BY <2>4 DEF TypeOK, EngineType
            <3> QED BY <2>4, <3>1, <3>2 DEF Placed
      <2> QED BY <2>2, <2>3, <2>4
<1>3. CASE CommandTimeout \/ Reset \/ PowerOn
      BY <1>3, UnsyncPlaced DEF CommandTimeout, Reset, PowerOn
<1>4. CASE ProbeTimeout
      BY <1>4, ProbePlaced DEF ProbeTimeout
<1>5. CASE PowerOff
      BY <1>5 DEF PowerOff, SwitchOff, Idle, Placed
<1>6. CASE OnReadBack \/ OnInfo \/ OnPrompt
      <2>1. UNCHANGED <<state, inFlight, queue>>
            BY <1>6 DEF OnReadBack, OnInfo, OnPrompt
      <2> QED BY <2>1, PlacedUnchanged
<1>7. CASE OnAtReady
      BY <1>7, PlacedUnchanged DEF OnAtReady, engineVars
<1>8. CASE OnFinal
      <2>1. CASE UNCHANGED <<engineVars, tx>>
            BY <2>1, PlacedUnchanged DEF engineVars
      <2>2. CASE Pump(queue)
            BY <1>1, <2>2, PumpPlaced
      <2>3. CASE /\ state = "Syncing" /\ StartProbe(<<>>)
                 /\ UNCHANGED <<inFlight, payloadSent, info, queue, replies>>
            BY <2>3, ProbePlaced
      <2>4. CASE Unsync
            BY <2>4, UnsyncPlaced
      <2> QED BY <1>8, <2>1, <2>2, <2>3, <2>4 DEF OnFinal
<1>9. CASE OnLost
      <2>1. CASE UNCHANGED <<engineVars, tx>>
            BY <2>1, PlacedUnchanged DEF engineVars
      <2>2. CASE Unsync
            BY <2>2, UnsyncPlaced
      <2>3. CASE /\ state = "Syncing" /\ StartProbe(<<>>)
                 /\ UNCHANGED <<inFlight, payloadSent, info, queue, replies>>
            BY <2>3, ProbePlaced
      <2> QED BY <1>9, <2>1, <2>2, <2>3 DEF OnLost
<1>10. CASE External
      <2>1. UNCHANGED engineVars
            BY <1>10 DEF External, Modem, Execute, AnswerProbe, TakePayload, TakeEsc, Consume,
                         Ignore, WriteFails, Booted, Restart, ShutDown
      <2> QED BY <2>1, PlacedUnchanged DEF engineVars
<1>11. CASE UNCHANGED vars
      BY <1>11, PlacedUnchanged DEF vars, engineVars
<1> QED BY <1>2, <1>3, <1>4, <1>5, <1>6, <1>7, <1>8, <1>9, <1>10, <1>11
        DEF Next, Calls, Receive

LEMMA OnceStep ==
    ASSUME TypeOK, Once,
           \/ Asked' = Asked
           \/ \E c \in Commands : New(c) /\ Asked' = Append(Asked, c)
    PROVE  Once'
<1>1. CASE Asked' = Asked
      BY <1>1 DEF Once
<1>2. CASE \E c \in Commands : New(c) /\ Asked' = Append(Asked, c)
      <2>1. PICK c \in Commands : New(c) /\ Asked' = Append(Asked, c)
            BY <1>2
      <2>2. Asked \in Seq(Commands)
            BY PendingType
      <2> DEFINE all == Asked
      <2>3. /\ all \in Seq(Commands)
            /\ \A i \in DOMAIN all : all[i] # c
            /\ \A i, j \in DOMAIN all : all[i] = all[j] => i = j
            BY <2>1, <2>2 DEF New, Once
      <2> HIDE DEF all
      <2>4. ASSUME NEW i \in DOMAIN Append(all, c), NEW j \in DOMAIN Append(all, c),
                   Append(all, c)[i] = Append(all, c)[j]
            PROVE  i = j
            <3>1. /\ DOMAIN Append(all, c) = 1 .. Len(all) + 1
                  /\ DOMAIN all = 1 .. Len(all) /\ Len(all) \in Nat
                  /\ \A k \in 1 .. Len(all) : Append(all, c)[k] = all[k]
                  /\ Append(all, c)[Len(all) + 1] = c
                  BY <2>3
            <3> QED BY <2>3, <2>4, <3>1
      <2>5. Asked' = Append(all, c)
            BY <2>1 DEF all
      <2> QED BY <2>4, <2>5 DEF Once
<1> QED BY <1>1, <1>2

\* Every command submitted is in exactly one place (answered, in flight or
\* waiting) and none waits for nothing: one reply per command, for any number
\* of commands and any faults (link.rs:35-36). OneReply is inductive once the
\* types are known: Placed is what lets Submit answer at once and Pump send
\* without overwriting a command in flight.
THEOREM OneReplyAlways == Spec => []OneReply
<1>1. Init => OneReply
      <2>1. ASSUME Init PROVE OneReply
            <3>1. Pending = <<>> /\ queue = <<>> /\ Ids(replies) = <<>>
                  BY <2>1 DEF Init, Pending, Ids
            <3>2. Asked = <<>>
                  BY <3>1 DEF Asked
            <3> QED BY <2>1, <3>2 DEF Init, OneReply, Once, Placed
      <2> QED BY <2>1
<1>2. TypeOK /\ OneReply /\ [Next]_vars => OneReply'
      BY AskedStep, OnceStep, PlacedStep DEF OneReply
<1>3. Spec => []TypeOK
      BY TypeCorrect
<1> QED BY <1>1, <1>2, <1>3, PTL DEF Spec

\* No call, timeout, loss or restart reorders, repeats or drops a command, for any
\* number of commands in the queue (link.rs:35, 319-326).
THEOREM InOrderAlways == Spec => InOrder
<1>1. TypeOK /\ OneReply /\ [Next]_vars =>
        [Asked' = Asked \/ \E c \in Commands : New(c) /\ Asked' = Append(Asked, c)]_vars
      BY AskedStep DEF OneReply
<1>2. Spec => []TypeOK
      BY TypeCorrect
<1>3. Spec => []OneReply
      BY OneReplyAlways
<1> QED BY <1>1, <1>2, <1>3, PTL DEF Spec, InOrder


-----------------------------------------------------------------------------
(* What the wires may hold                                                 *)

\* Nothing but loss markers and *ATREADY is behind place k of what is received.
QuietAfter(k) == \A j \in DOMAIN rx : j > k => rx[j].t \in {"AtReady", "Lost"}

\* All that is on its way to the modem is ESC.
OnlyEsc == \A i \in DOMAIN tx : tx[i].t = "Esc"

\* At most one command or text is on its way; nothing but ESC is ahead of a command,
\* nothing is ahead of a text, and the modem does not wait for another's.
TxShape == \A i \in DOMAIN tx :
    /\ tx[i].t = "Cmd" =>
        /\ \A j \in DOMAIN tx : (j < i => tx[j].t = "Esc") /\ (j > i => tx[j].t \in {"Esc", "Probe"})
        /\ input = NoCommand
    /\ tx[i].t = "Payload" =>
        /\ i = 1
        /\ \A j \in DOMAIN tx : j > 1 => tx[j].t \in {"Esc", "Probe"}
        /\ input \in {tx[i].of, NoCommand}

\* The read-back of the latest probe was received at k: its final code comes
\* next, or a loss, and nothing else.
Confirmed(k) ==
    /\ k + 1 \in DOMAIN rx
    /\ rx[k + 1].t = "Lost" \/ (rx[k + 1].t = "Final" /\ rx[k + 1].of = NoCommand /\ rx[k + 1].ok = TRUE)
    /\ QuietAfter(k + 1) /\ OnlyEsc /\ input = NoCommand

\* Syncing: the latest probe is the last item the modem will answer, its
\* read-back is followed by its OK, and a read-back taken awaits its OK.
Syncs == state = "Syncing" =>
    /\ \A i, j \in DOMAIN tx : tx[i].t = "Probe" /\ tx[i].n = nonce /\ j > i => tx[j].t = "Esc"
    /\ \A k \in DOMAIN rx : rx[k].t = "ReadBack" /\ rx[k].n = nonce => Confirmed(k)
    /\ readBack => Confirmed(0)

\* Ready and idle: nothing is on a wire that the modem or we would act upon.
Rests == state = "Ready" /\ inFlight = NoCommand => OnlyEsc /\ QuietAfter(0) /\ input = NoCommand

\* The command in flight is on its way, the last item written.
Sent ==
    /\ tx # <<>> /\ tx[Len(tx)].t = "Cmd" /\ tx[Len(tx)].of = inFlight
    /\ QuietAfter(0) /\ ~payloadSent

\* Its text is on its way, alone.
Texting ==
    /\ Len(tx) = 1 /\ tx[1].t = "Payload" /\ tx[1].of = inFlight
    /\ QuietAfter(0) /\ payloadSent

\* What is received at k is the answer of the command in flight, in its place.
Expected(k) ==
    \/ rx[k].t \in {"AtReady", "Lost"}
    \/ /\ rx[k].t = "Prompt" /\ rx[k].of = inFlight /\ QuietAfter(k)
       /\ inFlight \in Payloads /\ ~payloadSent
    \/ /\ rx[k].t = "Info" /\ rx[k].of = inFlight /\ input = NoCommand
       /\ k + 1 \in DOMAIN rx /\ (rx[k + 1].t = "Final" \/ rx[k + 1].t = "Lost")
    \/ /\ rx[k].t = "Final" /\ rx[k].of = inFlight /\ QuietAfter(k) /\ input = NoCommand
       /\ rx[k].ok => IF k = 1 THEN info = {inFlight} ELSE rx[k - 1].t \in {"Info", "Lost"}

\* The modem has all that was written; only answers are on their way.
Waiting == tx = <<>> /\ \A k \in DOMAIN rx : Expected(k)

\* A command in flight: it is on its way, or its text is, or an answer is awaited.
Works == state = "Ready" /\ inFlight # NoCommand =>
    /\ info \subseteq {inFlight} /\ input \in {inFlight, NoCommand}
    /\ Sent \/ Texting \/ Waiting

-----------------------------------------------------------------------------
(* Sequences *)

\* Taking the first item off a wire
LEMMA Shifted ==
    ASSUME NEW S, NEW s \in Seq(S), s # <<>>
    PROVE  /\ Tail(s) \in Seq(S) /\ Len(s) \in Nat /\ Len(s) >= 1 /\ DOMAIN s = 1 .. Len(s)
           /\ Len(Tail(s)) = Len(s) - 1 /\ DOMAIN Tail(s) = 1 .. Len(s) - 1
           /\ \A i \in 1 .. Len(s) - 1 : Tail(s)[i] = s[i + 1]
           /\ Head(s) = s[1] /\ s[1] \in S
OBVIOUS

\* Putting items on a wire
LEMMA Joined ==
    ASSUME NEW S, NEW s \in Seq(S), NEW d \in Seq(S)
    PROVE  /\ s \o d \in Seq(S) /\ Len(s) \in Nat /\ Len(d) \in Nat
           /\ DOMAIN s = 1 .. Len(s) /\ DOMAIN (s \o d) = 1 .. Len(s) + Len(d)
           /\ DOMAIN d = 1 .. Len(d) /\ Len(s \o d) = Len(s) + Len(d)
           /\ \A i \in 1 .. Len(s) : (s \o d)[i] = s[i]
           /\ \A i \in 1 .. Len(d) : (s \o d)[Len(s) + i] = d[i]
           /\ \A i \in 1 .. Len(s) + Len(d) :
                 i > Len(s) => i - Len(s) \in 1 .. Len(d) /\ (s \o d)[i] = d[i - Len(s)]
OBVIOUS

LEMMA Appended ==
    ASSUME NEW S, NEW s \in Seq(S), NEW x \in S
    PROVE  /\ Append(s, x) \in Seq(S) /\ Len(s) \in Nat
           /\ DOMAIN s = 1 .. Len(s) /\ DOMAIN Append(s, x) = 1 .. Len(s) + 1
           /\ Len(Append(s, x)) = Len(s) + 1
           /\ \A i \in 1 .. Len(s) : Append(s, x)[i] = s[i]
           /\ Append(s, x)[Len(s) + 1] = x
OBVIOUS

LEMMA Shorts ==
    ASSUME NEW S, NEW a \in S, NEW b \in S
    PROVE  /\ <<a>> \in Seq(S) /\ Len(<<a>>) = 1 /\ DOMAIN <<a>> = 1 .. 1 /\ <<a>>[1] = a
           /\ <<a, b>> \in Seq(S) /\ Len(<<a, b>>) = 2 /\ DOMAIN <<a, b>> = 1 .. 2
           /\ <<a, b>>[1] = a /\ <<a, b>>[2] = b
OBVIOUS

\* Concatenation and its inverse on the shortest sequences
LEMMA Pair ==
    ASSUME NEW S, NEW a \in S, NEW b \in S
    PROVE  <<a>> \o <<b>> = <<a, b>>
<1>1. <<a>> \in Seq(S) /\ <<b>> \in Seq(S) /\ <<a, b>> \in Seq(S)
      OBVIOUS
<1> DEFINE s == <<a>> \o <<b>>
           t == <<a, b>>
<1>2. s \in Seq(S) /\ Len(s) = 2 /\ s[1] = a /\ s[2] = b
      BY <1>1
<1>3. t \in Seq(S) /\ Len(t) = 2 /\ t[1] = a /\ t[2] = b
      BY <1>1
<1> HIDE DEF s, t
<1>4. \A i \in 1 .. Len(s) : s[i] = t[i]
      BY <1>2, <1>3
<1>5. s = t
      BY <1>2, <1>3, <1>4, SeqEqual
<1> QED BY <1>5 DEF s, t

LEMMA Cuts ==
    ASSUME NEW S, NEW a \in S, NEW b \in S
    PROVE  /\ SubSeq(<<a>>, 1, 0) = <<>> /\ SubSeq(<<a>>, 2, 1) = <<>>
           /\ SubSeq(<<a, b>>, 1, 0) = <<>> /\ SubSeq(<<a, b>>, 3, 2) = <<>>
           /\ SubSeq(<<a, b>>, 1, 1) = <<a>> /\ SubSeq(<<a, b>>, 2, 2) = <<b>>
<1>1. <<a>> \in Seq(S) /\ <<b>> \in Seq(S) 
      OBVIOUS
<1> DEFINE s == <<a, b>>
           h == SubSeq(s, 1, 1)
           k == SubSeq(s, 2, 2)
<1>2. s[1] = a /\ s[2] = b
      OBVIOUS
<1>3. h \in Seq(S) /\ Len(h) = 1 /\ h[1] = a
      BY <1>2, SubSeqProperties
<1>4. k \in Seq(S) /\ Len(k) = 1 /\ k[1] = b
      BY <1>2, SubSeqProperties
<1> HIDE DEF h, k
<1>5. h = <<a>>
      BY <1>1, <1>3
<1>6. k = <<b>>
      BY <1>1, <1>4
<1> QED BY <1>5, <1>6, SubSeqEmpty DEF h, k

LEMMA DamagedCut ==
    ASSUME NEW s, NEW d \in Damaged(s), Len(s) \in 1 .. 2
    PROVE  \/ d = SubSeq(s, 1, 0) \o <<Lost>> \o SubSeq(s, 2, Len(s))
           \/ Len(s) = 2 /\ d = SubSeq(s, 1, 0) \o <<Lost>> \o SubSeq(s, 3, 2)
           \/ Len(s) = 2 /\ d = SubSeq(s, 1, 1) \o <<Lost>> \o SubSeq(s, 3, 2)
<1>1. PICK p \in {p \in (0 .. Len(s)) \X (2 .. Len(s) + 1) : p[1] + 2 <= p[2]} :
            d = SubSeq(s, 1, p[1]) \o <<Lost>> \o SubSeq(s, p[2], Len(s))
      BY DEF Damaged
<1>2. PICK x \in 0 .. Len(s), y \in 2 .. Len(s) + 1 :
            x + 2 <= y /\ d = SubSeq(s, 1, x) \o <<Lost>> \o SubSeq(s, y, Len(s))
      BY <1>1
<1>3. CASE Len(s) = 1
      <2>1. x = 0 /\ y = 2
            BY <1>2, <1>3
      <2> QED BY <1>2, <1>3, <2>1
<1>4. CASE Len(s) = 2
      <2>1. (x = 0 /\ y = 2) \/ (x = 0 /\ y = 3) \/ (x = 1 /\ y = 3)
            BY <1>2, <1>4
      <2> QED BY <1>2, <1>4, <2>1
<1> QED BY <1>3, <1>4

\* What arrives of a burst of one or of two items that lost a part
LEMMA OneDamaged ==
    ASSUME NEW a \in Received, NEW d \in Damaged(<<a>>)
    PROVE  d = <<Lost>>
<1>1. Lost \in Received
      BY DEF Received
<1>2. Len(<<a>>) = 1
      OBVIOUS
<1>3. d = <<>> \o <<Lost>> \o <<>>
      BY <1>2, DamagedCut, Cuts
<1>4. <<Lost>> \in Seq(Received)
      BY <1>1
<1> QED BY <1>3, <1>4, ConcatEmptySeq

LEMMA TwoDamaged ==
    ASSUME NEW a \in Received, NEW b \in Received, NEW d \in Damaged(<<a, b>>)
    PROVE  d \in {<<Lost>>, <<Lost, b>>, <<a, Lost>>}
<1>1. Lost \in Received
      BY DEF Received
<1>2. Len(<<a, b>>) = 2
      OBVIOUS
<1>3. \/ d = <<>> \o <<Lost>> \o <<b>>
      \/ d = <<>> \o <<Lost>> \o <<>>
      \/ d = <<a>> \o <<Lost>> \o <<>>
      BY <1>2, DamagedCut, Cuts
<1>4. /\ <<Lost>> \in Seq(Received) /\ <<a, Lost>> \in Seq(Received)
      /\ <<a>> \o <<Lost>> = <<a, Lost>> /\ <<Lost>> \o <<b>> = <<Lost, b>>
      BY <1>1, Pair
<1> QED BY <1>3, <1>4, ConcatEmptySeq

\* What arrives of any burst of one or of two items
LEMMA OneSent ==
    ASSUME NEW a \in Received, Emit(<<a>>)
    PROVE  \E b \in {a, Lost} : rx' = rx \o <<b>>
BY OneDamaged DEF Emit

LEMMA TwoSent ==
    ASSUME NEW a \in Received, NEW b \in Received, Emit(<<a, b>>)
    PROVE  \E d \in {<<a, b>>, <<Lost>>, <<Lost, b>>, <<a, Lost>>} : rx' = rx \o d
BY TwoDamaged DEF Emit

-----------------------------------------------------------------------------
(* The wire to the modem *)

\* What a resync and a prompt write leaves the shape of the wire.
LEMMA MoreShape ==
    ASSUME TypeOK, TxShape, NEW more \in Seq(Written),
           \A j \in DOMAIN more : more[j].t \in {"Esc", "Probe"},
           tx' = tx \o more, input' = input
    PROVE  TxShape'
<1>1. tx \in Seq(Written)
      BY DEF TypeOK
<1>2. /\ DOMAIN tx = 1 .. Len(tx) /\ DOMAIN tx' = 1 .. Len(tx) + Len(more)
      /\ Len(tx) \in Nat /\ Len(more) \in Nat
      /\ \A i \in 1 .. Len(tx) : tx'[i] = tx[i]
      /\ \A i \in 1 .. Len(tx) + Len(more) : i > Len(tx) =>
            i - Len(tx) \in DOMAIN more /\ tx'[i] = more[i - Len(tx)]
      BY <1>1, Joined
<1>3. \A i \in DOMAIN tx' : i > Len(tx) => tx'[i].t \in {"Esc", "Probe"}
      BY <1>2
<1>4. ASSUME NEW i \in DOMAIN tx', tx'[i].t \in {"Cmd", "Payload"}
      PROVE  i \in DOMAIN tx /\ tx'[i] = tx[i] /\ i <= Len(tx)
      <2>1. ~(i > Len(tx))
            BY <1>3, <1>4
      <2>2. i \in 1 .. Len(tx)
            BY <1>2, <2>1
      <2> QED BY <1>2, <2>2
<1>5. ASSUME NEW i \in DOMAIN tx', tx'[i].t = "Cmd", NEW j \in DOMAIN tx'
      PROVE  (j < i => tx'[j].t = "Esc") /\ (j > i => tx'[j].t \in {"Esc", "Probe"})
      <2>1. i \in DOMAIN tx /\ tx[i].t = "Cmd" /\ i <= Len(tx)
            BY <1>4, <1>5
      <2>2. j \in DOMAIN tx => (j < i => tx[j].t = "Esc") /\ (j > i => tx[j].t \in {"Esc", "Probe"})
            BY <2>1 DEF TxShape
      <2> QED BY <1>2, <1>3, <2>1, <2>2
<1>6. ASSUME NEW i \in DOMAIN tx', tx'[i].t = "Payload"
      PROVE  /\ i = 1 /\ input' \in {tx'[i].of, NoCommand}
             /\ \A j \in DOMAIN tx' : j > 1 => tx'[j].t \in {"Esc", "Probe"}
      <2>1. i \in DOMAIN tx /\ tx[i].t = "Payload" /\ tx'[i] = tx[i]
            BY <1>4, <1>6
      <2>2. /\ i = 1 /\ input \in {tx[i].of, NoCommand}
            /\ \A j \in DOMAIN tx : j > 1 => tx[j].t \in {"Esc", "Probe"}
            BY <2>1 DEF TxShape
      <2> QED BY <1>2, <1>3, <2>1, <2>2
<1>7. \A i \in DOMAIN tx' : tx'[i].t = "Cmd" => input' = NoCommand
      BY <1>4 DEF TxShape
<1> QED BY <1>5, <1>6, <1>7 DEF TxShape

\* So does what the modem takes off it,
LEMMA TailShape ==
    ASSUME TypeOK, TxShape, tx # <<>>, tx' = Tail(tx),
           Head(tx).t \in {"Cmd", "Payload"} \/ input' \in {input, NoCommand}
    PROVE  TxShape'
<1>1. tx \in Seq(Written)
      BY DEF TypeOK
<1>2. ASSUME NEW i \in DOMAIN tx', tx'[i].t \in {"Cmd", "Payload"}
      PROVE  /\ i + 1 \in DOMAIN tx /\ tx'[i] = tx[i + 1] /\ tx[i + 1].t = "Cmd"
             /\ tx[1].t = "Esc" /\ input = NoCommand
      BY <1>1, <1>2, Shifted DEF TxShape
<1>3. ASSUME NEW i \in DOMAIN tx', tx'[i].t = "Cmd", NEW j \in DOMAIN tx'
      PROVE  (j < i => tx'[j].t = "Esc") /\ (j > i => tx'[j].t \in {"Esc", "Probe"})
      BY <1>1, <1>3, Shifted DEF TxShape
<1>4. Head(tx) = tx[1]
      BY <1>1, Shifted
<1>5. \A i \in DOMAIN tx' : tx'[i].t # "Payload"
      BY <1>2
<1>6. \A i \in DOMAIN tx' : tx'[i].t = "Cmd" => input' = NoCommand
      BY <1>2, <1>4
<1> QED BY <1>3, <1>5, <1>6 DEF TxShape

LEMMA EmptyShape == ASSUME tx' = <<>> PROVE TxShape'
BY DEF TxShape

LEMMA SameShape == ASSUME TxShape, UNCHANGED <<tx, input>> PROVE TxShape'
BY DEF TxShape

-----------------------------------------------------------------------------
(* The received stream *)

LEMMA QuietTail ==
    ASSUME TypeOK, NEW k \in Nat, QuietAfter(k + 1), rx # <<>>, rx' = Tail(rx)
    PROVE  QuietAfter(k)'
<1>1. rx \in Seq(Received)
      BY DEF TypeOK
<1>2. ASSUME NEW j \in DOMAIN rx', j > k PROVE rx'[j].t \in {"AtReady", "Lost"}
      <2>1. j + 1 \in DOMAIN rx /\ rx'[j] = rx[j + 1] /\ j + 1 > k + 1
            BY <1>1, <1>2, Shifted
      <2> QED BY <2>1 DEF QuietAfter
<1> QED BY <1>2 DEF QuietAfter

LEMMA QuietTake ==
    ASSUME TypeOK, QuietAfter(0), rx # <<>>, rx' = Tail(rx)
    PROVE  QuietAfter(0)'
<1>1. QuietAfter(0 + 1)
      BY DEF QuietAfter, TypeOK
<1> QED BY <1>1, QuietTail

LEMMA QuietSame ==
    ASSUME NEW k, QuietAfter(k), rx' = rx
    PROVE  QuietAfter(k)'
BY DEF QuietAfter

LEMMA QuietJoined ==
    ASSUME TypeOK, NEW k \in Nat, NEW d \in Seq(Received), rx' = rx \o d,
           QuietAfter(k),
           \A j \in DOMAIN d : j + Len(rx) > k => d[j].t \in {"AtReady", "Lost"}
    PROVE  QuietAfter(k)'
<1>1. rx \in Seq(Received)
      BY DEF TypeOK
<1>2. ASSUME NEW j \in DOMAIN rx', j > k PROVE rx'[j].t \in {"AtReady", "Lost"}
      <2>1. CASE j <= Len(rx)
            <3>1. j \in DOMAIN rx /\ rx'[j] = rx[j]
                  BY <1>1, <2>1, Joined
            <3> QED BY <3>1, <1>2 DEF QuietAfter
      <2>2. CASE j > Len(rx)
            <3>1. j - Len(rx) \in DOMAIN d /\ rx'[j] = d[j - Len(rx)]
                  BY <1>1, <2>2, Joined
            <3>2. (j - Len(rx)) + Len(rx) > k
                  BY <1>1, <1>2, Joined
            <3> QED BY <3>1, <3>2
      <2> QED BY <1>1, <2>1, <2>2, Joined
<1> QED BY <1>2 DEF QuietAfter

LEMMA EscTail ==
    ASSUME TypeOK, OnlyEsc, tx' = tx \/ (tx # <<>> /\ tx' = Tail(tx)) \/ tx' = <<>> \/ tx' = Append(tx, Esc)
    PROVE  OnlyEsc'
<1>1. tx \in Seq(Written) /\ Esc \in Written /\ Esc.t = "Esc"
      BY DEF TypeOK, Written, Esc
<1>2. CASE tx' = tx
      BY <1>2 DEF OnlyEsc
<1>3. CASE tx # <<>> /\ tx' = Tail(tx)
      BY <1>1, <1>3, Shifted DEF OnlyEsc
<1>4. CASE tx' = <<>>
      BY <1>4 DEF OnlyEsc
<1>5. CASE tx' = Append(tx, Esc)
      <2> DEFINE e == Esc
      <2>1. e.t = "Esc" /\ e \in Written
            BY <1>1
      <2> HIDE DEF e
      <2>2. tx' = Append(tx, e)
            BY <1>5 DEF e
      <2> QED BY <1>1, <2>1, <2>2, Appended DEF OnlyEsc
<1> QED BY <1>2, <1>3, <1>4, <1>5

LEMMA ConfirmedTail ==
    ASSUME TypeOK, NEW k \in Nat, Confirmed(k + 1), rx # <<>>, rx' = Tail(rx),
           tx' = tx \/ tx' = Append(tx, Esc), input' = input
    PROVE  Confirmed(k)'
<1>1. rx \in Seq(Received)
      BY DEF TypeOK
<1>2. k + 1 \in DOMAIN rx' /\ rx'[k + 1] = rx[(k + 1) + 1]
      BY <1>1, Shifted DEF Confirmed
<1>3. QuietAfter(k + 1)'
      BY QuietTail DEF Confirmed
<1>4. OnlyEsc'
      BY EscTail DEF Confirmed
<1> QED BY <1>2, <1>3, <1>4 DEF Confirmed

LEMMA ConfirmedJoined ==
    ASSUME TypeOK, NEW k \in Nat, Confirmed(k), NEW d \in Seq(Received), rx' = rx \o d,
           tx' = tx \/ (tx # <<>> /\ tx' = Tail(tx)) \/ tx' = <<>>, input' = NoCommand,
           \A j \in DOMAIN d : d[j].t \in {"AtReady", "Lost"}
    PROVE  Confirmed(k)'
<1>1. rx \in Seq(Received)
      BY DEF TypeOK
<1>2. k + 1 \in DOMAIN rx' /\ rx'[k + 1] = rx[k + 1]
      BY <1>1, Joined DEF Confirmed
<1>3. QuietAfter(k + 1)'
      <2>1. k + 1 \in Nat /\ QuietAfter(k + 1)
            BY DEF Confirmed
      <2> HIDE DEF QuietAfter
      <2> QED BY <2>1, QuietJoined
<1>4. OnlyEsc'
      BY EscTail DEF Confirmed
<1> QED BY <1>2, <1>3, <1>4 DEF Confirmed

-----------------------------------------------------------------------------
(* A new probe, and the next command *)

\* Whoever starts a probe with a fresh number makes the link Syncing as it should be.
LEMMA Probing ==
    ASSUME TypeOK, TxShape, NoncesFresh, NEW first \in {<<>>, <<Esc>>}, StartProbe(first),
           input' = input, rx' = rx \/ (rx # <<>> /\ rx' = Tail(rx))
    PROVE  TxShape' /\ Syncs' /\ Rests' /\ Works'
<1> DEFINE e == Esc
           p == Probe(NextNonce)
<1>0. NextNonce \in Nonces
      BY NoncesAssumption DEF NextNonce, Nonces, TypeOK, EngineType
<1>1. e.t = "Esc" /\ p.t = "Probe" /\ e \in Written /\ p \in Written
      BY <1>0 DEF Esc, Probe, Written
<1>2. first = <<>> \/ first = <<e>>
      OBVIOUS
<1>3. tx \in Seq(Written) /\ rx \in Seq(Received)
      BY DEF TypeOK
<1>4. tx' = tx \o first \o <<p>> /\ state' = "Syncing" /\ readBack' = FALSE /\ nonce' = NextNonce
      BY DEF StartProbe
<1> HIDE DEF e, p
<1>5. /\ <<p>> \in Seq(Written) /\ <<e>> \in Seq(Written) /\ <<e, p>> \in Seq(Written)
      BY <1>1, ShortSequences
<1> DEFINE more == first \o <<p>>
<1>6. /\ more \in Seq(Written) /\ Len(more) \in Nat /\ DOMAIN more = 1 .. Len(more)
      /\ more[Len(more)] = p /\ \A j \in DOMAIN more : j < Len(more) => more[j] = e
      <2>1. CASE first = <<>>
            <3>1. more = <<p>>
                  BY <1>5, <2>1, ConcatEmptySeq
            <3> HIDE DEF more
            <3>2. more \in Seq(Written) /\ Len(more) = 1 /\ DOMAIN more = 1 .. 1 /\ more[1] = p
                  BY <1>1, <3>1, Shorts
            <3> QED BY <3>2
      <2>2. CASE first = <<e>>
            <3>1. more = <<e, p>>
                  BY <1>1, <2>2, Pair
            <3> HIDE DEF more
            <3>2. /\ more \in Seq(Written) /\ Len(more) = 2 /\ DOMAIN more = 1 .. 2
                  /\ more[1] = e /\ more[2] = p
                  BY <1>1, <3>1, Shorts
            <3> QED BY <3>2
      <2> QED BY <1>2, <2>1, <2>2
<1>7. tx' = tx \o more
      BY <1>3, <1>4, <1>5, ConcatAssociative
<1> HIDE DEF more
<1>8. \A j \in DOMAIN more : more[j].t \in {"Esc", "Probe"}
      BY <1>1, <1>6
<1>9. TxShape'
      BY <1>6, <1>7, <1>8, MoreShape
<1>10. \A i, j \in DOMAIN tx' : tx'[i].t = "Probe" /\ tx'[i].n = nonce' /\ j > i => tx'[j].t = "Esc"
      <2>1. SUFFICES ASSUME NEW i \in DOMAIN tx', tx'[i].t = "Probe", tx'[i].n = NextNonce,
                            NEW j \in DOMAIN tx', j > i
                     PROVE  FALSE
            BY <1>4
      <2>2. /\ DOMAIN tx = 1 .. Len(tx) /\ DOMAIN tx' = 1 .. Len(tx) + Len(more) /\ Len(tx) \in Nat
            /\ \A k \in 1 .. Len(tx) : tx'[k] = tx[k]
            /\ \A k \in 1 .. Len(tx) + Len(more) : k > Len(tx) =>
                  k - Len(tx) \in 1 .. Len(more) /\ tx'[k] = more[k - Len(tx)]
            BY <1>3, <1>6, <1>7, Joined
      <2>3. i > Len(tx)
            BY <2>1, <2>2 DEF NoncesFresh
      <2>4. i - Len(tx) = Len(more)
            <3> DEFINE m == i - Len(tx)
            <3>1. m \in 1 .. Len(more) /\ tx'[i] = more[m] /\ m \in DOMAIN more
                  BY <1>6, <2>1, <2>2, <2>3, SMTT(60)
            <3> HIDE DEF m
            <3>2. m < Len(more) => more[m].t = "Esc"
                  BY <1>1, <1>6, <3>1, ZenonT(60)
            <3>3. ~(m < Len(more))
                  BY <2>1, <3>1, <3>2, ZenonT(60)
            <3>4. m = Len(more)
                  BY <1>6, <3>1, <3>3, SMTT(60)
            <3> QED BY <3>4, SMTT(60) DEF m
      <2> QED BY <1>6, <2>1, <2>2, <2>4
<1>11. \A k \in DOMAIN rx' : ~(rx'[k].t = "ReadBack" /\ rx'[k].n = nonce')
      <2>1. CASE rx' = rx
            BY <1>4, <2>1 DEF NoncesFresh
      <2>2. CASE rx # <<>> /\ rx' = Tail(rx)
            <3>1. \A k \in DOMAIN rx' : k + 1 \in DOMAIN rx /\ rx'[k] = rx[k + 1]
                  BY <1>3, <2>2, Shifted
            <3> QED BY <1>4, <3>1 DEF NoncesFresh
      <2> QED BY <2>1, <2>2
<1> QED BY <1>4, <1>9, <1>10, <1>11 DEF Syncs, Rests, Works

\* After unsync, however it came about
LEMMA Unsynced ==
    ASSUME TypeOK, TxShape, NoncesFresh, Unsync, input' = input,
           rx' = rx \/ (rx # <<>> /\ rx' = Tail(rx))
    PROVE  TxShape' /\ Syncs' /\ Rests' /\ Works'
BY Probing DEF Unsync

\* Whoever finds the link synced leaves it as it should be, idle or with the next
\* command on its way.
LEMMA Pumping ==
    ASSUME TypeOK, OnlyEsc, input' = NoCommand, QuietAfter(0)',
           NEW q \in Seq(Commands), Pump(q)
    PROVE  TxShape' /\ Syncs' /\ Rests' /\ Works'
<1>1. tx \in Seq(Written)
      BY DEF TypeOK
<1>2. state' = "Ready" /\ payloadSent' = FALSE /\ info' = {}
      BY DEF Pump
<1>3. Syncs'
      BY <1>2 DEF Syncs
<1>4. CASE q = <<>>
      <2>1. inFlight' = NoCommand /\ tx' = tx
            BY <1>4 DEF Pump
      <2> QED BY <1>2, <1>3, <2>1 DEF OnlyEsc, TxShape, Rests, Works
<1>5. CASE q # <<>>
      <2> DEFINE h == Head(q)
                 x == Cmd(h)
      <2>1. /\ h \in Commands /\ x.t = "Cmd" /\ x.of = h /\ x \in Written
            /\ inFlight' = h /\ tx' = Append(tx, x)
            BY <1>5, HeadTailType DEF Pump, Cmd, Written
      <2> HIDE DEF x, h
      <2>2. /\ Len(tx) \in Nat /\ DOMAIN tx = 1 .. Len(tx) /\ DOMAIN tx' = 1 .. Len(tx) + 1
            /\ tx'[Len(tx) + 1] = x /\ Len(tx') = Len(tx) + 1
            /\ \A i \in 1 .. Len(tx) : tx'[i].t = "Esc"
            BY <1>1, <2>1, Appended DEF OnlyEsc
      <2>3. TxShape'
            <3>1. \A i \in DOMAIN tx' : tx'[i].t = "Cmd" => i = Len(tx) + 1
                  BY <2>2
            <3>2. \A i \in DOMAIN tx' : tx'[i].t # "Payload"
                  BY <2>1, <2>2
            <3> QED BY <2>2, <3>1, <3>2 DEF TxShape
      <2>4. Sent'
            BY <1>2, <2>1, <2>2 DEF Sent
      <2>5. inFlight' # NoCommand
            BY <2>1, NoCommandAssumption
      <2>6. info' \subseteq {inFlight'} /\ input' \in {inFlight', NoCommand}
            BY <1>2
      <2> QED BY <1>3, <2>3, <2>4, <2>5, <2>6 DEF Rests, Works
<1> QED BY <1>4, <1>5

-----------------------------------------------------------------------------
(* While the link is Syncing *)

\* Something else than a final code or a loss is read.
LEMMA SyncsTaken ==
    ASSUME TypeOK, Syncs, state = "Syncing", UNCHANGED <<state, nonce, input>>,
           rx # <<>>, rx' = Tail(rx), tx' = tx \/ tx' = Append(tx, Esc),
           readBack' => rx[1].t = "ReadBack" /\ rx[1].n = nonce
    PROVE  Syncs'
<1>1. rx \in Seq(Received) /\ tx \in Seq(Written)
      BY DEF TypeOK
<1>2. \A i, j \in DOMAIN tx' : tx'[i].t = "Probe" /\ tx'[i].n = nonce' /\ j > i => tx'[j].t = "Esc"
      <2>1. CASE tx' = tx
            BY <2>1 DEF Syncs
      <2>2. CASE tx' = Append(tx, Esc)
            <3> DEFINE e == Esc
            <3>1. e \in Written /\ e.t = "Esc" /\ tx' = Append(tx, e)
                  BY <2>2 DEF Esc, Written
            <3> HIDE DEF e
            <3>2. /\ Len(tx) \in Nat /\ DOMAIN tx = 1 .. Len(tx) /\ DOMAIN tx' = 1 .. Len(tx) + 1
                  /\ tx'[Len(tx) + 1] = e /\ \A i \in 1 .. Len(tx) : tx'[i] = tx[i]
                  BY <1>1, <3>1, Appended
            <3>3. ASSUME NEW i \in DOMAIN tx'
                  PROVE  (i \in DOMAIN tx /\ tx'[i] = tx[i]) \/ tx'[i].t = "Esc"
                  <4>1. i \in 1 .. Len(tx) \/ i = Len(tx) + 1
                        BY <3>2
                  <4> QED BY <3>1, <3>2, <4>1
            <3> QED BY <3>3 DEF Syncs
      <2> QED BY <2>1, <2>2
<1>3. ASSUME NEW k \in DOMAIN rx', rx'[k].t = "ReadBack", rx'[k].n = nonce'
      PROVE  Confirmed(k)'
      <2>1. k \in Nat /\ k + 1 \in DOMAIN rx /\ rx[k + 1].t = "ReadBack" /\ rx[k + 1].n = nonce
            BY <1>1, <1>3, Shifted
      <2>2. Confirmed(k + 1)
            BY <2>1 DEF Syncs
      <2> QED BY <2>1, <2>2, ConfirmedTail
<1>4. ASSUME readBack' PROVE Confirmed(0)'
      <2>1. 1 \in DOMAIN rx
            BY <1>1, Shifted
      <2>2. Confirmed(0 + 1)
            BY <1>4, <2>1 DEF Syncs
      <2> QED BY <2>2, ConfirmedTail
<1> QED BY <1>2, <1>3, <1>4 DEF Syncs

\* The modem sends something, takes or loses something; nothing of it answers the
\* latest probe, and nothing but noise follows a probe that was answered.
LEMMA SyncsGrown ==
    ASSUME TypeOK, Syncs, state = "Syncing", UNCHANGED <<state, nonce, readBack>>,
           tx' = tx \/ (tx # <<>> /\ tx' = Tail(tx)) \/ tx' = <<>>,
           NEW d \in Seq(Received), rx' = rx \o d,
           \A j \in DOMAIN d : ~(d[j].t = "ReadBack" /\ d[j].n = nonce),
           OnlyEsc /\ input = NoCommand =>
               input' = NoCommand /\ \A j \in DOMAIN d : d[j].t \in {"AtReady", "Lost"}
    PROVE  Syncs'
<1>1. rx \in Seq(Received) /\ tx \in Seq(Written)
      BY DEF TypeOK
<1>2. \A i, j \in DOMAIN tx' : tx'[i].t = "Probe" /\ tx'[i].n = nonce' /\ j > i => tx'[j].t = "Esc"
      <2>1. CASE tx' = tx
            BY <2>1 DEF Syncs
      <2>2. CASE tx # <<>> /\ tx' = Tail(tx)
            <3>1. \A i \in DOMAIN tx' : i + 1 \in DOMAIN tx /\ tx'[i] = tx[i + 1] /\ i \in Nat
                  BY <1>1, <2>2, Shifted
            <3> QED BY <3>1 DEF Syncs
      <2>3. CASE tx' = <<>>
            BY <2>3
      <2> QED BY <2>1, <2>2, <2>3
<1>3. ASSUME NEW k \in Nat, Confirmed(k) PROVE Confirmed(k)'
      <2>1. OnlyEsc /\ input = NoCommand
            BY <1>3 DEF Confirmed
      <2>2. input' = NoCommand /\ \A j \in DOMAIN d : d[j].t \in {"AtReady", "Lost"}
            BY <2>1
      <2> QED BY <1>3, <2>2, ConfirmedJoined
<1>4. ASSUME NEW k \in DOMAIN rx', rx'[k].t = "ReadBack", rx'[k].n = nonce'
      PROVE  Confirmed(k)'
      <2>1. CASE k > Len(rx)
            BY <1>1, <1>4, <2>1, Joined
      <2>2. CASE k <= Len(rx)
            <3>1. k \in Nat /\ k \in DOMAIN rx /\ rx'[k] = rx[k]
                  BY <1>1, <2>2, Joined
            <3>2. Confirmed(k)
                  BY <1>4, <3>1 DEF Syncs
            <3> QED BY <1>3, <3>1, <3>2
      <2> QED BY <1>1, <2>1, <2>2, Joined
<1>5. readBack' => Confirmed(0)'
      BY <1>3 DEF Syncs
<1> QED BY <1>2, <1>4, <1>5 DEF Syncs

LEMMA SyncsElse ==
    ASSUME state' # "Syncing"
    PROVE  Syncs'
BY DEF Syncs

-----------------------------------------------------------------------------
(* While the link is Ready *)

\* Nothing is received but loss markers and *ATREADY.
Noise == \E d \in Seq(Received) :
    rx' = rx \o d /\ \A j \in DOMAIN d : d[j].t \in {"AtReady", "Lost"}

LEMMA NoNoise ==
    ASSUME TypeOK, rx' = rx
    PROVE  Noise
<1> DEFINE d == <<>>
<1>1. d \in Seq(Received) /\ DOMAIN d = {}
      OBVIOUS
<1>2. rx' = rx \o d
      BY ConcatEmptySeq DEF TypeOK
<1> HIDE DEF d
<1> QED BY <1>1, <1>2 DEF Noise

LEMMA QuietNoise ==
    ASSUME TypeOK, NEW k \in Nat, QuietAfter(k), Noise
    PROVE  QuietAfter(k)'
BY QuietJoined DEF Noise

\* An idle link stays at rest while only noise arrives.
LEMMA RestsKept ==
    ASSUME TypeOK, Rests, UNCHANGED <<state, inFlight>>, input' \in {input, NoCommand},
           tx' = tx \/ (tx # <<>> /\ tx' = Tail(tx)) \/ tx' = <<>>,
           (rx # <<>> /\ rx' = Tail(rx)) \/ Noise
    PROVE  Rests'
<1> SUFFICES ASSUME state = "Ready", inFlight = NoCommand
             PROVE  OnlyEsc' /\ QuietAfter(0)' /\ input' = NoCommand
    BY DEF Rests
<1>1. OnlyEsc /\ QuietAfter(0) /\ input = NoCommand
      BY DEF Rests
<1>2. OnlyEsc'
      BY <1>1, EscTail
<1>3. QuietAfter(0)'
      BY <1>1, QuietTake, QuietNoise
<1> QED BY <1>1, <1>2, <1>3

LEMMA ExpectedNoise ==
    ASSUME TypeOK, NEW k \in DOMAIN rx, Expected(k), Noise,
           UNCHANGED <<inFlight, payloadSent, info>>, input' \in {input, NoCommand}
    PROVE  k \in DOMAIN rx' /\ Expected(k)'
<1>1. PICK d \in Seq(Received) : rx' = rx \o d /\ \A j \in DOMAIN d : d[j].t \in {"AtReady", "Lost"}
      BY DEF Noise
<1>2. rx \in Seq(Received) /\ k \in Nat
      BY DEF TypeOK
<1>3. \A i \in DOMAIN rx : i \in DOMAIN rx' /\ rx'[i] = rx[i]
      BY <1>1, <1>2, Joined
<1>4. QuietAfter(k) => QuietAfter(k)'
      BY <1>2, QuietNoise
<1>5. k # 1 => k - 1 \in DOMAIN rx
      BY <1>2
<1>6. CASE rx[k].t = "Final"
      BY <1>3, <1>4, <1>5, <1>6 DEF Expected
<1>7. CASE rx[k].t # "Final"
      BY <1>3, <1>4, <1>7 DEF Expected
<1> QED BY <1>3, <1>6, <1>7

LEMMA WaitingNoise ==
    ASSUME TypeOK, Waiting, Noise, tx' = <<>>,
           UNCHANGED <<inFlight, payloadSent, info>>, input' \in {input, NoCommand}
    PROVE  Waiting'
<1>1. PICK d \in Seq(Received) : rx' = rx \o d /\ \A j \in DOMAIN d : d[j].t \in {"AtReady", "Lost"}
      BY DEF Noise
<1>2. rx \in Seq(Received)
      BY DEF TypeOK
<1>3. ASSUME NEW k \in DOMAIN rx' PROVE Expected(k)'
      <2>1. CASE k <= Len(rx)
            <3>1. k \in DOMAIN rx
                  BY <1>1, <1>2, <1>3, <2>1, Joined
            <3>2. Expected(k)
                  BY <3>1 DEF Waiting
            <3> QED BY <3>1, <3>2, ExpectedNoise
      <2>2. CASE k > Len(rx)
            <3>1. k - Len(rx) \in DOMAIN d /\ rx'[k] = d[k - Len(rx)]
                  BY <1>1, <1>2, <1>3, <2>2, Joined
            <3>2. rx'[k].t \in {"AtReady", "Lost"}
                  BY <1>1, <3>1
            <3> QED BY <3>2 DEF Expected
      <2> QED BY <1>1, <1>2, <1>3, <2>1, <2>2, Joined
<1> QED BY <1>3 DEF Waiting

LEMMA QuietWaiting ==
    ASSUME TypeOK, QuietAfter(0)', tx' = <<>>, rx' \in Seq(Received)
    PROVE  Waiting'
<1>1. ASSUME NEW k \in DOMAIN rx' PROVE Expected(k)'
      BY <1>1 DEF QuietAfter, Expected
<1> QED BY <1>1 DEF Waiting

\* The command in flight, its text or its answer stays where it is,
LEMMA WorksKept ==
    ASSUME TypeOK, Works, Noise, tx' = tx,
           UNCHANGED <<state, inFlight, payloadSent, info>>, input' \in {input, NoCommand}
    PROVE  Works'
<1> SUFFICES ASSUME state = "Ready", inFlight # NoCommand
             PROVE  /\ info' \subseteq {inFlight'} /\ input' \in {inFlight', NoCommand}
                    /\ Sent' \/ Texting' \/ Waiting'
    BY DEF Works
<1>1. info \subseteq {inFlight} /\ input \in {inFlight, NoCommand}
      BY DEF Works
<1>2. CASE Sent
      <2>1. QuietAfter(0)'
            BY <1>2, QuietNoise DEF Sent
      <2>2. Sent'
            BY <1>2, <2>1 DEF Sent
      <2> QED BY <1>1, <2>2
<1>3. CASE Texting
      <2>1. QuietAfter(0)'
            BY <1>3, QuietNoise DEF Texting
      <2>2. Texting'
            BY <1>3, <2>1 DEF Texting
      <2> QED BY <1>1, <2>2
<1>4. CASE Waiting
      <2>1. tx' = <<>>
            BY <1>4 DEF Waiting
      <2> QED BY <1>1, <1>4, <2>1, WaitingNoise
<1> QED BY <1>1, <1>2, <1>3, <1>4 DEF Works

\* or is lost on its way to the modem,
LEMMA SentHead ==
    ASSUME TypeOK, TxShape, Sent
    PROVE  \/ Len(tx) = 1 /\ Head(tx).t = "Cmd" /\ Head(tx).of = inFlight /\ Tail(tx) = <<>>
           \/ /\ Len(tx) > 1 /\ Head(tx).t = "Esc" /\ Tail(tx) # <<>> /\ input = NoCommand
              /\ Tail(tx)[Len(Tail(tx))] = tx[Len(tx)]
<1>1. /\ tx \in Seq(Written) /\ tx # <<>>
      /\ tx[Len(tx)].t = "Cmd" /\ tx[Len(tx)].of = inFlight
      BY DEF TypeOK, Sent
<1>2. /\ Tail(tx) \in Seq(Written) /\ Len(tx) \in Nat /\ Len(tx) >= 1 /\ DOMAIN tx = 1 .. Len(tx)
      /\ Len(Tail(tx)) = Len(tx) - 1 /\ Head(tx) = tx[1]
      /\ \A i \in 1 .. Len(tx) - 1 : Tail(tx)[i] = tx[i + 1]
      BY <1>1, Shifted
<1>3. CASE Len(tx) = 1
      <2>1. Len(Tail(tx)) = 0
            BY <1>2, <1>3
      <2>2. Tail(tx) = <<>>
            BY <1>2, <2>1, EmptySeq
      <2>3. tx[1].t = "Cmd" /\ tx[1].of = inFlight
            BY <1>1, <1>3
      <2> QED BY <1>2, <1>3, <2>2, <2>3
<1>4. CASE Len(tx) > 1
      <2>1. tx[1].t = "Esc" /\ input = NoCommand
            BY <1>1, <1>2, <1>4 DEF TxShape
      <2>2. Tail(tx) # <<>>
            <3>1. Len(Tail(tx)) # 0
                  BY <1>2, <1>4, SMTT(30)
            <3>2. Len(<<>>) = 0
                  OBVIOUS
            <3> QED BY <3>1, <3>2, ZenonT(30)
      <2>3. Tail(tx)[Len(tx) - 1] = tx[Len(tx)]
            BY <1>2, <1>4
      <2> QED BY <1>2, <1>4, <2>1, <2>2, <2>3
<1> QED BY <1>2, <1>3, <1>4

\* A lost write leaves the command in flight waiting.
LEMMA WorksDropped ==
    ASSUME TypeOK, TxShape, Works, Noise,
           (tx # <<>> /\ tx' = Tail(tx)) \/ tx' = <<>>,
           UNCHANGED <<state, inFlight, payloadSent, info>>, input' \in {input, NoCommand}
    PROVE  Works'
<1> SUFFICES ASSUME state = "Ready", inFlight # NoCommand
             PROVE  /\ info' \subseteq {inFlight'} /\ input' \in {inFlight', NoCommand}
                    /\ Sent' \/ Waiting'
    BY DEF Works
<1>1. info \subseteq {inFlight} /\ input \in {inFlight, NoCommand}
      BY DEF Works
<1>2. rx' \in Seq(Received)
      BY DEF Noise, TypeOK
<1>3. CASE Sent
      <2>1. QuietAfter(0)'
            BY <1>3, QuietNoise DEF Sent
      <2>2. CASE tx' = <<>>
            BY <1>1, <1>2, <2>1, <2>2, QuietWaiting
      <2>3. CASE tx' # <<>>
            <3>1. tx' # <<>> /\ tx'[Len(tx')] = tx[Len(tx)]
                  BY <1>3, <2>3, SentHead
            <3>2. Sent'
                  BY <1>3, <2>1, <3>1 DEF Sent
            <3> QED BY <1>1, <3>2
      <2> QED BY <2>2, <2>3
<1>4. CASE Texting
      <2>1. QuietAfter(0)'
            BY <1>4, QuietNoise DEF Texting
      <2>2. tx' = <<>>
            BY <1>4 DEF Texting, TypeOK
      <2> QED BY <1>1, <1>2, <2>1, <2>2, QuietWaiting
<1>5. CASE Waiting
      <2>1. tx' = <<>>
            BY <1>5 DEF Waiting
      <2> QED BY <1>1, <1>5, <2>1, WaitingNoise
<1> QED BY <1>1, <1>3, <1>4, <1>5 DEF Works

\* or was executed.
LEMMA OneAnswer ==
    ASSUME TypeOK, QuietAfter(0), tx' = <<>>, NEW a \in Received, rx' = rx \o <<a>>,
           UNCHANGED <<inFlight, payloadSent>>,
           \/ a.t = "Lost"
           \/ a.t = "Final" /\ a.of = inFlight /\ a.ok = FALSE /\ input' = NoCommand
           \/ a.t = "Prompt" /\ a.of = inFlight /\ inFlight \in Payloads /\ ~payloadSent
    PROVE  Waiting'
<1> DEFINE d == <<a>>
<1>1. rx \in Seq(Received) /\ d \in Seq(Received) /\ Len(d) = 1 /\ d[1] = a
      BY Shorts DEF TypeOK
<1>2. rx' = rx \o d
      OBVIOUS
<1> HIDE DEF d
<1>3. /\ Len(rx) \in Nat /\ DOMAIN rx = 1 .. Len(rx) /\ DOMAIN rx' = 1 .. Len(rx) + 1
      /\ rx'[Len(rx) + 1] = a /\ \A k \in 1 .. Len(rx) : rx'[k] = rx[k]
      BY <1>1, <1>2, Joined
<1>4. ASSUME NEW k \in DOMAIN rx' PROVE Expected(k)'
      <2>1. CASE k \in 1 .. Len(rx)
            BY <1>3, <2>1 DEF QuietAfter, Expected
      <2>2. CASE k = Len(rx) + 1
            <3>1. QuietAfter(k)'
                  BY <1>3, <2>2 DEF QuietAfter
            <3>2. rx'[k] = a
                  BY <1>3, <2>2
            <3> QED BY <3>1, <3>2 DEF Expected
      <2> QED BY <1>3, <2>1, <2>2
<1> QED BY <1>4 DEF Waiting

LEMMA TwoAnswers ==
    ASSUME TypeOK, QuietAfter(0), tx' = <<>>, NEW a \in Received, NEW b \in Received,
           rx' = rx \o <<a, b>>, UNCHANGED inFlight, input' = NoCommand,
           a.t = "Lost" \/ (a.t = "Info" /\ a.of = inFlight),
           b.t = "Lost" \/ (b.t = "Final" /\ b.of = inFlight)
    PROVE  Waiting'
<1> DEFINE d == <<a, b>>
<1>1. /\ rx \in Seq(Received) /\ d \in Seq(Received) /\ Len(d) = 2
      /\ d[1] = a /\ d[2] = b
      BY Shorts DEF TypeOK
<1>2. rx' = rx \o d
      OBVIOUS
<1> HIDE DEF d
<1>3. /\ Len(rx) \in Nat /\ DOMAIN rx = 1 .. Len(rx) /\ DOMAIN rx' = 1 .. Len(rx) + 2
      /\ rx'[Len(rx) + 1] = a /\ rx'[Len(rx) + 2] = b /\ \A k \in 1 .. Len(rx) : rx'[k] = rx[k]
      BY <1>1, <1>2, Joined
<1>4. ASSUME NEW k \in DOMAIN rx' PROVE Expected(k)'
      <2>1. CASE k \in 1 .. Len(rx)
            BY <1>3, <2>1 DEF QuietAfter, Expected
      <2>2. CASE k = Len(rx) + 1
            <3>1. /\ rx'[k] = a /\ k + 1 \in DOMAIN rx' /\ rx'[k + 1] = b
                  BY <1>3, <2>2
            <3> QED BY <3>1 DEF Expected
      <2>3. CASE k = Len(rx) + 2
            <3>1. QuietAfter(k)'
                  BY <1>3, <2>3 DEF QuietAfter
            <3>2. k # 1 /\ k - 1 = Len(rx) + 1
                  BY <1>3, <2>3
            <3>3. rx'[k] = b /\ rx'[k - 1] = a
                  BY <1>3, <2>3, <3>2
            <3> QED BY <3>1, <3>2, <3>3 DEF Expected
      <2> QED BY <1>3, <2>1, <2>2, <2>3
<1> QED BY <1>4 DEF Waiting

\* Something else than a final code, a prompt or a loss is read while an answer is awaited.
LEMMA WaitingTail ==
    ASSUME TypeOK, Waiting, rx # <<>>, rx' = Tail(rx),
           UNCHANGED <<inFlight, payloadSent, tx, input>>,
           \/ rx[1].t = "AtReady" /\ info' = info
           \/ rx[1].t = "Info" /\ info' = {inFlight}
    PROVE  Waiting'
<1>1. rx \in Seq(Received)
      BY DEF TypeOK
<1>2. ASSUME NEW k \in DOMAIN rx' PROVE Expected(k)'
      <2>1. /\ k \in Nat /\ k > 0 /\ k + 1 \in DOMAIN rx /\ rx'[k] = rx[k + 1]
            /\ k + 2 \in DOMAIN rx => k + 1 \in DOMAIN rx' /\ rx'[k + 1] = rx[k + 2]
            /\ k # 1 => k \in DOMAIN rx /\ k - 1 \in DOMAIN rx' /\ rx'[k - 1] = rx[k]
            BY <1>1, <1>2, Shifted, SMTT(60)
      <2>2. Expected(k + 1)
            BY <2>1 DEF Waiting
      <2>3. QuietAfter(k + 1) => QuietAfter(k)'
            BY <2>1, QuietTail
      <2>4. k + 1 # 1 /\ (k + 1) - 1 = k /\ (k + 1) + 1 = k + 2
            BY <2>1
      <2>5. CASE rx[k + 1].t = "Final"
            <3>1. CASE k = 1
                  BY <2>1, <2>2, <2>3, <2>4, <2>5, <3>1 DEF Expected
            <3>2. CASE k # 1
                  BY <2>1, <2>2, <2>3, <2>4, <2>5, <3>2 DEF Expected
            <3> QED BY <3>1, <3>2
      <2>6. CASE rx[k + 1].t # "Final"
            BY <2>1, <2>2, <2>3, <2>4, <2>6 DEF Expected
      <2> QED BY <2>5, <2>6
<1> QED BY <1>2 DEF Waiting

-----------------------------------------------------------------------------
(* Every step keeps the wires as they are described above *)

\* The invariant: what the wires and the modem hold, in every link state.
Sync == TxShape /\ Syncs /\ Rests /\ Works

LEMMA SyncSame ==
    ASSUME Sync,
           UNCHANGED <<tx, rx, input, state, nonce, readBack, inFlight, payloadSent, info>>
    PROVE  Sync'
<1>1. TxShape'
      BY SameShape DEF Sync
<1>2. Syncs'
      BY DEF Sync, Syncs, Confirmed, QuietAfter, OnlyEsc
<1>3. Rests'
      BY DEF Sync, Rests, QuietAfter, OnlyEsc
<1>4. \A k : Expected(k) => Expected(k)'
      BY DEF Expected, QuietAfter
<1>5. (Sent => Sent') /\ (Texting => Texting')
      BY DEF Sent, Texting, QuietAfter
<1>6. Works'
      BY <1>4, <1>5 DEF Sync, Works, Waiting
<1> QED BY <1>1, <1>2, <1>3, <1>6 DEF Sync

LEMMA SyncOff ==
    ASSUME TxShape', state' = "Off"
    PROVE  Sync'
BY DEF Sync, Syncs, Rests, Works

\* What the engine can read when it is Ready, and when the latest probe was echoed
LEMMA ReadyHead ==
    ASSUME TypeOK, Sync, state = "Ready", rx # <<>>
    PROVE  /\ 1 \in DOMAIN rx /\ Head(rx) = rx[1]
           /\ \/ rx[1].t \in {"AtReady", "Lost"}
              \/ inFlight # NoCommand /\ Waiting /\ Expected(1)
<1>1. 1 \in DOMAIN rx /\ Head(rx) = rx[1]
      BY Shifted DEF TypeOK
<1>2. QuietAfter(0) => rx[1].t \in {"AtReady", "Lost"}
      BY <1>1 DEF QuietAfter
<1>3. Waiting => Expected(1)
      BY <1>1 DEF Waiting
<1> QED BY <1>1, <1>2, <1>3 DEF Sync, Rests, Works, Sent, Texting

LEMMA SyncingHead ==
    ASSUME TypeOK, Sync, state = "Syncing", rx # <<>>
    PROVE  /\ Head(rx) = rx[1]
           /\ readBack => /\ rx[1].t = "Lost" \/ (rx[1].t = "Final" /\ rx[1].ok = TRUE)
                          /\ QuietAfter(1) /\ OnlyEsc /\ input = NoCommand
<1>1. 1 \in DOMAIN rx /\ Head(rx) = rx[1]
      BY Shifted DEF TypeOK
<1>2. readBack => Confirmed(0)
      BY DEF Sync, Syncs
<1>3. 0 + 1 = 1
      OBVIOUS
<1> QED BY <1>1, <1>2, <1>3 DEF Confirmed

LEMMA SubmitSync ==
    ASSUME TypeOK, Sync, NEW c \in Commands, Submit(c)
    PROVE  Sync'
<1>1. CASE state = "Off" \/ ~(state = "Ready" /\ inFlight = NoCommand)
      <2>1. UNCHANGED <<tx, rx, input, state, nonce, readBack, inFlight, payloadSent, info>>
            BY <1>1 DEF Submit, modemVars
      <2> QED BY <2>1, SyncSame
<1>2. CASE state = "Ready" /\ inFlight = NoCommand
      <2>1. Pump(Append(queue, c)) /\ rx' = rx /\ input' = input
            BY <1>2 DEF Submit, modemVars
      <2>2. OnlyEsc /\ QuietAfter(0) /\ input = NoCommand
            BY <1>2 DEF Sync, Rests
      <2>3. QuietAfter(0)'
            BY <2>1, <2>2, QuietSame
      <2>4. Append(queue, c) \in Seq(Commands)
            BY DEF TypeOK, EngineType
      <2> QED BY <2>1, <2>2, <2>3, <2>4, Pumping DEF Sync
<1> QED BY <1>1, <1>2

LEMMA CallsSync ==
    ASSUME TypeOK, Sync, NoncesFresh, Calls
    PROVE  Sync'
<1>1. ASSUME NEW c \in Commands, Submit(c) PROVE Sync'
      BY <1>1, SubmitSync
<1>2. CASE CommandTimeout
      BY <1>2, Unsynced DEF CommandTimeout, Deadline, modemVars, Sync
<1>3. CASE ProbeTimeout
      BY <1>3, Probing DEF ProbeTimeout, Deadline, modemVars, Sync
<1>4. CASE Reset
      BY <1>4, Unsynced DEF Reset, modemVars, Sync
<1>5. CASE PowerOff
      <2>1. state' = "Off" /\ UNCHANGED <<tx, input>>
            BY <1>5 DEF PowerOff, SwitchOff
      <2> QED BY <2>1, SameShape, SyncOff DEF Sync
<1>6. CASE PowerOn
      BY <1>6, Unsynced DEF PowerOn, Sync
<1> QED BY <1>1, <1>2, <1>3, <1>4, <1>5, <1>6 DEF Calls

\* Reading something that only moves the stream on
LEMMA SyncTaken ==
    ASSUME TypeOK, Sync, state \in {"Off", "Syncing"}, UNCHANGED <<state, nonce, input>>,
           rx # <<>>, rx' = Tail(rx), tx' = tx \/ tx' = Append(tx, Esc),
           state = "Syncing" /\ readBack' => rx[1].t = "ReadBack" /\ rx[1].n = nonce
    PROVE  Sync'
<1>1. TxShape'
      <2>1. CASE tx' = tx
            BY <2>1, SameShape DEF Sync
      <2>2. CASE tx' = Append(tx, Esc)
            <3> DEFINE more == <<Esc>>
            <3>1. Esc \in Written /\ Esc.t = "Esc" /\ tx \in Seq(Written)
                  BY DEF Esc, Written, TypeOK
            <3>2. more \in Seq(Written) /\ DOMAIN more = 1 .. 1 /\ more[1].t = "Esc"
                  BY <3>1, Shorts
            <3>3. tx' = tx \o more
                  BY <2>2, <3>1, AppendIsConcat
            <3> HIDE DEF more
            <3>4. \A j \in DOMAIN more : more[j].t \in {"Esc", "Probe"}
                  BY <3>2
            <3>5. TxShape
                  BY DEF Sync
            <3> QED BY <3>2, <3>3, <3>4, <3>5, MoreShape
      <2> QED BY <2>1, <2>2
<1>2. CASE state = "Off"
      BY <1>1, <1>2, SyncOff
<1>3. CASE state = "Syncing"
      <2>1. Syncs'
            BY <1>3, SyncsTaken DEF Sync
      <2> QED BY <1>1, <1>3, <2>1 DEF Sync, Rests, Works
<1> QED BY <1>2, <1>3

LEMMA ReadBackSync ==
    ASSUME TypeOK, Sync, OnReadBack
    PROVE  Sync'
<1>1. /\ rx # <<>> /\ Head(rx).t = "ReadBack" /\ rx' = Tail(rx) /\ tx' = tx
      /\ UNCHANGED <<state, nonce, input>>
      /\ readBack' => readBack \/ (state = "Syncing" /\ Head(rx).n = nonce)
      BY DEF OnReadBack, Take, modemVars
<1>2. state # "Ready"
      BY <1>1, ReadyHead DEF Expected
<1>3. CASE state = "Syncing"
      BY <1>1, <1>3, SyncingHead, SyncTaken
<1>4. CASE state = "Off"
      BY <1>1, <1>4, SyncOff, SameShape DEF Sync
<1> QED BY <1>2, <1>3, <1>4 DEF TypeOK, EngineType

LEMMA AtReadySync ==
    ASSUME TypeOK, Sync, OnAtReady
    PROVE  Sync'
<1>1. /\ rx # <<>> /\ Head(rx).t = "AtReady" /\ rx' = Tail(rx)
      /\ UNCHANGED <<tx, state, nonce, readBack, inFlight, payloadSent, info, input>>
      BY DEF OnAtReady, Take, engineVars, modemVars
<1>2. CASE state = "Ready"
      <2>1. TxShape' /\ Syncs'
            BY <1>1, <1>2, SameShape, SyncsElse DEF Sync
      <2>2. Rests'
            BY <1>1, RestsKept DEF Sync
      <2>3. QuietAfter(0) => QuietAfter(0)'
            BY <1>1, QuietTake
      <2>4. Waiting => Waiting'
            <3>1. rx[1].t = "AtReady"
                  BY <1>1, <1>2, ReadyHead
            <3> QED BY <1>1, <3>1, WaitingTail
      <2>5. (Sent => Sent') /\ (Texting => Texting')
            BY <1>1, <2>3 DEF Sent, Texting
      <2>6. Works'
            BY <1>1, <2>4, <2>5 DEF Sync, Works
      <2> QED BY <2>1, <2>2, <2>6 DEF Sync
<1>3. CASE state = "Syncing"
      <2>1. ~readBack
            BY <1>1, <1>3, SyncingHead
      <2> QED BY <1>1, <1>3, <2>1, SyncTaken
<1>4. CASE state = "Off"
      BY <1>1, <1>4, SyncOff, SameShape DEF Sync
<1> QED BY <1>2, <1>3, <1>4 DEF TypeOK, EngineType

LEMMA InfoSync ==
    ASSUME TypeOK, Sync, OnInfo
    PROVE  Sync'
<1>1. /\ rx # <<>> /\ Head(rx).t = "Info" /\ rx' = Tail(rx)
      /\ UNCHANGED <<tx, state, nonce, readBack, inFlight, payloadSent, input>>
      BY DEF OnInfo, Take, modemVars
<1>2. CASE state = "Ready"
      <2>1. TxShape' /\ Syncs'
            BY <1>1, <1>2, SameShape, SyncsElse DEF Sync
      <2>2. inFlight # NoCommand /\ Waiting /\ Expected(1) /\ rx[1].t = "Info" /\ Head(rx) = rx[1]
            BY <1>1, <1>2, ReadyHead
      <2>3. rx[1].of = inFlight /\ info \subseteq {inFlight} /\ input = NoCommand
            BY <1>2, <2>2 DEF Expected, Sync, Works
      <2>4. info' = {inFlight}
            BY <1>2, <2>2, <2>3 DEF OnInfo
      <2>5. Waiting'
            BY <1>1, <2>2, <2>4, WaitingTail
      <2> QED BY <1>1, <2>1, <2>2, <2>3, <2>4, <2>5 DEF Sync, Rests, Works
<1>3. CASE state = "Syncing"
      <2>1. ~readBack
            BY <1>1, <1>3, SyncingHead
      <2> QED BY <1>1, <1>3, <2>1, SyncTaken
<1>4. CASE state = "Off"
      BY <1>1, <1>4, SyncOff, SameShape DEF Sync
<1> QED BY <1>2, <1>3, <1>4 DEF TypeOK, EngineType

LEMMA PromptSync ==
    ASSUME TypeOK, Sync, OnPrompt
    PROVE  Sync'
<1>1. /\ rx # <<>> /\ Head(rx).t = "Prompt" /\ rx' = Tail(rx)
      /\ UNCHANGED <<state, nonce, readBack, inFlight, info, input>>
      BY DEF OnPrompt, Take, modemVars
<1>2. CASE state = "Ready"
      <2>1. inFlight # NoCommand /\ Waiting /\ Expected(1) /\ rx[1].t = "Prompt"
            BY <1>1, <1>2, ReadyHead
      <2>2. /\ QuietAfter(0 + 1) /\ inFlight \in Payloads /\ ~payloadSent /\ tx = <<>>
            /\ info \subseteq {inFlight} /\ input \in {inFlight, NoCommand}
            BY <1>2, <2>1 DEF Expected, Waiting, Sync, Works
      <2>3. QuietAfter(0)'
            BY <1>1, <2>2, QuietTail
      <2> DEFINE x == Payload(inFlight)
      <2>4. payloadSent' = TRUE /\ tx' = <<x>> /\ x.t = "Payload" /\ x.of = inFlight
            BY <1>2, <2>2 DEF OnPrompt, Payload
      <2> HIDE DEF x
      <2>5. Len(tx') = 1 /\ DOMAIN tx' = 1 .. 1 /\ tx'[1] = x
            BY <2>4
      <2>6. TxShape'
            BY <1>1, <2>2, <2>4, <2>5 DEF TxShape
      <2>7. Texting'
            BY <1>1, <2>3, <2>4, <2>5 DEF Texting
      <2> QED BY <1>1, <1>2, <2>1, <2>2, <2>6, <2>7 DEF Sync, Syncs, Rests, Works
<1>3. CASE state \in {"Off", "Syncing"}
      <2>1. tx' = Append(tx, Esc)
            BY <1>3 DEF OnPrompt
      <2>2. CASE state = "Syncing"
            <3>1. ~readBack
                  BY <1>1, <2>2, SyncingHead
            <3> QED BY <1>1, <1>3, <2>1, <3>1, SyncTaken
      <2>3. CASE state = "Off"
            BY <1>1, <2>1, <2>3, SyncTaken
      <2> QED BY <1>3, <2>2, <2>3
<1> QED BY <1>2, <1>3 DEF TypeOK, EngineType

\* The final code that is taken for an answer is the answer,
LEMMA FinalOwn ==
    ASSUME TypeOK, Sync, OnFinal, state = "Ready"
    PROVE  /\ inFlight # NoCommand /\ Head(rx).of = inFlight /\ Head(rx).ok \in BOOLEAN
           /\ Head(rx).ok => info = {inFlight}
           /\ rx # <<>> /\ rx' = Tail(rx) /\ input' = input
           /\ OnlyEsc /\ input = NoCommand /\ QuietAfter(0)'
<1>1. rx # <<>> /\ Head(rx).t = "Final" /\ rx' = Tail(rx) /\ input' = input
      BY DEF OnFinal, Take, modemVars
<1>2. /\ inFlight # NoCommand /\ Waiting /\ Expected(1) /\ rx[1].t = "Final" /\ Head(rx) = rx[1]
      /\ 1 \in DOMAIN rx
      BY <1>1, ReadyHead
<1>3. /\ rx[1].of = inFlight /\ QuietAfter(0 + 1) /\ tx = <<>> /\ input = NoCommand
      /\ rx[1].ok => info = {inFlight}
      BY <1>2 DEF Expected, Waiting
<1>4. QuietAfter(0)'
      BY <1>1, <1>3, QuietTail
<1>5. rx[1].ok \in BOOLEAN
      BY <1>2, ReceivedFields DEF TypeOK
<1>6. OnlyEsc
      BY <1>3 DEF OnlyEsc
<1> QED BY <1>1, <1>2, <1>3, <1>4, <1>5, <1>6

LEMMA FinalSync ==
    ASSUME TypeOK, Placed, Sync, NoncesFresh, OnFinal
    PROVE  Sync'
<1>1. /\ rx # <<>> /\ Head(rx).t = "Final" /\ rx' = Tail(rx) /\ input' = input
      BY DEF OnFinal, Take, modemVars
<1>2. queue \in Seq(Commands)
      BY DEF TypeOK, EngineType
<1>3. CASE state = "Ready"
      <2>1. Pump(queue)
            BY <1>3, FinalOwn DEF OnFinal
      <2> QED BY <1>2, <1>3, <2>1, FinalOwn, Pumping DEF Sync
<1>4. CASE state = "Syncing" /\ readBack
      <2>1. /\ Head(rx).ok = TRUE /\ QuietAfter(0 + 1) /\ OnlyEsc /\ input = NoCommand
            <3>1. 0 + 1 = 1
                  OBVIOUS
            <3> QED BY <1>1, <1>4, <3>1, SyncingHead
      <2>2. Pump(queue)
            BY <1>4, <2>1 DEF OnFinal
      <2>3. QuietAfter(0)'
            BY <1>1, <2>1, QuietTail
      <2> QED BY <1>1, <1>2, <2>1, <2>2, <2>3, Pumping DEF Sync
<1>5. CASE state = "Syncing" /\ ~readBack
      <2>1. UNCHANGED <<engineVars, tx>>
            BY <1>5 DEF OnFinal
      <2> QED BY <1>1, <1>5, <2>1, SyncTaken DEF engineVars
<1>6. CASE state = "Off"
      <2>1. UNCHANGED <<engineVars, tx>>
            BY <1>6 DEF OnFinal
      <2> QED BY <1>1, <1>6, <2>1, SyncOff, SameShape DEF engineVars, Sync
<1> QED BY <1>3, <1>4, <1>5, <1>6 DEF TypeOK, EngineType

LEMMA LostSync ==
    ASSUME TypeOK, Sync, NoncesFresh, OnLost
    PROVE  Sync'
<1>1. rx # <<>> /\ rx' = Tail(rx) /\ input' = input
      BY DEF OnLost, Take, modemVars
<1>2. CASE state = "Ready" /\ inFlight # NoCommand
      <2>1. Unsync
            BY <1>2 DEF OnLost
      <2> QED BY <1>1, <2>1, Unsynced DEF Sync
<1>3. CASE state = "Syncing"
      <2>1. StartProbe(<<>>)
            BY <1>3 DEF OnLost
      <2> QED BY <1>1, <2>1, Probing DEF Sync
<1>4. CASE state = "Ready" /\ inFlight = NoCommand
      <2>1. UNCHANGED <<engineVars, tx>>
            BY <1>4 DEF OnLost
      <2>2. TxShape' /\ Syncs' /\ Works'
            BY <1>1, <1>4, <2>1, SameShape DEF Sync, Syncs, Works, engineVars
      <2>3. Rests'
            BY <1>1, <2>1, RestsKept DEF Sync, engineVars
      <2> QED BY <2>2, <2>3 DEF Sync
<1>5. CASE state = "Off"
      <2>1. UNCHANGED <<engineVars, tx>>
            BY <1>5 DEF OnLost
      <2> QED BY <1>1, <1>5, <2>1, SyncOff, SameShape DEF engineVars, Sync
<1> QED BY <1>2, <1>3, <1>4, <1>5 DEF TypeOK, EngineType

LEMMA ReceiveSync ==
    ASSUME TypeOK, Placed, Sync, NoncesFresh, Receive
    PROVE  Sync'
BY ReadBackSync, FinalSync, InfoSync, PromptSync, AtReadySync, LostSync DEF Receive

-----------------------------------------------------------------------------
(* The modem's steps *)

\* What the modem sends, as far as the engine can tell
LEMMA ItemFields ==
    /\ \A c \in Sources, ok \in BOOLEAN :
          LET f == Final(c, ok) IN f \in Received /\ f.t = "Final" /\ f.of = c /\ f.ok = ok
    /\ \A c \in Sources :
          /\ Info(c) \in Received /\ Info(c).t = "Info" /\ Info(c).of = c
          /\ Prompt(c) \in Received /\ Prompt(c).t = "Prompt" /\ Prompt(c).of = c
    /\ \A n \in Nonces : ReadBack(n) \in Received /\ ReadBack(n).t = "ReadBack" /\ ReadBack(n).n = n
    /\ AtReady \in Received /\ AtReady.t = "AtReady"
    /\ Lost \in Received /\ Lost.t = "Lost"
BY DEF Final, Info, Prompt, ReadBack, AtReady, Lost, Received

\* Everything on the wires stays or gets lost, but for noise.
LEMMA SyncDropped ==
    ASSUME TypeOK, Sync, Noise, input' \in {input, NoCommand},
           tx' = tx \/ (tx # <<>> /\ tx' = Tail(tx)) \/ tx' = <<>>,
           UNCHANGED <<state, nonce, readBack, inFlight, payloadSent, info>>
    PROVE  Sync'
<1>1. TxShape'
      <2>1. CASE tx' = tx
            BY <2>1 DEF Sync, TxShape
      <2>2. CASE tx # <<>> /\ tx' = Tail(tx)
            BY <2>2, TailShape DEF Sync
      <2>3. CASE tx' = <<>>
            BY <2>3, EmptyShape
      <2> QED BY <2>1, <2>2, <2>3
<1>2. Syncs'
      <2>1. CASE state = "Syncing"
            <3>1. PICK d \in Seq(Received) :
                        rx' = rx \o d /\ \A j \in DOMAIN d : d[j].t \in {"AtReady", "Lost"}
                  BY DEF Noise
            <3>2. Syncs /\ \A j \in DOMAIN d : d[j].t # "ReadBack"
                  BY <3>1 DEF Sync
            <3> QED BY <2>1, <3>1, <3>2, SyncsGrown
      <2>2. CASE state # "Syncing"
            BY <2>2, SyncsElse
      <2> QED BY <2>1, <2>2
<1>3. Rests'
      BY RestsKept DEF Sync
<1>4. Works'
      <2>1. CASE tx' = tx
            BY <2>1, WorksKept DEF Sync
      <2>2. CASE (tx # <<>> /\ tx' = Tail(tx)) \/ tx' = <<>>
            BY <2>2, WorksDropped DEF Sync
      <2> QED BY <2>1, <2>2
<1> QED BY <1>1, <1>2, <1>3, <1>4 DEF Sync

\* The modem takes a command or a text and answers: the link is not at rest.
LEMMA SyncAnswered ==
    ASSUME TypeOK, Sync, tx # <<>>, Head(tx).t \in {"Cmd", "Payload"}, tx' = Tail(tx),
           UNCHANGED <<state, nonce, readBack, inFlight, payloadSent, info>>,
           NEW d \in Seq(Received), rx' = rx \o d, \A j \in DOMAIN d : d[j].t # "ReadBack",
           input' \in {Head(tx).of, NoCommand},
           QuietAfter(0) /\ tx' = <<>> /\ Head(tx).of = inFlight
               /\ (Head(tx).t = "Cmd" => ~payloadSent) => Waiting'
    PROVE  Sync'
<1>1. tx \in Seq(Written) /\ 1 \in DOMAIN tx /\ Head(tx) = tx[1]
      BY Shifted DEF TypeOK
<1>2. ~OnlyEsc
      BY <1>1 DEF OnlyEsc
<1>3. TxShape'
      BY <1>1, TailShape DEF Sync
<1>4. Syncs'
      <2>1. CASE state = "Syncing"
            BY <1>2, <2>1, SyncsGrown DEF Sync
      <2>2. CASE state # "Syncing"
            BY <2>2, SyncsElse
      <2> QED BY <2>1, <2>2
<1>5. Rests'
      BY <1>2 DEF Sync, Rests
<1>6. Works'
      <2> SUFFICES ASSUME state = "Ready", inFlight # NoCommand
                   PROVE  /\ info \subseteq {inFlight} /\ input' \in {inFlight, NoCommand}
                          /\ Waiting'
          BY DEF Works
      <2>1. info \subseteq {inFlight}
            BY DEF Sync, Works
      <2>2. CASE Sent
            <3>1. Head(tx).of = inFlight /\ tx' = <<>>
                  BY <2>2, SentHead DEF Sync
            <3>2. QuietAfter(0) /\ ~payloadSent
                  BY <2>2 DEF Sent
            <3> QED BY <2>1, <3>1, <3>2
      <2>3. CASE Texting
            <3>1. Len(tx) = 1 /\ Head(tx).of = inFlight
                  BY <1>1, <2>3 DEF Texting
            <3>2. Len(Tail(tx)) = 0 /\ Tail(tx) \in Seq(Written)
                  BY <1>1, <3>1, Shifted
            <3>3. tx' = <<>>
                  BY <3>2, EmptySeq
            <3>4. QuietAfter(0) /\ Head(tx).t = "Payload"
                  BY <1>1, <2>3 DEF Texting
            <3> QED BY <2>1, <3>1, <3>3, <3>4
      <2>4. ~Waiting
            BY DEF Waiting
      <2> QED BY <2>2, <2>3, <2>4 DEF Sync, Works
<1> QED BY <1>3, <1>4, <1>5, <1>6 DEF Sync

LEMMA SyncFailed ==
    ASSUME TypeOK, Sync, tx # <<>>, Head(tx).t \in {"Cmd", "Payload"}, tx' = Tail(tx),
           UNCHANGED <<state, nonce, readBack, inFlight, payloadSent, info>>,
           NEW c \in Commands, c = Head(tx).of, Emit(<<Final(c, FALSE)>>), input' = NoCommand
    PROVE  Sync'
<1> DEFINE f == Final(c, FALSE)
           l == Lost
<1>1. /\ f \in Received /\ f.t = "Final" /\ f.of = c /\ f.ok = FALSE
      /\ l \in Received /\ l.t = "Lost"
      BY ItemFields DEF Sources
<1>2. PICK b \in {f, l} : rx' = rx \o <<b>>
      BY <1>1, OneSent
<1> HIDE DEF f, l
<1>3. b \in Received /\ (b.t = "Lost" \/ (b.t = "Final" /\ b.of = c /\ b.ok = FALSE))
      BY <1>1
<1> DEFINE d == <<b>>
<1>4. d \in Seq(Received) /\ DOMAIN d = 1 .. 1 /\ d[1] = b
      BY <1>3, Shorts
<1>5. \A j \in DOMAIN d : d[j].t # "ReadBack"
      BY <1>3, <1>4
<1>6. QuietAfter(0) /\ tx' = <<>> /\ c = inFlight => Waiting'
      BY <1>2, <1>3, OneAnswer
<1>7. rx' = rx \o d
      BY <1>2
<1> HIDE DEF d
<1> QED BY <1>4, <1>5, <1>6, <1>7, SyncAnswered

LEMMA SyncDone ==
    ASSUME TypeOK, Sync, tx # <<>>, Head(tx).t \in {"Cmd", "Payload"}, tx' = Tail(tx),
           UNCHANGED <<state, nonce, readBack, inFlight, payloadSent, info>>,
           NEW c \in Commands, c = Head(tx).of, Emit(<<Info(c), Final(c, TRUE)>>),
           input' = NoCommand
    PROVE  Sync'
<1> DEFINE i == Info(c)
           f == Final(c, TRUE)
           l == Lost
<1>1. /\ i \in Received /\ i.t = "Info" /\ i.of = c
      /\ f \in Received /\ f.t = "Final" /\ f.of = c
      /\ l \in Received /\ l.t = "Lost"
      BY ItemFields, ZenonT(60) DEF Sources
<1>2. \E d \in {<<i, f>>, <<l>>, <<l, f>>, <<i, l>>} : rx' = rx \o d
      BY <1>1, TwoSent
<1> HIDE DEF i, f, l
<1>3. ASSUME NEW a \in {i, l}, NEW b \in {f, l}, rx' = rx \o <<a, b>>
      PROVE  Sync'
      <2> DEFINE d == <<a, b>>
      <2>1. d \in Seq(Received) /\ DOMAIN d = 1 .. 2 /\ d[1] = a /\ d[2] = b
            BY <1>1, Shorts
      <2>2. \A j \in DOMAIN d : d[j].t # "ReadBack"
            BY <1>1, <2>1
      <2>3. QuietAfter(0) /\ tx' = <<>> /\ c = inFlight => Waiting'
            BY <1>1, <1>3, TwoAnswers
      <2>4. rx' = rx \o d
            BY <1>3
      <2> HIDE DEF d
      <2> QED BY <2>1, <2>2, <2>3, <2>4, SyncAnswered
<1>4. ASSUME rx' = rx \o <<l>>
      PROVE  Sync'
      <2> DEFINE d == <<l>>
      <2>1. d \in Seq(Received) /\ DOMAIN d = 1 .. 1 /\ d[1] = l
            BY <1>1, Shorts
      <2>2. \A j \in DOMAIN d : d[j].t # "ReadBack"
            BY <1>1, <2>1
      <2>3. QuietAfter(0) /\ tx' = <<>> /\ c = inFlight => Waiting'
            BY <1>1, <1>4, OneAnswer
      <2>4. rx' = rx \o d
            BY <1>4
      <2> HIDE DEF d
      <2> QED BY <2>1, <2>2, <2>3, <2>4, SyncAnswered
<1> QED BY <1>2, <1>3, <1>4

LEMMA HeadOfTx ==
    ASSUME TypeOK, Sync, tx # <<>>
    PROVE  /\ tx \in Seq(Written) /\ 1 \in DOMAIN tx /\ Head(tx) = tx[1] /\ Head(tx) \in Written
           /\ Head(tx).t = "Cmd" => input = NoCommand
           /\ Head(tx).t = "Payload" => input \in {Head(tx).of, NoCommand}
           /\ Head(tx).t = "Probe" => state # "Ready" /\ ~OnlyEsc
<1>1. tx \in Seq(Written) /\ 1 \in DOMAIN tx /\ Head(tx) = tx[1] /\ Head(tx) \in Written
      BY Shifted DEF TypeOK
<1>2. Head(tx).t = "Probe" => ~OnlyEsc /\ ~Texting /\ ~Waiting
      BY <1>1 DEF OnlyEsc, Texting, Waiting
<1>3. Head(tx).t = "Probe" => ~Sent
      BY SentHead DEF Sync
<1>4. Head(tx).t = "Probe" => state # "Ready"
      BY <1>2, <1>3 DEF Sync, Rests, Works
<1> QED BY <1>1, <1>2, <1>4 DEF Sync, TxShape

LEMMA ExecuteSync ==
    ASSUME TypeOK, Sync, Execute
    PROVE  Sync'
<1> DEFINE c == Head(tx).of
<1>1. /\ tx # <<>> /\ Head(tx).t = "Cmd" /\ tx' = Tail(tx)
      /\ UNCHANGED <<state, nonce, readBack, inFlight, payloadSent, info>>
      BY DEF Execute, Consume, engineVars
<1>2. c \in Commands /\ input = NoCommand
      BY <1>1, HeadOfTx, WrittenFields
<1>3. CASE Emit(<<Final(c, FALSE)>>) /\ input' = input
      BY <1>1, <1>2, <1>3, SyncFailed
<1>4. CASE Emit(<<Info(c), Final(c, TRUE)>>) /\ input' = input
      BY <1>1, <1>2, <1>4, SyncDone
<1>5. CASE c \in Payloads /\ input' = c /\ Emit(<<Prompt(c)>>)
      <2> DEFINE p == Prompt(c)
                 l == Lost
      <2>1. p \in Received /\ p.t = "Prompt" /\ p.of = c /\ l \in Received /\ l.t = "Lost"
            BY <1>2, ItemFields DEF Sources
      <2>2. PICK b \in {p, l} : rx' = rx \o <<b>>
            BY <1>5, <2>1, OneSent
      <2> HIDE DEF p, l
      <2> DEFINE d == <<b>>
      <2>3. d \in Seq(Received) /\ DOMAIN d = 1 .. 1 /\ d[1] = b
            BY <2>1, Shorts
      <2>4. \A j \in DOMAIN d : d[j].t # "ReadBack"
            BY <2>1, <2>3
      <2>5. QuietAfter(0) /\ tx' = <<>> /\ c = inFlight /\ ~payloadSent => Waiting'
            BY <1>1, <1>5, <2>1, <2>2, OneAnswer
      <2>6. rx' = rx \o d
            BY <2>2
      <2> HIDE DEF d
      <2> QED BY <1>1, <1>5, <2>3, <2>4, <2>5, <2>6, SyncAnswered
<1> QED BY <1>2, <1>3, <1>4, <1>5 DEF Execute, Typed

LEMMA TakePayloadSync ==
    ASSUME TypeOK, Sync, TakePayload
    PROVE  Sync'
<1>1. /\ tx # <<>> /\ Head(tx).t = "Payload" /\ tx' = Tail(tx)
      /\ UNCHANGED <<state, nonce, readBack, inFlight, payloadSent, info>>
      BY DEF TakePayload, Consume, engineVars
<1>2. Head(tx).of \in Commands /\ input \in {Head(tx).of, NoCommand}
      BY <1>1, HeadOfTx, WrittenFields
<1>3. CASE input = NoCommand
      <2>1. rx' = rx /\ input' = input
            BY <1>3 DEF TakePayload
      <2> QED BY <1>1, <2>1, NoNoise, SyncDropped
<1>4. CASE input # NoCommand
      <2>1. Emit(<<Info(input), Final(input, TRUE)>>) /\ input' = NoCommand
            BY <1>4 DEF TakePayload
      <2>2. input = Head(tx).of
            BY <1>2, <1>4
      <2> QED BY <1>1, <1>2, <2>1, <2>2, SyncDone
<1> QED BY <1>3, <1>4

\* The latest probe is answered.
LEMMA SyncsEchoed ==
    ASSUME TypeOK, Syncs, state = "Syncing", UNCHANGED <<state, nonce, readBack>>,
           tx # <<>>, Head(tx).t = "Probe", Head(tx).n = nonce, tx' = Tail(tx), input' = NoCommand,
           NEW a \in Received, NEW b \in Received, rx' = rx \o <<a, b>>,
           b.t = "Lost" \/ (b.t = "Final" /\ b.of = NoCommand /\ b.ok = TRUE)
    PROVE  Syncs'
<1>1. /\ tx \in Seq(Written) /\ 1 \in DOMAIN tx /\ Head(tx) = tx[1]
      /\ \A i \in DOMAIN tx' : i + 1 \in DOMAIN tx /\ tx'[i] = tx[i + 1] /\ i + 1 > 1
      BY Shifted DEF TypeOK
<1>2. OnlyEsc'
      BY <1>1 DEF Syncs, OnlyEsc
<1>3. ~OnlyEsc
      BY <1>1 DEF OnlyEsc
<1> DEFINE d == <<a, b>>
<1>4. d \in Seq(Received) /\ Len(d) = 2 /\ d[1] = a /\ d[2] = b /\ rx' = rx \o d
      BY Shorts
<1> HIDE DEF d
<1>5. /\ Len(rx) \in Nat /\ DOMAIN rx = 1 .. Len(rx) /\ DOMAIN rx' = 1 .. Len(rx) + 2
      /\ rx'[Len(rx) + 2] = b /\ \A k \in 1 .. Len(rx) : rx'[k] = rx[k]
      BY <1>4, Joined DEF TypeOK
<1>6. ASSUME NEW k \in DOMAIN rx', rx'[k].t = "ReadBack", rx'[k].n = nonce'
      PROVE  Confirmed(k)'
      <2>1. k \notin 1 .. Len(rx)
            BY <1>3, <1>5, <1>6 DEF Syncs, Confirmed
      <2>2. k # Len(rx) + 2
            BY <1>5, <1>6
      <2>3. k = Len(rx) + 1
            BY <1>5, <2>1, <2>2
      <2>4. k + 1 \in DOMAIN rx' /\ k + 1 = Len(rx) + 2
            BY <1>5, <2>3
      <2>5. QuietAfter(k + 1)'
            BY <1>5, <2>4 DEF QuietAfter
      <2>6. rx'[k + 1] = b
            BY <1>5, <2>4
      <2> QED BY <1>2, <2>4, <2>5, <2>6 DEF Confirmed
<1>7. ~readBack'
      BY <1>3 DEF Syncs, Confirmed
<1> QED BY <1>2, <1>6, <1>7 DEF Syncs, OnlyEsc

LEMMA AnswerProbeSync ==
    ASSUME TypeOK, Sync, AnswerProbe
    PROVE  Sync'
<1> DEFINE n == Head(tx).n
<1>1. /\ tx # <<>> /\ Head(tx).t = "Probe" /\ tx' = Tail(tx)
      /\ UNCHANGED <<state, nonce, readBack, inFlight, payloadSent, info>>
      BY DEF AnswerProbe, Consume, engineVars
<1>2. n \in Nonces /\ state # "Ready" /\ ~OnlyEsc
      BY <1>1, HeadOfTx, WrittenFields
<1>3. CASE input # NoCommand
      <2>1. rx' = rx /\ input' = input
            BY <1>3 DEF AnswerProbe, Typed
      <2> QED BY <1>1, <2>1, NoNoise, SyncDropped
<1>4. CASE input = NoCommand
      <2>1. /\ input' = NoCommand
            /\ Emit(IF garbled THEN <<Final(NoCommand, FALSE)>>
                               ELSE <<ReadBack(n), Final(NoCommand, TRUE)>>)
            BY <1>4 DEF AnswerProbe, Typed
      <2>2. TxShape'
            BY <1>1, <1>4, <2>1, TailShape DEF Sync
      <2>3. CASE state = "Off"
            BY <1>1, <2>2, <2>3, SyncOff
      <2>4. CASE state = "Syncing"
            <3> DEFINE r == ReadBack(n)
                       f == Final(NoCommand, TRUE)
                       e == Final(NoCommand, FALSE)
                       l == Lost
            <3>1. /\ r \in Received /\ r.t = "ReadBack" /\ r.n = n
                  /\ f \in Received /\ f.t = "Final" /\ f.of = NoCommand /\ f.ok = TRUE
                  /\ e \in Received /\ e.t = "Final" /\ l \in Received /\ l.t = "Lost"
                  BY <1>2, ItemFields DEF Sources
            <3>2. garbled => \E d \in {<<e>>, <<l>>} : rx' = rx \o d
                  BY <2>1, <3>1, OneSent
            <3>3. ~garbled => \E d \in {<<r, f>>, <<l>>, <<l, f>>, <<r, l>>} : rx' = rx \o d
                  BY <2>1, <3>1, TwoSent
            <3>4. \E d \in {<<e>>, <<l>>, <<l, f>>, <<r, l>>, <<r, f>>} : rx' = rx \o d
                  BY <3>2, <3>3
            <3> HIDE DEF r, f, e, l
            <3>5. ASSUME NEW d \in Seq(Received), rx' = rx \o d,
                         \A j \in DOMAIN d : ~(d[j].t = "ReadBack" /\ d[j].n = nonce)
                  PROVE  Syncs'
                  BY <1>1, <1>2, <2>1, <2>4, <3>5, SyncsGrown DEF Sync
            <3>6. ASSUME NEW a \in {e, l}, rx' = rx \o <<a>>
                  PROVE  Syncs'
                  <4> DEFINE d == <<a>>
                  <4>1. d \in Seq(Received) /\ DOMAIN d = 1 .. 1 /\ d[1] = a
                        BY <3>1, Shorts
                  <4>2. rx' = rx \o d
                        BY <3>6
                  <4> HIDE DEF d
                  <4> QED BY <3>1, <3>5, <4>1, <4>2, SMTT(30)
            <3>7. ASSUME NEW a \in {l, r}, NEW b \in {f, l}, rx' = rx \o <<a, b>>
                  PROVE  Syncs'
                  <4>1. CASE a = r /\ n = nonce
                        BY <1>1, <2>1, <2>4, <3>1, <3>7, <4>1, SyncsEchoed DEF Sync
                  <4>2. CASE a = l \/ n # nonce
                        <5> DEFINE d == <<a, b>>
                        <5>1. d \in Seq(Received) /\ DOMAIN d = 1 .. 2 /\ d[1] = a /\ d[2] = b
                              BY <3>1, Shorts
                        <5>2. rx' = rx \o d
                              BY <3>7
                        <5> HIDE DEF d
                        <5>3. \A j \in DOMAIN d : ~(d[j].t = "ReadBack" /\ d[j].n = nonce)
                              BY <3>1, <4>2, <5>1
                        <5> QED BY <3>5, <5>1, <5>2, <5>3
                  <4> QED BY <3>7, <4>1, <4>2
            <3>8. Syncs'
                  BY <3>4, <3>6, <3>7
            <3> QED BY <1>1, <2>2, <2>4, <3>8 DEF Sync, Rests, Works
      <2> QED BY <1>2, <2>3, <2>4 DEF TypeOK, EngineType
<1> QED BY <1>3, <1>4

LEMMA ExternalSync ==
    ASSUME TypeOK, Sync, External
    PROVE  Sync'
<1>1. CASE TakeEsc
      <2>1. /\ tx # <<>> /\ Head(tx).t = "Esc" /\ tx' = Tail(tx) /\ input' = NoCommand
            /\ UNCHANGED <<state, nonce, readBack, inFlight, payloadSent, info>>
            BY <1>1 DEF TakeEsc, Consume, engineVars
      <2>2. CASE input = NoCommand
            <3>1. rx' = rx
                  BY <1>1, <2>2 DEF TakeEsc
            <3> QED BY <2>1, <3>1, NoNoise, SyncDropped
      <2>3. CASE input # NoCommand
            <3>1. Head(tx) = tx[1] /\ ~Sent /\ ~Texting /\ ~Waiting
                  BY <2>1, <2>3, HeadOfTx, SentHead DEF Sync, Texting, Waiting, TxShape
            <3>2. state # "Ready"
                  BY <2>3, <3>1 DEF Sync, Rests, Works
            <3>3. TxShape'
                  BY <2>1, TailShape DEF Sync
            <3> DEFINE f == Final(NoCommand, TRUE)
                       l == Lost
            <3>4. f \in Received /\ f.t = "Final" /\ l \in Received /\ l.t = "Lost"
                  BY ItemFields DEF Sources
            <3>5. PICK b \in {f, l} : rx' = rx \o <<b>>
                  BY <1>1, <2>3, <3>4, OneSent DEF TakeEsc
            <3> HIDE DEF f, l
            <3> DEFINE d == <<b>>
            <3>6. d \in Seq(Received) /\ DOMAIN d = 1 .. 1 /\ d[1] = b
                  BY <3>4, Shorts
            <3>7. rx' = rx \o d
                  BY <3>5
            <3> HIDE DEF d
            <3>8. \A j \in DOMAIN d : d[j].t # "ReadBack"
                  BY <3>4, <3>6
            <3>9. state = "Syncing" => Syncs'
                  BY <2>1, <2>3, <3>6, <3>7, <3>8, SyncsGrown DEF Sync
            <3>10. Syncs'
                  BY <2>1, <3>9, SyncsElse
            <3> QED BY <2>1, <3>2, <3>3, <3>10 DEF Sync, Rests, Works
      <2> QED BY <2>2, <2>3
<1>2. CASE Ignore
      <2>1. /\ tx # <<>> /\ tx' = Tail(tx)
            /\ UNCHANGED <<rx, input, state, nonce, readBack, inFlight, payloadSent, info>>
            BY <1>2 DEF Ignore, engineVars, modemVars
      <2> QED BY <2>1, NoNoise, SyncDropped
<1>3. CASE WriteFails
      <2>1. /\ tx # <<>> /\ tx' = Tail(tx)
            /\ UNCHANGED <<rx, input, state, nonce, readBack, inFlight, payloadSent, info>>
            BY <1>3 DEF WriteFails, engineVars
      <2> QED BY <2>1, NoNoise, SyncDropped
<1>4. CASE Booted
      <2>1. UNCHANGED <<tx, input, state, nonce, readBack, inFlight, payloadSent, info>>
            BY <1>4 DEF Booted, engineVars
      <2> DEFINE r == AtReady
                 l == Lost
      <2>2. r \in Received /\ r.t = "AtReady" /\ l \in Received /\ l.t = "Lost"
            BY ItemFields
      <2>3. PICK b \in {r, l} : rx' = rx \o <<b>>
            BY <1>4, <2>2, OneSent DEF Booted
      <2> HIDE DEF r, l
      <2> DEFINE d == <<b>>
      <2>4. d \in Seq(Received) /\ DOMAIN d = 1 .. 1 /\ d[1] = b
            BY <2>2, Shorts
      <2>5. rx' = rx \o d
            BY <2>3
      <2> HIDE DEF d
      <2>6. Noise
            <3>1. b.t \in {"AtReady", "Lost"}
                  BY <2>2, ZenonT(30)
            <3>2. \A j \in DOMAIN d : d[j].t \in {"AtReady", "Lost"}
                  <4> TAKE j \in DOMAIN d
                  <4>1. j = 1
                        BY <2>4, SMTT(30)
                  <4>2. d[j] = b
                        BY <2>4, <4>1, ZenonT(30)
                  <4> QED BY <3>1, <4>2, ZenonT(30)
            <3> QED BY <2>4, <2>5, <3>2, ZenonT(30) DEF Noise
      <2> QED BY <2>1, <2>6, SyncDropped
<1>5. CASE Restart
      <2>1. /\ tx' = <<>> /\ input' = NoCommand
            /\ UNCHANGED <<rx, state, nonce, readBack, inFlight, payloadSent, info>>
            BY <1>5 DEF Restart, Forget, engineVars
      <2> QED BY <2>1, NoNoise, SyncDropped
<1>6. CASE ShutDown
      <2>1. /\ tx' = <<>> /\ input' = NoCommand
            /\ UNCHANGED <<rx, state, nonce, readBack, inFlight, payloadSent, info>>
            BY <1>6 DEF ShutDown, Forget, engineVars
      <2> QED BY <2>1, NoNoise, SyncDropped
<1> QED BY <1>1, <1>2, <1>3, <1>4, <1>5, <1>6, ExecuteSync, AnswerProbeSync, TakePayloadSync
    DEF External, Modem

\* Every step of Next keeps Sync, as long as probe numbers are fresh.
LEMMA SyncStep ==
    ASSUME TypeOK, Placed, NoncesFresh, Sync, [Next]_vars
    PROVE  Sync'
<1>1. CASE UNCHANGED vars
      BY <1>1, SyncSame DEF vars, engineVars, modemVars
<1> QED BY <1>1, CallsSync, ReceiveSync, ExternalSync DEF Next

-----------------------------------------------------------------------------
(* Ready: nothing stale is on a wire *)

\* Sync says more than Drained.
LEMMA SyncDrained ==
    ASSUME TypeOK, Sync
    PROVE  Drained
<1> SUFFICES ASSUME state = "Ready"
             PROVE  /\ \A i \in DOMAIN tx : ~Stale(tx[i])
                    /\ \A i \in DOMAIN rx : ~Stale(rx[i])
                    /\ input \in {inFlight, NoCommand}
    BY DEF Drained
<1>1. QuietAfter(0) => \A i \in DOMAIN rx : ~Stale(rx[i])
      BY SMTT(60) DEF QuietAfter, Stale, TypeOK
<1>2. CASE inFlight = NoCommand
      BY <1>1, <1>2 DEF Sync, Rests, OnlyEsc, Stale
<1>3. CASE inFlight # NoCommand
      <2>1. CASE Sent
            <3>1. Len(tx) \in DOMAIN tx /\ tx[Len(tx)].t = "Cmd" /\ tx[Len(tx)].of = inFlight
                  /\ \A i \in DOMAIN tx : i < Len(tx) \/ i = Len(tx)
                  BY <2>1 DEF Sent, TypeOK
            <3>2. \A i \in DOMAIN tx : i < Len(tx) => tx[i].t = "Esc"
                  BY <3>1 DEF Sync, TxShape
            <3> QED BY <1>1, <1>3, <2>1, <3>1, <3>2 DEF Sync, Works, Sent, Stale
      <2>2. CASE Texting
            <3>1. DOMAIN tx = 1 .. 1 /\ tx[1].t = "Payload" /\ tx[1].of = inFlight
                  BY <2>2 DEF Texting, TypeOK
            <3> QED BY <1>1, <1>3, <2>2, <3>1 DEF Sync, Works, Texting, Stale
      <2>3. CASE Waiting
            <3>1. \A i \in DOMAIN rx : ~Stale(rx[i])
                  BY <2>3 DEF Waiting, Expected, Stale
            <3>2. DOMAIN tx = {}
                  BY <2>3 DEF Waiting
            <3> QED BY <1>3, <3>1, <3>2 DEF Sync, Works
      <2> QED BY <1>3, <2>1, <2>2, <2>3 DEF Sync, Works
<1> QED BY <1>2, <1>3

\* As long as probe numbers are fresh, the wires hold what Sync says: the engine
\* (start_probe, unsync, pump, on_rx) keeps step with the modem in every state.
THEOREM SyncAlways == Spec /\ []NoncesFresh => []Sync
<1>1. Init => Sync
      BY DEF Init, Sync, TxShape, Syncs, Rests, Works
<1>2. TypeOK /\ OneReply /\ NoncesFresh /\ Sync /\ [Next]_vars => Sync'
      BY SyncStep DEF OneReply
<1>3. Spec => []TypeOK
      BY TypeCorrect
<1>4. Spec => []OneReply
      BY OneReplyAlways
<1> QED BY <1>1, <1>2, <1>3, <1>4, PTL DEF Spec

\* "The link is only synced once the latest probe has been answered" (link.rs:18-26):
\* whenever the engine is Ready, neither wire holds anything stale, for every number of
\* commands and any faults, as long as probe numbers are fresh.
THEOREM DrainedAlways == Spec /\ []NoncesFresh => []Drained
<1>1. TypeOK /\ Sync => Drained
      BY SyncDrained
<1> QED BY <1>1, TypeCorrect, SyncAlways, PTL

-----------------------------------------------------------------------------
(* Probe numbers. A number comes round again after PROBE_NONCES more       *)
(* probes. Each probe sent while others are still on the wires was caused  *)
(* by a fault: directly (a late answer), or through a loss marker or an    *)
(* *ATREADY on its way (a mark), or through a power cycle (a flag).        *)

\* What is received may cause a probe: a loss (on_lost), or *ATREADY (reset).
IsMark(x) == x.t \in {"Lost", "AtReady"}
Worth(b, n) == IF b THEN n ELSE 0

\* The marks in a received stream
Marked(s) == {i \in DOMAIN s : IsMark(s[i])}
Marks == Cardinality(Marked(rx))

\* The probes to come that no received item announces: a reset() owed, a
\* modem that boots, one that is off, a switch-off under way
Flags == Worth(resetDue, 1) + Worth(power = "Boot", 1) + Worth(power = "Off", 2) + Worth(pulse, 2)

\* How many probes ago number n was given out, at least
Age(n) == IF n <= nonce THEN nonce - n ELSE nonce + PROBE_NONCES - n

\* The faults so far pay for the probes since n and for those to come.
Young(n) == Age(n) + Marks + Flags <= Spent(faults)

\* A stream written that holds probe n, and one received that holds its read-back
Asks(s, n) == \E i \in DOMAIN s : s[i].t = "Probe" /\ s[i].n = n
Echoes(s, n) == \E i \in DOMAIN s : s[i].t = "ReadBack" /\ s[i].n = n

\* n is on a wire
Carried(n) == Asks(tx, n) \/ Echoes(rx, n)

\* The invariant: faults pay for the probes to come, and for those since any
\* number that is still on a wire.
Credit ==
    /\ Marks + Flags <= Spent(faults)
    /\ \A n \in Nonces : Carried(n) => Young(n)

-----------------------------------------------------------------------------
(* Counting the marks of a received stream *)

LEMMA MarkedType ==
    ASSUME NEW s \in Seq(Received)
    PROVE  /\ IsFiniteSet(Marked(s)) /\ Cardinality(Marked(s)) \in Nat
           /\ Marked(s) \subseteq 1 .. Len(s) /\ Len(s) \in Nat
<1>1. Marked(s) \subseteq 1 .. Len(s) /\ Len(s) \in Nat
      BY DEF Marked
<1>2. IsFiniteSet(1 .. Len(s))
      BY <1>1, FS_Interval
<1> QED BY <1>1, <1>2, FS_Subset, FS_CardinalityType

\* A received item adds itself if it is a mark.
LEMMA MarkedAppend ==
    ASSUME NEW s \in Seq(Received), NEW x \in Received
    PROVE  Cardinality(Marked(Append(s, x))) = Cardinality(Marked(s)) + Worth(IsMark(x), 1)
<1> DEFINE t == Append(s, x)
           n == Len(s) + 1
<1>1. /\ DOMAIN s = 1 .. Len(s) /\ DOMAIN t = 1 .. n /\ Len(s) \in Nat
      /\ t[n] = x /\ \A i \in 1 .. Len(s) : t[i] = s[i]
      BY Appended
<1>2. /\ IsFiniteSet(Marked(s)) /\ Cardinality(Marked(s)) \in Nat /\ n \notin Marked(s)
      BY <1>1, MarkedType
<1> HIDE DEF t
<1>3. CASE IsMark(x)
      <2>1. Marked(t) = Marked(s) \cup {n}
            BY <1>1, <1>3 DEF Marked
      <2> QED BY <1>2, <1>3, <2>1, FS_AddElement DEF Worth, t
<1>4. CASE ~IsMark(x)
      <2>1. Marked(t) = Marked(s)
            BY <1>1, <1>4 DEF Marked
      <2> QED BY <1>2, <1>4, <2>1 DEF Worth, t
<1> QED BY <1>3, <1>4

LEMMA MarkAdded ==
    ASSUME NEW s \in Seq(Received), NEW x \in Received, IsMark(x)
    PROVE  Cardinality(Marked(Append(s, x))) = Cardinality(Marked(s)) + 1
BY MarkedAppend DEF Worth

LEMMA NoMarkAdded ==
    ASSUME NEW s \in Seq(Received), NEW x \in Received, ~IsMark(x)
    PROVE  Cardinality(Marked(Append(s, x))) = Cardinality(Marked(s))
BY MarkedAppend, MarkedType DEF Worth

\* Taking a mark away leaves one less.
LEMMA MarkedTail ==
    ASSUME NEW s \in Seq(Received), s # <<>>
    PROVE  Cardinality(Marked(Tail(s))) + Worth(IsMark(Head(s)), 1) <= Cardinality(Marked(s))
<1> DEFINE t == Tail(s)
           rest == Marked(s) \ {1}
           f == [i \in Marked(t) |-> i + 1]
<1>1. /\ t \in Seq(Received) /\ Len(s) \in Nat /\ Len(s) >= 1 /\ DOMAIN s = 1 .. Len(s)
      /\ DOMAIN t = 1 .. Len(s) - 1 /\ Head(s) = s[1]
      /\ \A i \in 1 .. Len(s) - 1 : t[i] = s[i + 1]
      BY Shifted
<1> HIDE DEF t
<1>2. f \in Injection(Marked(t), rest)
      <2>1. \A i \in Marked(t) : i \in Nat /\ i + 1 \in rest
            BY <1>1 DEF Marked
      <2>2. f \in [Marked(t) -> rest]
            BY <2>1
      <2>3. \A i, j \in Marked(t) : f[i] = f[j] => i = j
            BY <2>1
      <2> QED BY <2>2, <2>3 DEF Injection, IsInjective
<1>3. /\ IsFiniteSet(Marked(s)) /\ Cardinality(Marked(s)) \in Nat
      /\ IsFiniteSet(Marked(t)) /\ Cardinality(Marked(t)) \in Nat
      BY <1>1, MarkedType
<1>4. /\ IsFiniteSet(rest)
      /\ Cardinality(rest) = IF 1 \in Marked(s) THEN Cardinality(Marked(s)) - 1 ELSE Cardinality(Marked(s))
      BY <1>3, FS_RemoveElement
<1>5. Cardinality(Marked(t)) <= Cardinality(rest)
      <2> HIDE DEF f, rest
      <2> QED BY <1>2, <1>4, FS_Injection
<1>6. IsMark(Head(s)) <=> 1 \in Marked(s)
      BY <1>1 DEF Marked
<1> QED BY <1>3, <1>4, <1>5, <1>6 DEF Worth, t

-----------------------------------------------------------------------------
(* What a step may cost *)

LEMMA Numbers ==
    ASSUME TypeOK
    PROVE  /\ Marks \in Nat /\ Flags \in Nat
           /\ \A f \in Allowed : Spent(f) \in Nat
           /\ faults \in Allowed /\ faults \in [Fault -> Nat]
           /\ \A n \in Nonces : Age(n) \in Nat
<1>1. Marks \in Nat
      BY MarkedType DEF Marks, TypeOK
<1>2. Flags \in Nat
      BY DEF Flags, Worth
<1>3. faults \in Allowed /\ faults \in [Fault -> Nat] /\ \A f \in Allowed : f \in [Fault -> Nat]
      BY AllowedAssumption DEF TypeOK
<1>4. \A f \in Allowed : Spent(f) \in Nat
      BY <1>3 DEF Spent, Fault
<1>5. \A n \in Nonces : Age(n) \in Nat
      BY NoncesAssumption DEF Nonces, Age, TypeOK, EngineType
<1> QED BY <1>1, <1>2, <1>3, <1>4, <1>5

NumbersOK == Marks \in Nat /\ Flags \in Nat /\ Spent(faults) \in Nat /\ faults \in [Fault -> Nat]

LEMMA NumbersHere == TypeOK => NumbersOK
BY Numbers DEF NumbersOK

LEMMA NumbersNext ==
    ASSUME TypeOK'
    PROVE  Marks' \in Nat /\ Flags' \in Nat /\ Spent(faults') \in Nat /\ faults' \in [Fault -> Nat]
<1>1. NumbersOK'
      BY NumbersHere, PTL
<1> QED BY <1>1 DEF NumbersOK

\* What a fault pays
LEMMA Suffered ==
    ASSUME faults \in [Fault -> Nat], NEW f \in Fault, Suffer(f)
    PROVE  Spent(faults') = Spent(faults) + (CASE f \in {"late", "loss", "restart"} -> 1
                                               [] f = "power" -> 2
                                               [] f = "write" -> 0)
<1>1. faults' = [faults EXCEPT ![f] = faults[f] + 1]
      BY DEF Suffer
<1> QED BY <1>1 DEF Spent, Fault

LEMMA NextNumber ==
    ASSUME TypeOK
    PROVE  /\ nonce \in 0 .. PROBE_NONCES /\ PROBE_NONCES \in Nat /\ PROBE_NONCES >= 1
           /\ NextNonce = IF nonce = PROBE_NONCES THEN 1 ELSE nonce + 1
           /\ NextNonce \in Nonces
<1>1. nonce \in 0 .. PROBE_NONCES /\ PROBE_NONCES \in Nat /\ PROBE_NONCES >= 1
      BY NoncesAssumption DEF TypeOK, EngineType
<1>2. CASE nonce = PROBE_NONCES
      BY <1>1, <1>2 DEF NextNonce, Nonces
<1>3. CASE nonce < PROBE_NONCES
      <2>1. nonce % PROBE_NONCES = nonce
            BY <1>1, <1>3
      <2> QED BY <1>1, <1>3, <2>1 DEF NextNonce, Nonces
<1> QED BY <1>1, <1>2, <1>3

\* A probe makes every other number one probe older.
LEMMA Ages ==
    ASSUME TypeOK, nonce' = NextNonce, NEW n \in Nonces
    PROVE  /\ Age(n) \in Nat /\ Age(n)' \in Nat /\ Age(n)' <= Age(n) + 1
           /\ n = NextNonce => Age(n)' = 0
<1> DEFINE m == nonce'
           P == PROBE_NONCES
<1>1. /\ nonce \in 0 .. P /\ P \in Nat /\ P >= 1 /\ n \in 1 .. P
      /\ m = IF nonce = P THEN 1 ELSE nonce + 1
      BY NextNumber DEF Nonces
<1>2. /\ Age(n)' = IF n <= m THEN m - n ELSE m + P - n
      BY DEF Age
<1>3. Age(n) = IF n <= nonce THEN nonce - n ELSE nonce + P - n
      BY DEF Age
<1>4. n = NextNonce <=> n = m
      OBVIOUS
<1> HIDE DEF m, P
<1>5. m \in Nat
      BY <1>1
<1>6. n = m => Age(n)' = 0
      BY <1>1, <1>2, <1>5
<1>7. CASE nonce = P
      BY <1>1, <1>2, <1>3, <1>7, <1>6, <1>4
<1>8. CASE nonce < P /\ n <= nonce
      BY <1>1, <1>2, <1>3, <1>8, <1>6, <1>4
<1>9. CASE nonce < P /\ n > nonce
      BY <1>1, <1>2, <1>3, <1>9, <1>6, <1>4
<1> QED BY <1>1, <1>7, <1>8, <1>9

\* With few faults no number comes round again while it is still on a wire.
LEMMA CreditFresh ==
    ASSUME TypeOK, Credit, FewFaults
    PROVE  NoncesFresh
<1>1. /\ nonce \in 0 .. PROBE_NONCES /\ PROBE_NONCES \in Nat /\ PROBE_NONCES >= 1
      /\ NextNonce = IF nonce = PROBE_NONCES THEN 1 ELSE nonce + 1
      /\ NextNonce \in Nonces
      BY NextNumber
<1>2. /\ Marks \in Nat /\ Flags \in Nat /\ Spent(faults) \in Nat
      /\ Spent(faults) <= PROBE_NONCES - 2 /\ Spent(faults) >= 2
      <2>1. Spent(faults) >= 2
            BY Numbers DEF Spent, Fault
      <2> QED BY <2>1, Numbers DEF FewFaults
<1>3. Age(NextNonce) = PROBE_NONCES - 1
      BY <1>1, <1>2 DEF Age
<1>4. ~Young(NextNonce)
      BY <1>1, <1>2, <1>3 DEF Young
<1> QED BY <1>1, <1>4 DEF Credit, NoncesFresh, Carried, Asks, Echoes

-----------------------------------------------------------------------------
(* Three ways to keep the credit *)

\* What the step adds is paid by faults.
Cheap == Marks' + Flags' + Spent(faults) <= Marks + Flags + Spent(faults')

\* no new probe: the marks and flags it adds are paid by faults
LEMMA CreditKept ==
    ASSUME TypeOK, TypeOK', Credit, nonce' = nonce, Cheap,
           \A n \in Nonces : Carried(n)' => Carried(n)
    PROVE  Credit'
<1>1. /\ Marks \in Nat /\ Flags \in Nat /\ Spent(faults) \in Nat
      /\ Marks' \in Nat /\ Flags' \in Nat /\ Spent(faults') \in Nat
      BY Numbers, NumbersNext
<1>2. Marks' + Flags' <= Spent(faults')
      BY <1>1 DEF Credit, Cheap
<1>3. ASSUME NEW n \in Nonces, Carried(n)' PROVE Young(n)'
      <2>1. Age(n)' = Age(n) /\ Age(n) \in Nat
            BY Numbers DEF Age
      <2>2. Age(n) + Marks + Flags <= Spent(faults)
            BY <1>3 DEF Credit, Young
      <2>3. Age(n)' + Marks' + Flags' <= Spent(faults')
            BY <1>1, <2>1, <2>2 DEF Cheap
      <2> QED BY <2>3 DEF Young
<1> QED BY <1>2, <1>3 DEF Credit, Spent

\* a new probe, paid by a fault, a mark or a flag
LEMMA CreditProbe ==
    ASSUME TypeOK, TypeOK', Credit, nonce' = NextNonce,
           1 + Marks' + Flags' + Spent(faults) <= Marks + Flags + Spent(faults'),
           \A n \in Nonces : Carried(n)' => Carried(n) \/ n = NextNonce
    PROVE  Credit'
<1>1. /\ Marks \in Nat /\ Flags \in Nat /\ Spent(faults) \in Nat
      /\ Marks' \in Nat /\ Flags' \in Nat /\ Spent(faults') \in Nat
      BY Numbers, NumbersNext
<1>2. Marks' + Flags' <= Spent(faults')
      BY <1>1 DEF Credit
<1>3. ASSUME NEW n \in Nonces, Carried(n)' PROVE Young(n)'
      <2>1. CASE n = NextNonce
            BY <1>1, <1>2, <2>1, Ages DEF Young
      <2>2. CASE Carried(n)
            <3>1. Age(n)' <= Age(n) + 1 /\ Age(n) \in Nat /\ Age(n)' \in Nat
                  BY Ages
            <3>2. Age(n) + Marks + Flags <= Spent(faults)
                  BY <2>2 DEF Credit, Young
            <3>3. Age(n)' + Marks' + Flags' <= Spent(faults')
                  BY <1>1, <3>1, <3>2
            <3> QED BY <3>3 DEF Young
      <2> QED BY <1>3, <2>1, <2>2
<1> QED BY <1>2, <1>3 DEF Credit, Spent

\* a new probe on wires that carried none
LEMMA CreditAlone ==
    ASSUME TypeOK, TypeOK', Credit, nonce' = NextNonce, Cheap,
           \A n \in Nonces : Carried(n)' => n = NextNonce
    PROVE  Credit'
<1>1. /\ Marks \in Nat /\ Flags \in Nat /\ Spent(faults) \in Nat
      /\ Marks' \in Nat /\ Flags' \in Nat /\ Spent(faults') \in Nat
      BY Numbers, NumbersNext
<1>2. Marks' + Flags' <= Spent(faults')
      BY <1>1 DEF Credit, Cheap
<1>3. ASSUME NEW n \in Nonces, Carried(n)' PROVE Young(n)'
      BY <1>1, <1>2, <1>3, Ages DEF Young
<1> QED BY <1>2, <1>3 DEF Credit, Spent

-----------------------------------------------------------------------------
(* What the wires carry after a step *)

LEMMA AsksTail ==
    ASSUME NEW s \in Seq(Written), s # <<>>, NEW n, Asks(Tail(s), n)
    PROVE  Asks(s, n)
<1>1. PICK i \in DOMAIN Tail(s) : Tail(s)[i].t = "Probe" /\ Tail(s)[i].n = n
      BY DEF Asks
<1>2. /\ DOMAIN s = 1 .. Len(s) /\ DOMAIN Tail(s) = 1 .. Len(s) - 1 /\ Len(s) \in Nat
      /\ \A j \in 1 .. Len(s) - 1 : Tail(s)[j] = s[j + 1]
      BY Shifted
<1>3. i + 1 \in DOMAIN s /\ s[i + 1] = Tail(s)[i]
      BY <1>1, <1>2
<1> QED BY <1>1, <1>3 DEF Asks

LEMMA EchoesTail ==
    ASSUME NEW s \in Seq(Received), s # <<>>, NEW n, Echoes(Tail(s), n)
    PROVE  Echoes(s, n)
<1>1. PICK i \in DOMAIN Tail(s) : Tail(s)[i].t = "ReadBack" /\ Tail(s)[i].n = n
      BY DEF Echoes
<1>2. /\ DOMAIN s = 1 .. Len(s) /\ DOMAIN Tail(s) = 1 .. Len(s) - 1 /\ Len(s) \in Nat
      /\ \A j \in 1 .. Len(s) - 1 : Tail(s)[j] = s[j + 1]
      BY Shifted
<1>3. i + 1 \in DOMAIN s /\ s[i + 1] = Tail(s)[i]
      BY <1>1, <1>2
<1> QED BY <1>1, <1>3 DEF Echoes

LEMMA AsksAppend ==
    ASSUME NEW s \in Seq(Written), NEW x \in Written, NEW n, Asks(Append(s, x), n)
    PROVE  Asks(s, n) \/ (x.t = "Probe" /\ x.n = n)
<1> DEFINE t == Append(s, x)
<1>1. PICK i \in DOMAIN t : t[i].t = "Probe" /\ t[i].n = n
      BY DEF Asks
<1>2. /\ DOMAIN s = 1 .. Len(s) /\ DOMAIN t = 1 .. Len(s) + 1 /\ Len(s) \in Nat
      /\ t[Len(s) + 1] = x /\ \A j \in 1 .. Len(s) : t[j] = s[j]
      BY Appended
<1> HIDE DEF t
<1>3. i \in DOMAIN s \/ i = Len(s) + 1
      BY <1>1, <1>2
<1> QED BY <1>1, <1>2, <1>3 DEF Asks

LEMMA EchoesAppend ==
    ASSUME NEW s \in Seq(Received), NEW x \in Received, NEW n, Echoes(Append(s, x), n)
    PROVE  Echoes(s, n) \/ (x.t = "ReadBack" /\ x.n = n)
<1> DEFINE t == Append(s, x)
<1>1. PICK i \in DOMAIN t : t[i].t = "ReadBack" /\ t[i].n = n
      BY DEF Echoes
<1>2. /\ DOMAIN s = 1 .. Len(s) /\ DOMAIN t = 1 .. Len(s) + 1 /\ Len(s) \in Nat
      /\ t[Len(s) + 1] = x /\ \A j \in 1 .. Len(s) : t[j] = s[j]
      BY Appended
<1> HIDE DEF t
<1>3. i \in DOMAIN s \/ i = Len(s) + 1
      BY <1>1, <1>2
<1> QED BY <1>1, <1>2, <1>3 DEF Echoes

\* A probe puts one number on the wires, its own.
LEMMA ProbeCarried ==
    ASSUME TypeOK, NEW first \in {<<>>, <<Esc>>}, StartProbe(first),
           rx' = rx \/ (rx # <<>> /\ rx' = Tail(rx)), NEW n \in Nonces, Carried(n)'
    PROVE  Carried(n) \/ n = NextNonce
<1> DEFINE e == Esc
           p == Probe(NextNonce)
<1>1. /\ tx \in Seq(Written) /\ rx \in Seq(Received) /\ e \in Written /\ p \in Written
      /\ e.t = "Esc" /\ p.t = "Probe" /\ p.n = NextNonce
      BY NextNumber DEF TypeOK, Written, Esc, Probe
<1>2. first = <<>> \/ first = <<e>>
      OBVIOUS
<1>3. tx' = tx \o first \o <<p>>
      BY DEF StartProbe
<1> HIDE DEF e, p
<1>4. tx' = Append(tx, p) \/ tx' = Append(Append(tx, e), p)
      <2>1. CASE first = <<>>
            <3>1. tx \o <<>> = tx
                  BY <1>1, ConcatEmptySeq
            <3> QED BY <1>1, <1>3, <2>1, <3>1, AppendIsConcat
      <2>2. CASE first = <<e>>
            <3>1. tx \o <<e>> = Append(tx, e) /\ Append(tx, e) \in Seq(Written)
                  BY <1>1, AppendIsConcat
            <3>2. Append(tx, e) \o <<p>> = Append(Append(tx, e), p)
                  BY <1>1, <3>1, AppendIsConcat
            <3> QED BY <1>3, <2>2, <3>1, <3>2
      <2> QED BY <1>2, <2>1, <2>2
<1>5. Asks(tx', n) => Asks(tx, n) \/ n = NextNonce
      <2> SUFFICES ASSUME Asks(tx', n) PROVE Asks(tx, n) \/ n = NextNonce
          OBVIOUS
      <2>1. CASE tx' = Append(tx, p)
            BY <1>1, <2>1, AsksAppend
      <2>2. CASE tx' = Append(Append(tx, e), p)
            <3>1. Append(tx, e) \in Seq(Written)
                  BY <1>1
            <3> QED BY <1>1, <2>2, <3>1, AsksAppend
      <2> QED BY <1>4, <2>1, <2>2
<1>6. Echoes(rx', n) => Echoes(rx, n)
      BY <1>1, EchoesTail
<1> QED BY <1>5, <1>6 DEF Carried

-----------------------------------------------------------------------------
(* What the modem's answers cost *)

\* A mark in place of what the modem sent is paid by the loss.
LEMMA OnePaid ==
    ASSUME TypeOK, NEW a \in Received, Emit(<<a>>)
    PROVE  /\ Marks' + Spent(faults) <= Marks + Worth(IsMark(a), 1) + Spent(faults')
           /\ \A n : Echoes(rx', n) => Echoes(rx, n) \/ (a.t = "ReadBack" /\ a.n = n)
<1> DEFINE l == Lost
<1>1. /\ rx \in Seq(Received) /\ l \in Received /\ l.t = "Lost" /\ IsMark(l)
      /\ Marks \in Nat /\ Spent(faults) \in Nat /\ faults \in [Fault -> Nat]
      BY ItemFields, Numbers DEF TypeOK, IsMark
<1>2. \/ rx' = Append(rx, a) /\ faults' = faults
      \/ rx' = Append(rx, l) /\ Suffer("loss")
      BY <1>1, OneDamaged, AppendIsConcat DEF Emit
<1> HIDE DEF l
<1>3. CASE rx' = Append(rx, a) /\ faults' = faults
      <2>1. Marks' = Marks + Worth(IsMark(a), 1)
            BY <1>1, <1>3, MarkedAppend DEF Marks
      <2> QED BY <1>1, <1>3, <2>1, EchoesAppend DEF Worth
<1>4. CASE rx' = Append(rx, l) /\ Suffer("loss")
      <2>1. Marks' = Marks + 1
            BY <1>1, <1>4, MarkedAppend DEF Marks, Worth
      <2>2. Spent(faults') = Spent(faults) + 1
            BY <1>1, <1>4, Suffered DEF Fault
      <2>3. Worth(IsMark(a), 1) \in Nat
            BY DEF Worth
      <2>4. \A n : Echoes(rx', n) => Echoes(rx, n)
            BY <1>1, <1>4, EchoesAppend
      <2> QED BY <1>1, <2>1, <2>2, <2>3, <2>4
<1> QED BY <1>2, <1>3, <1>4

LEMMA Twice ==
    ASSUME NEW S, NEW s \in Seq(S), NEW a \in S, NEW b \in S
    PROVE  s \o <<a, b>> = Append(Append(s, a), b) /\ Append(s, a) \in Seq(S)
<1>1. /\ <<a>> \in Seq(S) /\ <<b>> \in Seq(S) /\ Append(s, a) \in Seq(S)
      OBVIOUS
<1>2. <<a, b>> = <<a>> \o <<b>>
      BY Pair
<1>3. s \o (<<a>> \o <<b>>) = (s \o <<a>>) \o <<b>>
      BY <1>1, ConcatAssociative
<1>4. s \o <<a>> = Append(s, a) /\ Append(s, a) \o <<b>> = Append(Append(s, a), b)
      BY <1>1, AppendIsConcat
<1> QED BY <1>1, <1>2, <1>3, <1>4

LEMMA TwoPaid ==
    ASSUME TypeOK, NEW a \in Received, NEW b \in Received, Emit(<<a, b>>),
           ~IsMark(a), ~IsMark(b), b.t # "ReadBack"
    PROVE  /\ Marks' + Spent(faults) <= Marks + Spent(faults')
           /\ \A n : Echoes(rx', n) => Echoes(rx, n) \/ (a.t = "ReadBack" /\ a.n = n)
<1> DEFINE l == Lost
<1>1. /\ rx \in Seq(Received) /\ l \in Received /\ l.t = "Lost" /\ IsMark(l)
      /\ Marks \in Nat /\ Spent(faults) \in Nat /\ faults \in [Fault -> Nat]
      BY ItemFields, Numbers DEF TypeOK, IsMark
<1>2. \/ rx' = Append(Append(rx, a), b) /\ faults' = faults
      \/ /\ Suffer("loss")
         /\ rx' \in {Append(rx, l), Append(Append(rx, l), b), Append(Append(rx, a), l)}
      <2>1. /\ rx \o <<a, b>> = Append(Append(rx, a), b)
            /\ rx \o <<l, b>> = Append(Append(rx, l), b)
            /\ rx \o <<a, l>> = Append(Append(rx, a), l)
            /\ rx \o <<l>> = Append(rx, l)
            BY <1>1, Twice, AppendIsConcat
      <2> QED BY <2>1, TwoDamaged DEF Emit
<1> HIDE DEF l
<1>3. /\ Append(rx, a) \in Seq(Received) /\ Append(rx, l) \in Seq(Received)
      /\ Cardinality(Marked(Append(rx, a))) = Marks
      /\ Cardinality(Marked(Append(rx, l))) = Marks + 1
      BY <1>1, MarkedAppend DEF Marks, Worth
<1>4. /\ Cardinality(Marked(Append(Append(rx, a), b))) = Marks
      /\ Cardinality(Marked(Append(Append(rx, l), b))) = Marks + 1
      /\ Cardinality(Marked(Append(Append(rx, a), l))) = Marks + 1
      <2> DEFINE p == Append(rx, a)
                 q == Append(rx, l)
      <2>1. /\ p \in Seq(Received) /\ q \in Seq(Received)
            /\ Cardinality(Marked(p)) = Marks /\ Cardinality(Marked(q)) = Marks + 1
            BY <1>3
      <2> HIDE DEF p, q
      <2>2. /\ Cardinality(Marked(Append(p, b))) = Cardinality(Marked(p))
            /\ Cardinality(Marked(Append(q, b))) = Cardinality(Marked(q))
            /\ Cardinality(Marked(Append(p, l))) = Cardinality(Marked(p)) + 1
            BY <1>1, <2>1, MarkAdded, NoMarkAdded
      <2>4. /\ Cardinality(Marked(Append(p, b))) = Marks
            /\ Cardinality(Marked(Append(q, b))) = Marks + 1
            /\ Cardinality(Marked(Append(p, l))) = Marks + 1
            BY <2>1, <2>2
      <2> QED BY <2>4 DEF p, q
<1>5. Suffer("loss") => Spent(faults') = Spent(faults) + 1
      BY <1>1, Suffered DEF Fault
<1>6. Marks' + Spent(faults) <= Marks + Spent(faults')
      <2>1. Marks' = Cardinality(Marked(rx'))
            BY DEF Marks
      <2>2. \/ Marks' = Marks /\ faults' = faults
            \/ Marks' = Marks + 1 /\ Spent(faults') = Spent(faults) + 1
            BY <1>2, <1>3, <1>4, <1>5, <2>1
      <2> QED BY <1>1, <2>2
<1>7. ASSUME NEW n, Echoes(rx', n) PROVE Echoes(rx, n) \/ (a.t = "ReadBack" /\ a.n = n)
      <2>1. ASSUME NEW s \in Seq(Received), Echoes(Append(s, b), n) \/ Echoes(Append(s, l), n)
            PROVE  Echoes(s, n)
            BY <1>1, <2>1, EchoesAppend
      <2>2. Echoes(Append(rx, a), n) => Echoes(rx, n) \/ (a.t = "ReadBack" /\ a.n = n)
            BY <1>1, EchoesAppend
      <2> QED BY <1>1, <1>2, <1>3, <1>7, <2>1, <2>2
<1> QED BY <1>6, <1>7

-----------------------------------------------------------------------------
(* No step outspends the faults *)

\* Consuming or forgetting what is on the wires carries no new number.
LEMMA CarriedLess ==
    ASSUME TypeOK, NEW n \in Nonces, Carried(n)',
           \/ tx' = tx \/ (tx # <<>> /\ tx' = Tail(tx)) \/ tx' = <<>>
           \/ \E w \in Written : w.t # "Probe" /\ tx' = Append(tx, w),
           Echoes(rx', n) => Carried(n)
    PROVE  Carried(n)
<1>1. Asks(tx', n) \/ Echoes(rx', n)
      BY DEF Carried
<1>2. CASE Asks(tx', n)
      <2>1. tx \in Seq(Written) /\ tx' # <<>>
            BY <1>2 DEF TypeOK, Asks
      <2>2. ASSUME NEW w \in Written, w.t # "Probe", tx' = Append(tx, w) PROVE Asks(tx, n)
            BY <1>2, <2>1, <2>2, AsksAppend
      <2>3. Asks(tx, n)
            BY <1>2, <2>1, <2>2, AsksTail
      <2> QED BY <2>3 DEF Carried
<1> QED BY <1>1, <1>2

LEMMA TakenMarks ==
    ASSUME TypeOK, rx # <<>>, rx' = Tail(rx)
    PROVE  /\ Marks' + Worth(IsMark(Head(rx)), 1) <= Marks
           /\ \A n : Echoes(rx', n) => Echoes(rx, n)
<1>1. rx \in Seq(Received)
      BY DEF TypeOK
<1> QED BY <1>1, MarkedTail, EchoesTail DEF Marks

\* What the engine writes: one item that is no probe, or nothing
Plain == tx' = tx \/ \E w \in Written : w.t # "Probe" /\ tx' = Append(tx, w)

LEMMA WrittenItems ==
    /\ \A c \in Commands : /\ Cmd(c) \in Written /\ Cmd(c).t # "Probe"
                          /\ Payload(c) \in Written /\ Payload(c).t # "Probe"
    /\ Esc \in Written /\ Esc.t # "Probe"
BY DEF Written, Cmd, Payload, Esc

LEMMA PumpPlain ==
    ASSUME NEW q \in Seq(Commands), Pump(q)
    PROVE  Plain /\ nonce' = nonce
<1>1. CASE q = <<>>
      BY <1>1 DEF Pump, Plain
<1>2. CASE q # <<>>
      <2>1. Head(q) \in Commands
            BY <1>2
      <2> QED BY <1>2, <2>1, WrittenItems DEF Pump, Plain
<1> QED BY <1>1, <1>2

\* A mark taken may become a flag.
LEMMA PaidFor ==
    ASSUME NEW m \in Nat, NEW f \in Nat, NEW s \in Nat, NEW m1 \in Nat, NEW f1 \in Nat, NEW w \in Nat,
           f1 <= f + w, m1 + w <= m
    PROVE  m1 + f1 + s <= m + f + s
OBVIOUS

\* Taking one received item without probing
LEMMA CreditTaken ==
    ASSUME TypeOK, TypeOK', Credit, nonce' = nonce, Plain, rx # <<>>, rx' = Tail(rx),
           UNCHANGED <<power, pulse, faults>>,
           resetDue' = resetDue \/ IsMark(Head(rx))
    PROVE  Credit'
<1>1. /\ Marks \in Nat /\ Flags \in Nat /\ Spent(faults) \in Nat /\ Marks' \in Nat /\ Flags' \in Nat
      BY Numbers, NumbersNext
<1>2. Flags' <= Flags + Worth(IsMark(Head(rx)), 1)
      BY DEF Flags, Worth, TypeOK
<1>3. Marks' + Worth(IsMark(Head(rx)), 1) <= Marks /\ \A n : Echoes(rx', n) => Echoes(rx, n)
      BY TakenMarks
<1>4. Worth(IsMark(Head(rx)), 1) \in Nat
      BY DEF Worth
<1>5. Cheap
      <2>1. Spent(faults') = Spent(faults)
            OBVIOUS
      <2> QED BY <1>1, <1>2, <1>3, <1>4, <2>1, PaidFor DEF Cheap
<1>6. \A n \in Nonces : Carried(n)' => Carried(n)
      BY <1>3, CarriedLess DEF Carried, Plain
<1> QED BY <1>5, <1>6, CreditKept

LEMMA UnsyncProbes ==
    ASSUME Unsync
    PROVE  \E first \in {<<>>, <<Esc>>} : StartProbe(first)
BY DEF Unsync

LEMMA CallsCredit ==
    ASSUME TypeOK, TypeOK', Credit, Calls
    PROVE  Credit'
<1>0. /\ Marks \in Nat /\ Flags \in Nat /\ Spent(faults) \in Nat /\ faults \in [Fault -> Nat]
      BY Numbers
<1>1. ASSUME NEW c \in Commands, Submit(c) PROVE Credit'
      <2>1. UNCHANGED <<resetDue, rx, power, pulse, faults>>
            BY <1>1 DEF Submit, modemVars
      <2>2. Plain /\ nonce' = nonce
            <3>1. CASE state = "Ready" /\ inFlight = NoCommand
                  <4>1. Append(queue, c) \in Seq(Commands) /\ Pump(Append(queue, c))
                        BY <1>1, <3>1 DEF Submit, TypeOK, EngineType
                  <4> QED BY <4>1, PumpPlain
            <3>2. CASE ~(state = "Ready" /\ inFlight = NoCommand)
                  BY <1>1, <3>2 DEF Submit, Plain
            <3> QED BY <3>1, <3>2
      <2>3. Marks' = Marks /\ Flags' = Flags
            BY <2>1 DEF Marks, Flags
      <2>4. Cheap
            BY <1>0, <2>1, <2>3 DEF Cheap
      <2>5. \A n \in Nonces : Carried(n)' => Carried(n)
            BY <2>1, <2>2, CarriedLess DEF Carried, Plain
      <2> QED BY <2>2, <2>4, <2>5, CreditKept
<1>2. CASE CommandTimeout \/ ProbeTimeout
      <2>1. PICK first \in {<<>>, <<Esc>>} : StartProbe(first)
            BY <1>2, UnsyncProbes DEF CommandTimeout, ProbeTimeout
      <2>2. /\ IF Silent THEN UNCHANGED faults ELSE Suffer("late")
            /\ UNCHANGED <<resetDue, rx, power, pulse>> /\ nonce' = NextNonce
            BY <1>2, <2>1 DEF CommandTimeout, ProbeTimeout, Deadline, StartProbe, modemVars
      <2>3. Marks' = Marks /\ Flags' = Flags
            BY <2>2 DEF Marks, Flags
      <2>4. \A n \in Nonces : Carried(n)' => Carried(n) \/ n = NextNonce
            BY <2>1, <2>2, ProbeCarried
      <2>5. CASE Silent
            <3>1. Cheap
                  BY <1>0, <2>2, <2>3, <2>5 DEF Cheap
            <3>2. \A n \in Nonces : ~Carried(n)
                  BY <2>5 DEF Silent, Carried, Asks, Echoes
            <3> QED BY <2>2, <2>4, <3>1, <3>2, CreditAlone
      <2>6. CASE ~Silent
            <3>1. Spent(faults') = Spent(faults) + 1
                  BY <1>0, <2>2, <2>6, Suffered DEF Fault
            <3>2. 1 + Marks' + Flags' + Spent(faults) <= Marks + Flags + Spent(faults')
                  BY <1>0, <2>3, <3>1
            <3> QED BY <2>2, <2>4, <3>2, CreditProbe
      <2> QED BY <2>5, <2>6
<1>3. CASE Reset \/ PowerOn
      <2>1. PICK first \in {<<>>, <<Esc>>} : StartProbe(first)
            BY <1>3, UnsyncProbes DEF Reset, PowerOn
      <2>2. UNCHANGED <<rx, faults>> /\ nonce' = NextNonce
            BY <1>3, <2>1 DEF Reset, PowerOn, StartProbe
      <2>3. Marks' = Marks
            BY <2>2 DEF Marks
      <2>4. Flags = Flags' + 1
            BY <1>3 DEF Reset, PowerOn, modemVars, Flags, Worth
      <2>5. \A n \in Nonces : Carried(n)' => Carried(n) \/ n = NextNonce
            BY <2>1, <2>2, ProbeCarried
      <2>6. Flags' \in Nat
            BY NumbersNext
      <2>7. 1 + Marks' + Flags' + Spent(faults) <= Marks + Flags + Spent(faults')
            BY <1>0, <2>2, <2>3, <2>4, <2>6
      <2> QED BY <2>2, <2>5, <2>7, CreditProbe
<1>4. CASE PowerOff
      <2>1. /\ UNCHANGED <<nonce, resetDue, tx, rx, power>> /\ ~pulse /\ pulse' /\ Suffer("power")
            BY <1>4 DEF PowerOff, SwitchOff
      <2>2. Marks' = Marks
            BY <2>1 DEF Marks
      <2>3. Flags' = Flags + 2
            BY <2>1 DEF Flags, Worth
      <2>4. Spent(faults') = Spent(faults) + 2
            BY <1>0, <2>1, Suffered DEF Fault
      <2>5. Cheap
            BY <1>0, <2>2, <2>3, <2>4 DEF Cheap
      <2>6. \A n \in Nonces : Carried(n)' => Carried(n)
            BY <2>1 DEF Carried
      <2> QED BY <2>1, <2>5, <2>6, CreditKept
<1> QED BY <1>1, <1>2, <1>3, <1>4 DEF Calls

LEMMA MarkPays ==
    ASSUME NEW m \in Nat, NEW f \in Nat, NEW s \in Nat, NEW m1 \in Nat, m1 + 1 <= m
    PROVE  1 + m1 + f + s <= m + f + s
OBVIOUS

LEMMA ReceiveCredit ==
    ASSUME TypeOK, TypeOK', Sync, Credit, Receive
    PROVE  Credit'
<1>1. /\ rx # <<>> /\ rx' = Tail(rx) /\ UNCHANGED <<power, pulse, faults>>
      BY DEF Receive, OnReadBack, OnFinal, OnInfo, OnPrompt, OnAtReady, OnLost, Take, modemVars
<1>2. CASE OnReadBack \/ OnInfo \/ OnAtReady
      <2>1. Plain /\ nonce' = nonce
            BY <1>2 DEF OnReadBack, OnInfo, OnAtReady, Plain, engineVars
      <2>2. resetDue' = resetDue \/ IsMark(Head(rx))
            BY <1>2 DEF OnReadBack, OnInfo, OnAtReady, Take, IsMark
      <2> QED BY <1>1, <2>1, <2>2, CreditTaken
<1>3. CASE OnPrompt
      <2>1. inFlight \in Payloads => Payload(inFlight) \in Written /\ Payload(inFlight).t # "Probe"
            BY WrittenItems, PayloadsAssumption
      <2>2. Plain /\ nonce' = nonce /\ resetDue' = resetDue
            BY <1>3, <2>1, WrittenItems DEF OnPrompt, Plain
      <2> QED BY <1>1, <2>2, CreditTaken
<1>4. CASE OnFinal
      <2>1. Head(rx).t = "Final" /\ resetDue' = resetDue
            BY <1>4 DEF OnFinal, Take
      <2>2. ~(state = "Ready" /\ inFlight = NoCommand)
            BY <1>4, FinalOwn
      <2>3. ~(state = "Syncing" /\ readBack /\ ~Head(rx).ok)
            BY <1>1, <2>1, SyncingHead
      <2>4. Plain /\ nonce' = nonce
            <3>1. UNCHANGED <<engineVars, tx>> \/ Pump(queue)
                  BY <1>4, <2>2, <2>3 DEF OnFinal
            <3>2. queue \in Seq(Commands)
                  BY DEF TypeOK, EngineType
            <3> QED BY <3>1, <3>2, PumpPlain DEF Plain, engineVars
      <2> QED BY <1>1, <2>1, <2>4, CreditTaken
<1>5. CASE OnLost
      <2>1. Head(rx).t = "Lost" /\ resetDue' = resetDue
            BY <1>5 DEF OnLost, Take
      <2>2. UNCHANGED <<engineVars, tx>> \/ Unsync \/ StartProbe(<<>>)
            BY <1>5 DEF OnLost
      <2>3. CASE UNCHANGED <<engineVars, tx>>
            <3>1. Plain /\ nonce' = nonce
                  BY <2>3 DEF Plain, engineVars
            <3> QED BY <1>1, <2>1, <3>1, CreditTaken
      <2>4. CASE Unsync \/ StartProbe(<<>>)
            <3>1. Marks' + 1 <= Marks
                  BY <1>1, <2>1, TakenMarks DEF IsMark, Worth
            <3>2. Flags' = Flags
                  BY <1>1, <2>1 DEF Flags
            <3>3. /\ Marks \in Nat /\ Flags \in Nat /\ Spent(faults) \in Nat
                  /\ Marks' \in Nat /\ Flags' \in Nat /\ Spent(faults') \in Nat
                  BY Numbers, NumbersNext
            <3>4. 1 + Marks' + Flags' + Spent(faults) <= Marks + Flags + Spent(faults')
                  <4>1. Spent(faults') = Spent(faults)
                        BY <1>1
                  <4> QED BY <3>1, <3>2, <3>3, <4>1, MarkPays
            <3>5. PICK first \in {<<>>, <<Esc>>} : StartProbe(first)
                  BY <2>4, UnsyncProbes
            <3>6. nonce' = NextNonce
                  BY <3>5 DEF StartProbe
            <3>7. \A n \in Nonces : Carried(n)' => Carried(n) \/ n = NextNonce
                  BY <1>1, <3>5, ProbeCarried
            <3> QED BY <3>4, <3>6, <3>7, CreditProbe
      <2> QED BY <2>2, <2>3, <2>4
<1> QED BY <1>2, <1>3, <1>4, <1>5 DEF Receive

\* What the modem answers to one item it takes
LEMMA CreditAnswered ==
    ASSUME TypeOK, TypeOK', Credit, nonce' = nonce, UNCHANGED <<resetDue, power, pulse>>,
           tx # <<>>, tx' = Tail(tx),
           \/ UNCHANGED <<rx, faults>>
           \/ \E a \in Received : Emit(<<a>>) /\ ~IsMark(a) /\ a.t # "ReadBack"
           \/ \E a, b \in Received :
                 /\ Emit(<<a, b>>) /\ ~IsMark(a) /\ ~IsMark(b) /\ b.t # "ReadBack"
                 /\ a.t = "ReadBack" => Asks(tx, a.n)
    PROVE  Credit'
<1>1. /\ Marks \in Nat /\ Flags \in Nat /\ Spent(faults) \in Nat
      /\ Marks' \in Nat /\ Spent(faults') \in Nat /\ Flags' = Flags
      BY Numbers, NumbersNext DEF Flags
<1>2. /\ Marks' + Spent(faults) <= Marks + Spent(faults')
      /\ \A n : Echoes(rx', n) => Carried(n)
      <2>1. CASE UNCHANGED <<rx, faults>>
            <3>1. Marks' = Marks
                  BY <2>1 DEF Marks
            <3> QED BY <1>1, <2>1, <3>1 DEF Carried
      <2>2. ASSUME NEW a \in Received, Emit(<<a>>), ~IsMark(a), a.t # "ReadBack"
            PROVE  /\ Marks' + Spent(faults) <= Marks + Spent(faults')
                   /\ \A n : Echoes(rx', n) => Carried(n)
            <3>1. /\ Marks' + Spent(faults) <= Marks + Worth(IsMark(a), 1) + Spent(faults')
                  /\ \A n : Echoes(rx', n) => Echoes(rx, n)
                  BY <2>2, OnePaid
            <3>2. Worth(IsMark(a), 1) = 0
                  BY <2>2 DEF Worth
            <3>3. Marks' + Spent(faults) <= Marks + Spent(faults')
                  BY <1>1, <3>1, <3>2
            <3> QED BY <3>1, <3>3 DEF Carried
      <2>3. ASSUME NEW a \in Received, NEW b \in Received, Emit(<<a, b>>),
                   ~IsMark(a), ~IsMark(b), b.t # "ReadBack", a.t = "ReadBack" => Asks(tx, a.n)
            PROVE  /\ Marks' + Spent(faults) <= Marks + Spent(faults')
                   /\ \A n : Echoes(rx', n) => Carried(n)
            BY <2>3, TwoPaid DEF Carried
      <2> QED BY <2>1, <2>2, <2>3
<1>3. Cheap
      BY <1>1, <1>2 DEF Cheap
<1>4. \A n \in Nonces : Carried(n)' => Carried(n)
      BY <1>2, CarriedLess
<1> QED BY <1>3, <1>4, CreditKept

LEMMA Unmarked ==
    /\ \A c \in Sources, ok \in BOOLEAN :
          LET f == Final(c, ok) IN f \in Received /\ ~IsMark(f) /\ f.t # "ReadBack"
    /\ \A c \in Sources :
          /\ Info(c) \in Received /\ ~IsMark(Info(c)) /\ Info(c).t # "ReadBack"
          /\ Prompt(c) \in Received /\ ~IsMark(Prompt(c)) /\ Prompt(c).t # "ReadBack"
    /\ \A n \in Nonces : LET r == ReadBack(n) IN
          r \in Received /\ ~IsMark(r) /\ r.t = "ReadBack" /\ r.n = n
BY DEF Final, Info, Prompt, ReadBack, Received, IsMark

LEMMA ModemCredit ==
    ASSUME TypeOK, TypeOK', Credit, Modem
    PROVE  Credit'
<1>1. /\ tx # <<>> /\ tx' = Tail(tx) /\ nonce' = nonce /\ UNCHANGED <<resetDue, power, pulse>>
      /\ tx \in Seq(Written) /\ Head(tx) \in Written /\ 1 \in DOMAIN tx /\ Head(tx) = tx[1]
      BY DEF Modem, Execute, AnswerProbe, TakePayload, TakeEsc, Consume, engineVars, TypeOK
<1>2. /\ input \in Sources /\ NoCommand \in Sources
      /\ Head(tx).t \in {"Cmd", "Payload"} => Head(tx).of \in Sources
      BY <1>1, WrittenFields, PayloadsAssumption DEF TypeOK, ModemType, Sources
<1>3. CASE Execute
      <2> DEFINE c == Head(tx).of
      <2>1. c \in Sources
            BY <1>2, <1>3 DEF Execute, Consume
      <2>2. \/ UNCHANGED <<rx, faults>>
            \/ Emit(<<Final(c, FALSE)>>)
            \/ Emit(<<Info(c), Final(c, TRUE)>>)
            \/ Emit(<<Prompt(c)>>)
            BY <1>3 DEF Execute, Typed
      <2> HIDE DEF c
      <2>3. \/ UNCHANGED <<rx, faults>>
            \/ \E a \in Received : Emit(<<a>>) /\ ~IsMark(a) /\ a.t # "ReadBack"
            \/ \E a, b \in Received :
                  /\ Emit(<<a, b>>) /\ ~IsMark(a) /\ ~IsMark(b) /\ b.t # "ReadBack"
                  /\ a.t = "ReadBack" => Asks(tx, a.n)
            BY <2>1, <2>2, Unmarked
      <2> QED BY <1>1, <2>3, CreditAnswered
<1>4. CASE AnswerProbe
      <2> DEFINE n == Head(tx).n
      <2>1. n \in Nonces /\ Asks(tx, n)
            BY <1>1, <1>4, WrittenFields DEF AnswerProbe, Consume, Asks
      <2>2. \/ UNCHANGED <<rx, faults>>
            \/ Emit(<<Final(NoCommand, FALSE)>>)
            \/ Emit(<<ReadBack(n), Final(NoCommand, TRUE)>>)
            BY <1>4 DEF AnswerProbe, Typed
      <2> HIDE DEF n
      <2>3. \/ UNCHANGED <<rx, faults>>
            \/ \E a \in Received : Emit(<<a>>) /\ ~IsMark(a) /\ a.t # "ReadBack"
            \/ \E a, b \in Received :
                  /\ Emit(<<a, b>>) /\ ~IsMark(a) /\ ~IsMark(b) /\ b.t # "ReadBack"
                  /\ a.t = "ReadBack" => Asks(tx, a.n)
            BY <1>2, <2>1, <2>2, Unmarked, ZenonT(60)
      <2> QED BY <1>1, <2>3, CreditAnswered
<1>5. CASE TakePayload \/ TakeEsc
      <2>1. \/ UNCHANGED <<rx, faults>>
            \/ Emit(<<Info(input), Final(input, TRUE)>>)
            \/ Emit(<<Final(NoCommand, TRUE)>>)
            BY <1>5 DEF TakePayload, TakeEsc
      <2>2. \/ UNCHANGED <<rx, faults>>
            \/ \E a \in Received : Emit(<<a>>) /\ ~IsMark(a) /\ a.t # "ReadBack"
            \/ \E a, b \in Received :
                  /\ Emit(<<a, b>>) /\ ~IsMark(a) /\ ~IsMark(b) /\ b.t # "ReadBack"
                  /\ a.t = "ReadBack" => Asks(tx, a.n)
            BY <1>2, <2>1, Unmarked
      <2> QED BY <1>1, <2>2, CreditAnswered
<1> QED BY <1>3, <1>4, <1>5 DEF Modem

LEMMA ExternalCredit ==
    ASSUME TypeOK, TypeOK', Credit, External
    PROVE  Credit'
<1>0. /\ Marks \in Nat /\ Flags \in Nat /\ Spent(faults) \in Nat /\ faults \in [Fault -> Nat]
      /\ Marks' \in Nat /\ Flags' \in Nat /\ Spent(faults') \in Nat
      BY Numbers, NumbersNext
<1>1. nonce' = nonce /\ UNCHANGED resetDue
      BY DEF External, Modem, Execute, AnswerProbe, TakePayload, TakeEsc, Consume, Ignore,
             WriteFails, Booted, Restart, ShutDown, engineVars
<1>2. CASE Ignore \/ WriteFails
      <2>1. /\ tx # <<>> /\ tx' = Tail(tx) /\ UNCHANGED <<rx, power, pulse>>
            /\ faults' = faults \/ Suffer("write")
            BY <1>2 DEF Ignore, WriteFails, modemVars
      <2>2. Spent(faults') = Spent(faults)
            BY <1>0, <2>1, Suffered, SMTT(60) DEF Fault
      <2>3. Marks' = Marks /\ Flags' = Flags
            BY <1>1, <2>1 DEF Marks, Flags
      <2>4. Cheap
            BY <1>0, <2>2, <2>3 DEF Cheap
      <2>5. \A n \in Nonces : Carried(n)' => Carried(n)
            BY <2>1, CarriedLess DEF Carried
      <2> QED BY <1>1, <2>4, <2>5, CreditKept
<1>3. CASE Booted
      <2>1. /\ tx' = tx /\ pulse' = pulse /\ power = "Boot" /\ power' = "On" /\ Emit(<<AtReady>>)
            BY <1>3 DEF Booted
      <2>2. AtReady \in Received /\ IsMark(AtReady) /\ AtReady.t # "ReadBack"
            BY ItemFields DEF IsMark
      <2>3. /\ Marks' + Spent(faults) <= Marks + 1 + Spent(faults')
            /\ \A n : Echoes(rx', n) => Echoes(rx, n)
            BY <2>1, <2>2, OnePaid DEF Worth
      <2>4. Flags = Flags' + 1
            BY <1>1, <2>1 DEF Flags, Worth
      <2>5. Cheap
            BY <1>0, <2>3, <2>4 DEF Cheap
      <2>6. \A n \in Nonces : Carried(n)' => Carried(n)
            BY <2>1, <2>3, CarriedLess DEF Carried
      <2> QED BY <1>1, <2>5, <2>6, CreditKept
<1>4. CASE Restart
      <2>1. /\ tx' = <<>> /\ rx' = rx /\ pulse' = pulse /\ power = "On" /\ power' = "Boot"
            /\ Suffer("restart")
            BY <1>4 DEF Restart, Forget
      <2>2. Spent(faults') = Spent(faults) + 1
            BY <1>0, <2>1, Suffered DEF Fault
      <2>3. Marks' = Marks /\ Flags' = Flags + 1
            BY <1>1, <2>1 DEF Marks, Flags, Worth
      <2>4. Cheap
            BY <1>0, <2>2, <2>3 DEF Cheap
      <2>5. \A n \in Nonces : Carried(n)' => Carried(n)
            BY <2>1, CarriedLess DEF Carried
      <2> QED BY <1>1, <2>4, <2>5, CreditKept
<1>5. CASE ShutDown
      <2>1. /\ tx' = <<>> /\ rx' = rx /\ pulse /\ pulse' = FALSE /\ power' = "Off" /\ faults' = faults
            /\ power \in {"Off", "Boot", "On"}
            BY <1>5 DEF ShutDown, Forget, TypeOK, ModemType
      <2>2. Marks' = Marks /\ Flags' <= Flags
            BY <1>1, <2>1 DEF Marks, Flags, Worth
      <2>3. Spent(faults') = Spent(faults)
            BY <2>1
      <2>4. Cheap
            BY <1>0, <2>2, <2>3 DEF Cheap
      <2>5. \A n \in Nonces : Carried(n)' => Carried(n)
            BY <2>1, CarriedLess DEF Carried
      <2> QED BY <1>1, <2>4, <2>5, CreditKept
<1> QED BY <1>2, <1>3, <1>4, <1>5, ModemCredit DEF External

-----------------------------------------------------------------------------

\* Every step of Next keeps Credit.
LEMMA CreditStep ==
    ASSUME TypeOK, TypeOK', Sync, Credit, [Next]_vars
    PROVE  Credit'
<1>1. CASE UNCHANGED vars
      BY <1>1 DEF vars, engineVars, modemVars, Credit, Young, Age, Marks, Flags, Carried, Spent
<1> QED BY <1>1, CallsCredit, ReceiveCredit, ExternalCredit DEF Next

\* The first power-up is paid in advance.
LEMMA CreditInit ==
    ASSUME Init, FewFaults
    PROVE  Credit
<1>1. /\ DOMAIN tx = {} /\ DOMAIN rx = {}
      BY DEF Init
<1>2. \A n \in Nonces : ~Carried(n)
      BY <1>1 DEF Carried, Asks, Echoes
<1>3. Marked(rx) = {}
      BY <1>1 DEF Marked
<1>4. Marks = 0
      BY <1>3, FS_EmptySet DEF Marks
<1>5. Flags = 2
      BY DEF Init, Flags, Worth
<1>6. Spent(faults) = 2
      BY DEF Init, NoFaults, Spent, Fault
<1> QED BY <1>2, <1>4, <1>5, <1>6 DEF Credit

\* "recycled 1-99" (link.rs:50-53): in a run with fewer faults than there are
\* probe numbers (FewFaults), no number is given out while it is still on a wire. The
\* hypothesis of the other theorems then holds: see ShortRunsKeepIt.
THEOREM NoncesStayFresh ==
    ASSUME FewFaults
    PROVE  Spec => []NoncesFresh
<1>1. Init => Sync /\ Credit
      <2>1. Init => Sync
            BY DEF Init, Sync, TxShape, Syncs, Rests, Works
      <2> QED BY <2>1, CreditInit
<1>2. TypeOK /\ OneReply /\ Credit => NoncesFresh
      BY CreditFresh
<1>3. TypeOK /\ TypeOK' /\ OneReply /\ Sync /\ Credit /\ [Next]_vars => Sync' /\ Credit'
      BY SyncStep, CreditStep, CreditFresh DEF OneReply
<1>4. Spec => []TypeOK
      BY TypeCorrect
<1>5. Spec => []OneReply
      BY OneReplyAlways
<1> QED BY <1>1, <1>2, <1>3, <1>4, <1>5, PTL DEF Spec

-----------------------------------------------------------------------------
(* What is known of each command                                           *)

\* What the modem has done is what its answer on the wire says.
Told == state = "Ready" /\ inFlight # NoCommand => \A k \in DOMAIN rx :
    /\ rx[k].t = "Final" => executed[inFlight] = IF rx[k].ok THEN "Ok" ELSE "Failed"
    /\ rx[k].t = "Prompt" => executed[inFlight] = "No"

\* The modem may still do c: it is on its way, or awaits its text.
OnWire(c) == input = c \/ \E i \in DOMAIN tx : tx[i].t \in {"Cmd", "Payload"} /\ tx[i].of = c

\* The modem never saw c, and does not see it coming.
Untouched(c) == executed[c] = "No" /\ ~OnWire(c)

\* The commands asked so far that were answered or are in flight: the first Front
\* of Asked; those behind have never been written, nor those never asked for.
Front == Len(replies) + Len(Pending)
Later == \A i \in DOMAIN Asked : i > Front => Untouched(Asked[i])
Unasked == \A c \in Commands : New(c) => Untouched(c)

\* A command the modem may still do is not done, was at most given up as Unknown,
\* and all asked behind it are not done either.
Alive == \A i \in DOMAIN Asked : OnWire(Asked[i]) =>
    /\ executed[Asked[i]] = "No"
    /\ i \in DOMAIN replies => replies[i].outcome = "Unknown"
    /\ \A j \in DOMAIN Asked : j > i => executed[Asked[j]] = "No"

\* Replies told the truth, and it cannot become false.
Honest == \A i \in DOMAIN replies : LET r == replies[i] IN
    /\ r.outcome \in {"Ok", "Failed"} => executed[r.id] = r.outcome
    /\ r.outcome = "NotSent" => Untouched(r.id)

-----------------------------------------------------------------------------
(* Places *)

\* Where the commands asked for are
AskedPlaces ==
    /\ Len(replies) \in Nat /\ Len(queue) \in Nat /\ Front \in Nat
    /\ Front = Len(replies) + (IF inFlight = NoCommand THEN 0 ELSE 1)
    /\ DOMAIN replies = 1 .. Len(replies) /\ DOMAIN queue = 1 .. Len(queue)
    /\ DOMAIN Asked = 1 .. Front + Len(queue)
    /\ \A i \in DOMAIN Asked : Asked[i] \in Commands
    /\ \A i \in 1 .. Len(replies) : Asked[i] = replies[i].id
    /\ inFlight # NoCommand => Asked[Len(replies) + 1] = inFlight
    /\ \A j \in 1 .. Len(queue) : Asked[Front + j] = queue[j]

LEMMA Places == TypeOK => AskedPlaces
<1> SUFFICES ASSUME TypeOK PROVE AskedPlaces
    OBVIOUS
<1>1. replies \in Seq(Replies) /\ queue \in Seq(Commands)
      BY DEF TypeOK, EngineType
<1> DEFINE r == Ids(replies)
           p == Pending
           pq == p \o queue
           a == r \o pq
<1>2. /\ r \in Seq(Commands) /\ Len(r) = Len(replies)
      /\ \A i \in 1 .. Len(replies) : r[i] = replies[i].id
      BY <1>1, IdsType
<1>3. /\ p \in Seq(Commands) /\ Len(p) = (IF inFlight = NoCommand THEN 0 ELSE 1)
      /\ inFlight # NoCommand => p[1] = inFlight
      BY PendingType DEF Pending
<1>4. a = r \o pq /\ pq = p \o queue /\ a = Asked /\ Front = Len(replies) + Len(p)
      BY DEF Asked, Front
<1> HIDE DEF r, p, pq, a
<1>5. /\ Len(replies) \in Nat /\ Len(queue) \in Nat /\ Len(p) \in Nat
      /\ DOMAIN replies = 1 .. Len(replies) /\ DOMAIN queue = 1 .. Len(queue)
      BY <1>1, <1>3
<1>6. /\ pq \in Seq(Commands) /\ Len(pq) = Len(p) + Len(queue)
      /\ \A j \in 1 .. Len(p) : pq[j] = p[j]
      /\ \A j \in 1 .. Len(queue) : pq[Len(p) + j] = queue[j]
      <2>1. p \in Seq(Commands) /\ queue \in Seq(Commands) /\ pq = p \o queue
            BY <1>1, <1>3, <1>4
      <2> QED BY <2>1, Joined
<1>7. /\ a \in Seq(Commands) /\ DOMAIN a = 1 .. Len(r) + Len(pq)
      /\ \A i \in 1 .. Len(r) : a[i] = r[i]
      /\ \A i \in 1 .. Len(pq) : a[Len(r) + i] = pq[i]
      <2>1. r \in Seq(Commands) /\ pq \in Seq(Commands) /\ a = r \o pq
            BY <1>2, <1>4, <1>6
      <2> QED BY <2>1, Joined
<1>8. \A i \in DOMAIN a : a[i] \in Commands
      BY <1>7
<1>9. DOMAIN a = 1 .. Front + Len(queue) /\ Front \in Nat
      BY <1>2, <1>4, <1>5, <1>6, <1>7
<1>10. \A i \in 1 .. Len(replies) : a[i] = replies[i].id
      BY <1>2, <1>7
<1>11. inFlight # NoCommand => a[Len(replies) + 1] = inFlight
      BY <1>2, <1>3, <1>5, <1>6, <1>7
<1>12. ASSUME NEW j \in 1 .. Len(queue) PROVE a[Front + j] = queue[j]
      <2>1. Len(p) + j \in 1 .. Len(pq) /\ Len(r) + (Len(p) + j) = Front + j
            BY <1>2, <1>4, <1>5, <1>6
      <2> QED BY <1>6, <1>7, <2>1
<1>13. Front = Len(replies) + (IF inFlight = NoCommand THEN 0 ELSE 1)
      BY <1>3, <1>4
<1> QED BY <1>4, <1>5, <1>8, <1>9, <1>10, <1>11, <1>12, <1>13 DEF AskedPlaces

LEMMA PlacesNext ==
    ASSUME TypeOK'
    PROVE  AskedPlaces'
BY Places, PTL

-----------------------------------------------------------------------------
(* The replies of a step *)

\* A reply given now says nothing, tells of a command that was never sent, or is
\* the answer to the command in flight.
Given(i) == LET r == replies'[i] IN
    \/ r.outcome = "Unknown"
    \/ r.outcome = "NotSent" /\ i > Front
    \/ /\ r.outcome \in {"Ok", "Failed"} /\ i = Len(replies) + 1
       /\ r.id = inFlight /\ r.source = inFlight /\ r.outcome = executed[inFlight]
       /\ r.outcome = "Ok" => r.info = {inFlight}
       /\ OnlyEsc /\ input = NoCommand /\ executed' = executed

\* A step only adds such replies.
Answering ==
    /\ \A i \in DOMAIN replies : i \in DOMAIN replies' /\ replies'[i] = replies[i]
    /\ Front <= Front'
    /\ \A i \in DOMAIN replies' : i > Len(replies) => Given(i)

LEMMA FrontNow ==
    ASSUME TypeOK
    PROVE  /\ Len(replies) \in Nat /\ DOMAIN replies = 1 .. Len(replies)
           /\ Front \in Nat /\ Len(Pending) \in Nat
           /\ Front = Len(replies) + (IF inFlight = NoCommand THEN 0 ELSE 1)
BY Places, PendingType DEF AskedPlaces

LEMMA FrontNext ==
    ASSUME TypeOK'
    PROVE  /\ Len(replies') \in Nat /\ DOMAIN replies' = 1 .. Len(replies')
           /\ Front' \in Nat
           /\ Front' = Len(replies') + (IF inFlight' = NoCommand THEN 0 ELSE 1)
BY PlacesNext DEF AskedPlaces

LEMMA NoneGiven ==
    ASSUME TypeOK, TypeOK', replies' = replies, inFlight' = inFlight \/ inFlight = NoCommand
    PROVE  Answering
<1>1. Front <= Front'
      BY FrontNow, FrontNext
<1> QED BY <1>1, FrontNow DEF Answering

LEMMA OneGiven ==
    ASSUME TypeOK, TypeOK', NEW r \in Replies, replies' = Append(replies, r),
           Given(Len(replies) + 1)
    PROVE  Answering
<1>1. replies \in Seq(Replies)
      BY DEF TypeOK, EngineType
<1>2. /\ Len(replies') = Len(replies) + 1 /\ DOMAIN replies' = 1 .. Len(replies) + 1
      /\ \A i \in 1 .. Len(replies) : replies'[i] = replies[i]
      BY <1>1, Appended
<1>3. Front <= Front'
      BY <1>2, FrontNow, FrontNext
<1>4. \A i \in DOMAIN replies' : i > Len(replies) => i = Len(replies) + 1
      BY <1>2, FrontNow
<1> QED BY <1>2, <1>3, <1>4, FrontNow DEF Answering

LEMMA UnsyncGives ==
    ASSUME TypeOK, TypeOK', Unsync
    PROVE  Answering
<1>1. CASE inFlight = NoCommand
      BY <1>1, NoneGiven DEF Unsync
<1>2. CASE inFlight # NoCommand
      <2> DEFINE r == Reply(inFlight, "Unknown", NoCommand, info)
      <2>1. r \in Replies /\ r.outcome = "Unknown"
            BY <1>2 DEF TypeOK, EngineType, Reply, Replies, Outcomes, Sources
      <2>2. replies' = Append(replies, r)
            BY <1>2 DEF Unsync, Settle
      <2> HIDE DEF r
      <2>3. replies \in Seq(Replies)
            BY DEF TypeOK, EngineType
      <2>4. replies'[Len(replies) + 1] = r
            BY <2>1, <2>2, <2>3, Appended
      <2> QED BY <2>1, <2>2, <2>4, OneGiven DEF Given
<1> QED BY <1>1, <1>2

LEMMA SubmitGives ==
    ASSUME TypeOK, TypeOK', Placed, NEW c \in Commands, Submit(c)
    PROVE  Answering
<1>1. CASE state = "Off"
      <2> DEFINE r == NotSent(c)
      <2>1. r \in Replies /\ r.outcome = "NotSent"
            BY DEF NotSent, Reply, Replies, Outcomes, Sources
      <2>2. replies' = Append(replies, r)
            BY <1>1 DEF Submit
      <2> HIDE DEF r
      <2>3. replies \in Seq(Replies)
            BY DEF TypeOK, EngineType
      <2>4. replies'[Len(replies) + 1] = r
            BY <2>1, <2>2, <2>3, Appended
      <2>5. Len(replies) + 1 > Front
            BY <1>1, FrontNow DEF Placed
      <2> QED BY <2>1, <2>2, <2>4, <2>5, OneGiven DEF Given
<1>2. CASE state # "Off"
      <2>1. replies' = replies /\ (inFlight' = inFlight \/ inFlight = NoCommand)
            BY <1>2 DEF Submit
      <2> QED BY <2>1, NoneGiven
<1> QED BY <1>1, <1>2

LEMMA PowerOffGives ==
    ASSUME TypeOK, TypeOK', PowerOff
    PROVE  Answering
<1> DEFINE last == IF inFlight = NoCommand THEN <<>>
                   ELSE <<Reply(inFlight, "Unknown", NoCommand, info)>>
           rest == [i \in DOMAIN queue |-> NotSent(queue[i])]
           head == replies \o last
<1>1. replies \in Seq(Replies) /\ queue \in Seq(Commands)
      BY DEF TypeOK, EngineType
<1>2. /\ last \in Seq(Replies) /\ Len(last) = (IF inFlight = NoCommand THEN 0 ELSE 1)
      /\ \A i \in 1 .. Len(last) : last[i].outcome = "Unknown"
      <2>1. CASE inFlight = NoCommand
            BY <2>1
      <2>2. CASE inFlight # NoCommand
            <3> DEFINE r == Reply(inFlight, "Unknown", NoCommand, info)
            <3>1. r \in Replies /\ r.outcome = "Unknown"
                  BY <2>2 DEF TypeOK, EngineType, Reply, Replies, Outcomes, Sources
            <3>2. last = <<r>>
                  BY <2>2
            <3> HIDE DEF r, last
            <3>3. last \in Seq(Replies) /\ Len(last) = 1 /\ last[1] = r
                  BY <3>1, <3>2, Shorts
            <3> QED BY <2>2, <3>1, <3>3
      <2> QED BY <2>1, <2>2
<1>3. /\ rest \in Seq(Replies)
      /\ \A i \in DOMAIN rest : rest[i].outcome = "NotSent"
      <2>1. \A c \in Commands : NotSent(c) \in Replies /\ NotSent(c).outcome = "NotSent"
            BY DEF NotSent, Reply, Replies, Outcomes, Sources
      <2>2. DOMAIN queue = 1 .. Len(queue) /\ Len(queue) \in Nat
            BY <1>1
      <2>3. \A i \in 1 .. Len(queue) : queue[i] \in Commands
            BY <1>1, ElementOfSeq
      <2> QED BY <2>1, <2>2, <2>3
<1>4. replies' = head \o rest /\ head = replies \o last
      BY DEF PowerOff
<1> HIDE DEF last, rest, head
<1>5. /\ head \in Seq(Replies) /\ Len(head) = Len(replies) + Len(last) /\ Len(head) \in Nat
      /\ \A i \in 1 .. Len(replies) : head[i] = replies[i]
      /\ \A i \in 1 .. Len(head) : i > Len(replies) => head[i].outcome = "Unknown"
      <2>1. last \in Seq(Replies)
            BY <1>2
      <2>2. /\ head \in Seq(Replies) /\ Len(head) = Len(replies) + Len(last)
            /\ Len(replies) \in Nat /\ Len(last) \in Nat
            /\ \A i \in 1 .. Len(replies) : head[i] = replies[i]
            /\ \A i \in 1 .. Len(replies) + Len(last) : i > Len(replies) =>
                  i - Len(replies) \in 1 .. Len(last) /\ head[i] = last[i - Len(replies)]
            BY <1>1, <1>4, <2>1, Joined
      <2> QED BY <1>2, <2>2
<1>6. Len(head) = Front
      BY <1>2, <1>5, FrontNow
<1>7. /\ DOMAIN replies' = 1 .. Front + Len(rest) /\ Len(rest) \in Nat
      /\ \A i \in 1 .. Front : replies'[i] = head[i]
      /\ \A i \in DOMAIN replies' : i > Front =>
            i - Front \in DOMAIN rest /\ replies'[i] = rest[i - Front]
      BY <1>3, <1>4, <1>5, <1>6, Joined
<1>8. Front <= Front'
      BY <1>7, FrontNow, FrontNext DEF PowerOff, SwitchOff, Idle
<1>9. \A i \in DOMAIN replies : i \in DOMAIN replies' /\ replies'[i] = replies[i]
      BY <1>5, <1>6, <1>7, FrontNow
<1>10. ASSUME NEW i \in DOMAIN replies', i > Len(replies) PROVE Given(i)
      <2>1. CASE i > Front
            BY <1>3, <1>7, <2>1 DEF Given
      <2>2. CASE i <= Front
            <3>1. i \in 1 .. Len(head) /\ replies'[i] = head[i]
                  BY <1>6, <1>7, <2>2
            <3> QED BY <1>5, <1>10, <3>1 DEF Given
      <2> QED BY <1>7, <2>1, <2>2, FrontNow
<1> QED BY <1>8, <1>9, <1>10 DEF Answering

LEMMA FinalGives ==
    ASSUME TypeOK, TypeOK', Placed, Sync, Told, OnFinal
    PROVE  Answering
<1>1. CASE state # "Ready"
      <2>1. replies' = replies /\ inFlight = NoCommand
            BY <1>1 DEF OnFinal, engineVars, Placed
      <2> QED BY <2>1, NoneGiven
<1>2. CASE state = "Ready"
      <2>1. /\ inFlight # NoCommand /\ Head(rx).of = inFlight /\ Head(rx).ok \in BOOLEAN
            /\ Head(rx).ok => info = {inFlight}
            /\ rx # <<>> /\ OnlyEsc /\ input = NoCommand
            BY <1>2, FinalOwn
      <2> DEFINE outcome == IF Head(rx).ok THEN "Ok" ELSE "Failed"
                 r == Reply(inFlight, outcome, Head(rx).of, info)
      <2>2. /\ r.id = inFlight /\ r.outcome = outcome /\ r.source = inFlight /\ r.info = info
            /\ r \in Replies
            BY <2>1 DEF TypeOK, EngineType, Reply, Replies, Outcomes, Sources
      <2>3. replies' = Append(replies, r) /\ executed' = executed
            BY <1>2, <2>1 DEF OnFinal, Settle, Take, modemVars
      <2>4. executed[inFlight] = outcome
            <3>1. 1 \in DOMAIN rx /\ Head(rx) = rx[1]
                  BY <2>1, Shifted DEF TypeOK
            <3>2. Head(rx).t = "Final"
                  BY DEF OnFinal, Take
            <3> QED BY <1>2, <2>1, <3>1, <3>2 DEF Told
      <2>5. outcome \in {"Ok", "Failed"} /\ (outcome = "Ok" => info = {inFlight})
            BY <2>1
      <2> HIDE DEF outcome, r
      <2>6. replies'[Len(replies) + 1] = r
            BY <2>2, <2>3, Appended DEF TypeOK, EngineType
      <2>7. Given(Len(replies) + 1)
            BY <2>1, <2>2, <2>3, <2>4, <2>5, <2>6 DEF Given
      <2> QED BY <2>2, <2>3, <2>7, OneGiven
<1> QED BY <1>1, <1>2

\* Every step adds only replies that are Given.
LEMMA StepGives ==
    ASSUME TypeOK, TypeOK', Placed, Sync, Told, [Next]_vars
    PROVE  Answering
<1>1. CASE UNCHANGED vars
      BY <1>1, NoneGiven DEF vars, engineVars
<1>2. CASE Calls
      <2>1. CASE ProbeTimeout
            BY <2>1, NoneGiven DEF ProbeTimeout
      <2>2. CASE CommandTimeout \/ Reset \/ PowerOn
            BY <2>2, UnsyncGives DEF CommandTimeout, Reset, PowerOn
      <2> QED BY <1>2, <2>1, <2>2, SubmitGives, PowerOffGives DEF Calls
<1>3. CASE Receive
      <2>1. CASE OnReadBack \/ OnInfo \/ OnPrompt \/ OnAtReady
            BY <2>1, NoneGiven DEF OnReadBack, OnInfo, OnPrompt, OnAtReady, engineVars
      <2>2. CASE OnLost
            <3>1. CASE Unsync
                  BY <3>1, UnsyncGives
            <3>2. CASE ~Unsync
                  BY <2>2, <3>2, NoneGiven DEF OnLost, engineVars
            <3> QED BY <3>1, <3>2
      <2> QED BY <1>3, <2>1, <2>2, FinalGives DEF Receive
<1>4. CASE External
      <2>1. UNCHANGED engineVars
            BY <1>4 DEF External, Modem, Execute, AnswerProbe, TakePayload, TakeEsc, Consume,
                        Ignore, WriteFails, Booted, Restart, ShutDown
      <2> QED BY <2>1, NoneGiven DEF engineVars
<1> QED BY <1>1, <1>2, <1>3, <1>4 DEF Next

-----------------------------------------------------------------------------
(* What a step puts on the wire to the modem, and what the modem executes *)

\* What a step does to the wire: no command is added to it; or the one now in
\* flight is put there; or the modem executes one, the last there was
NoMore == executed' = executed /\ \A c \in Commands : OnWire(c)' => OnWire(c)
Puts ==
    /\ executed' = executed /\ inFlight' # NoCommand
    /\ \A c \in Commands : OnWire(c)' => c = inFlight'
    /\ Front < Front' \/ (executed[inFlight'] = "No" /\ Front = Front')
Runs(c, r) ==
    /\ OnWire(c) /\ executed' = [executed EXCEPT ![c] = r]
    /\ \A x \in Commands : ~OnWire(x)'
    /\ UNCHANGED <<replies, inFlight, queue>>
Moving == NoMore \/ Puts \/ \E c \in Commands, r \in {"Ok", "Failed"} : Runs(c, r)

LEMMA WireLess ==
    ASSUME executed' = executed, input' \in {input, NoCommand},
           \A i \in DOMAIN tx' : tx'[i].t \in {"Cmd", "Payload"} =>
               \E j \in DOMAIN tx : tx[j] = tx'[i]
    PROVE  NoMore
<1>1. ASSUME NEW c \in Commands, OnWire(c)' PROVE OnWire(c)
      <2>1. c # NoCommand
            BY NoCommandAssumption
      <2>2. CASE input' = c
            BY <2>1, <2>2 DEF OnWire
      <2>3. CASE \E i \in DOMAIN tx' : tx'[i].t \in {"Cmd", "Payload"} /\ tx'[i].of = c
            BY <2>3 DEF OnWire
      <2> QED BY <1>1, <2>2, <2>3 DEF OnWire
<1> QED BY <1>1 DEF NoMore

LEMMA WireTail ==
    ASSUME TypeOK, executed' = executed, input' \in {input, NoCommand},
           tx' = tx \/ (tx # <<>> /\ tx' = Tail(tx)) \/ tx' = <<>>
    PROVE  NoMore
<1>1. tx # <<>> /\ tx' = Tail(tx) => \A i \in DOMAIN tx' : \E j \in DOMAIN tx : tx[j] = tx'[i]
      <2>1. ASSUME tx # <<>>, tx' = Tail(tx), NEW i \in DOMAIN tx'
            PROVE  i + 1 \in DOMAIN tx /\ tx[i + 1] = tx'[i]
            BY <2>1, Shifted DEF TypeOK
      <2> QED BY <2>1
<1> QED BY <1>1, WireLess

LEMMA WireMore ==
    ASSUME TypeOK, executed' = executed, input' = input, NEW more \in Seq(Written),
           \A j \in DOMAIN more : more[j].t \in {"Esc", "Probe"}, tx' = tx \o more
    PROVE  NoMore
<1>1. /\ DOMAIN tx = 1 .. Len(tx) /\ DOMAIN tx' = 1 .. Len(tx) + Len(more)
      /\ Len(tx) \in Nat /\ Len(more) \in Nat /\ DOMAIN more = 1 .. Len(more)
      /\ \A i \in 1 .. Len(tx) : tx'[i] = tx[i]
      /\ \A i \in 1 .. Len(tx) + Len(more) : i > Len(tx) =>
            i - Len(tx) \in 1 .. Len(more) /\ tx'[i] = more[i - Len(tx)]
      BY Joined DEF TypeOK
<1>2. ASSUME NEW i \in DOMAIN tx', tx'[i].t \in {"Cmd", "Payload"}
      PROVE  \E j \in DOMAIN tx : tx[j] = tx'[i]
      <2>1. i <= Len(tx)
            BY <1>1, <1>2
      <2> QED BY <1>1, <2>1
<1> QED BY <1>2, WireLess

LEMMA EscSeq == <<Esc>> \in Seq(Written) /\ DOMAIN <<Esc>> = 1 .. 1 /\ <<Esc>>[1].t = "Esc"
BY DEF Esc, Written

LEMMA WireEsc ==
    ASSUME TypeOK, executed' = executed, input' = input, tx' = Append(tx, Esc)
    PROVE  NoMore
<1> DEFINE more == <<Esc>>
<1>1. more \in Seq(Written) /\ DOMAIN more = 1 .. 1 /\ more[1].t = "Esc"
      BY EscSeq
<1>2. tx' = tx \o more
      BY AppendIsConcat DEF TypeOK, Esc, Written
<1> HIDE DEF more
<1>3. \A j \in DOMAIN more : more[j].t \in {"Esc", "Probe"}
      BY <1>1
<1> QED BY <1>1, <1>2, <1>3, WireMore

LEMMA WireProbe ==
    ASSUME TypeOK, executed' = executed, input' = input,
           NEW first \in {<<>>, <<Esc>>}, StartProbe(first)
    PROVE  NoMore
<1> DEFINE e == Esc
           p == Probe(NextNonce)
<1>0. NextNonce \in Nonces
      BY NoncesAssumption DEF NextNonce, Nonces, TypeOK, EngineType
<1>1. e.t = "Esc" /\ p.t = "Probe" /\ e \in Written /\ p \in Written /\ tx \in Seq(Written)
      BY <1>0 DEF Esc, Probe, Written, TypeOK
<1>2. tx' = tx \o first \o <<p>> /\ (first = <<>> \/ first = <<e>>)
      BY DEF StartProbe
<1> HIDE DEF e, p
<1>3. <<p>> \in Seq(Written) /\ <<e>> \in Seq(Written) /\ <<e, p>> \in Seq(Written)
      BY <1>1, ShortSequences
<1>4. CASE first = <<>>
      <2> DEFINE more == <<p>>
      <2>1. tx' = tx \o more
            BY <1>1, <1>2, <1>4, ConcatEmptySeq
      <2>2. more \in Seq(Written) /\ DOMAIN more = 1 .. 1 /\ more[1] = p
            BY <1>1, Shorts
      <2> HIDE DEF more
      <2>3. \A j \in DOMAIN more : more[j].t \in {"Esc", "Probe"}
            BY <1>1, <2>2
      <2> QED BY <2>1, <2>2, <2>3, WireMore
<1>5. CASE first = <<e>>
      <2> DEFINE more == <<e, p>>
      <2>1. (tx \o <<e>>) \o <<p>> = tx \o (<<e>> \o <<p>>)
            BY <1>1, <1>3, ConcatAssociative
      <2>2. tx' = tx \o more
            BY <1>1, <1>2, <1>5, <2>1, Pair
      <2>3. more \in Seq(Written) /\ DOMAIN more = 1 .. 2 /\ more[1] = e /\ more[2] = p
            BY <1>1, Shorts
      <2> HIDE DEF more
      <2>4. \A j \in DOMAIN more : more[j].t \in {"Esc", "Probe"}
            BY <1>1, <2>3
      <2> QED BY <2>2, <2>3, <2>4, WireMore
<1> QED BY <1>2, <1>4, <1>5

LEMMA WireUnsync ==
    ASSUME TypeOK, executed' = executed, input' = input, Unsync
    PROVE  NoMore
BY WireProbe DEF Unsync

\* Before a command is sent the wire carries none.
LEMMA WirePump ==
    ASSUME TypeOK, OnlyEsc, input' = NoCommand, executed' = executed,
           NEW q \in Seq(Commands), Pump(q)
    PROVE  IF q = <<>> THEN NoMore
           ELSE inFlight' # NoCommand /\ \A c \in Commands : OnWire(c)' => c = inFlight'
<1>1. CASE q = <<>>
      BY <1>1, WireTail DEF Pump
<1>2. CASE q # <<>>
      <2> DEFINE h == Head(q)
                 x == Cmd(h)
      <2>1. /\ h \in Commands /\ x.of = h /\ x \in Written
            /\ inFlight' = h /\ tx' = Append(tx, x)
            BY <1>2, HeadTailType DEF Pump, Cmd, Written
      <2> HIDE DEF x, h
      <2>2. /\ DOMAIN tx = 1 .. Len(tx) /\ DOMAIN tx' = 1 .. Len(tx) + 1 /\ Len(tx) \in Nat
            /\ tx'[Len(tx) + 1] = x /\ \A i \in 1 .. Len(tx) : tx'[i].t = "Esc"
            BY <2>1, Appended DEF OnlyEsc, TypeOK
      <2>3. \A i \in DOMAIN tx' : tx'[i].t \in {"Cmd", "Payload"} => tx'[i].of = h
            BY <2>1, <2>2
      <2>4. \A c \in Commands : OnWire(c)' => c = h
            BY <2>3, NoCommandAssumption DEF OnWire
      <2> QED BY <1>2, <2>1, <2>4, NoCommandAssumption
<1> QED BY <1>1, <1>2

LEMMA SubmitMoves ==
    ASSUME TypeOK, TypeOK', Placed, Sync, NEW c \in Commands, Submit(c)
    PROVE  Moving
<1>1. input' = input /\ executed' = executed
      BY DEF Submit, modemVars
<1>2. CASE state = "Ready" /\ inFlight = NoCommand
      <2> DEFINE q == Append(queue, c)
      <2>1. q \in Seq(Commands) /\ q # <<>>
            <3>1. q \in Seq(Commands) /\ Len(q) = Len(queue) + 1 /\ Len(queue) \in Nat
                  BY Appended DEF TypeOK, EngineType
            <3> QED BY <3>1
      <2>2. Pump(q) /\ replies' = replies
            BY <1>2 DEF Submit
      <2> HIDE DEF q
      <2>3. inFlight' # NoCommand /\ \A x \in Commands : OnWire(x)' => x = inFlight'
            BY <1>1, <1>2, <2>1, <2>2, WirePump DEF Sync, Rests
      <2>4. Front < Front'
            BY <1>2, <2>2, <2>3, FrontNow, FrontNext
      <2> QED BY <1>1, <2>3, <2>4 DEF Moving, Puts
<1>3. CASE ~(state = "Ready" /\ inFlight = NoCommand)
      <2>1. tx' = tx
            BY <1>3 DEF Submit
      <2> QED BY <1>1, <2>1, WireTail DEF Moving
<1> QED BY <1>2, <1>3

LEMMA CallsMoves ==
    ASSUME TypeOK, TypeOK', Placed, Sync, Calls
    PROVE  Moving
<1>1. CASE CommandTimeout
      BY <1>1, WireUnsync DEF CommandTimeout, Deadline, modemVars, Moving
<1>2. CASE ProbeTimeout
      BY <1>2, WireProbe DEF ProbeTimeout, Deadline, modemVars, Moving
<1>3. CASE Reset
      BY <1>3, WireUnsync DEF Reset, modemVars, Moving
<1>4. CASE PowerOff
      BY <1>4, WireTail DEF PowerOff, SwitchOff, Moving
<1>5. CASE PowerOn
      BY <1>5, WireUnsync DEF PowerOn, Moving
<1> QED BY <1>1, <1>2, <1>3, <1>4, <1>5, SubmitMoves DEF Calls

LEMMA FinalMoves ==
    ASSUME TypeOK, TypeOK', Placed, Sync, OnFinal
    PROVE  Moving
<1>1. /\ rx # <<>> /\ Head(rx).t = "Final" /\ input' = input /\ executed' = executed
      /\ queue \in Seq(Commands)
      BY DEF OnFinal, Take, modemVars, TypeOK, EngineType
<1>2. ASSUME Pump(queue), OnlyEsc, input = NoCommand,
             Len(replies') = Len(replies) + (IF inFlight = NoCommand THEN 0 ELSE 1)
      PROVE  Moving
      <2>1. CASE queue = <<>>
            BY <1>1, <1>2, <2>1, WirePump DEF Moving
      <2>2. CASE queue # <<>>
            <3>1. inFlight' # NoCommand /\ \A x \in Commands : OnWire(x)' => x = inFlight'
                  BY <1>1, <1>2, <2>2, WirePump
            <3>2. Front < Front'
                  BY <1>2, <3>1, FrontNow, FrontNext
            <3> QED BY <1>1, <3>1, <3>2 DEF Moving, Puts
      <2> QED BY <2>1, <2>2
<1>3. CASE state = "Ready"
      <2>1. inFlight # NoCommand /\ OnlyEsc /\ input = NoCommand
            BY <1>3, FinalOwn
      <2>2. /\ Pump(queue)
            /\ Settle(IF Head(rx).ok THEN "Ok" ELSE "Failed", Head(rx).of)
            BY <1>3, <2>1 DEF OnFinal
      <2>3. Len(replies') = Len(replies) + 1
            BY <2>2 DEF Settle, TypeOK, EngineType
      <2> QED BY <1>2, <2>1, <2>2, <2>3
<1>4. CASE state = "Syncing" /\ readBack
      <2>1. /\ Head(rx).ok = TRUE /\ OnlyEsc /\ input = NoCommand
            BY <1>1, <1>4, SyncingHead
      <2>2. Pump(queue) /\ replies' = replies /\ inFlight = NoCommand
            BY <1>4, <2>1 DEF OnFinal, Placed
      <2> QED BY <1>2, <2>1, <2>2, FrontNow
<1>5. CASE state = "Off" \/ (state = "Syncing" /\ ~readBack)
      <2>1. tx' = tx
            BY <1>5 DEF OnFinal
      <2> QED BY <1>1, <2>1, WireTail DEF Moving
<1> QED BY <1>3, <1>4, <1>5 DEF TypeOK, EngineType

LEMMA PromptMoves ==
    ASSUME TypeOK, TypeOK', Sync, Told, OnPrompt
    PROVE  Moving
<1>1. /\ rx # <<>> /\ Head(rx).t = "Prompt" /\ executed' = executed
      /\ UNCHANGED <<state, inFlight, input, replies>>
      BY DEF OnPrompt, Take, modemVars
<1>2. CASE state = "Ready"
      <2>1. inFlight # NoCommand /\ Waiting /\ Expected(1) /\ rx[1].t = "Prompt" /\ 1 \in DOMAIN rx
            BY <1>1, <1>2, ReadyHead
      <2>2. /\ inFlight \in Payloads /\ ~payloadSent /\ tx = <<>> /\ input \in {inFlight, NoCommand}
            /\ executed[inFlight] = "No"
            BY <1>2, <2>1 DEF Expected, Waiting, Sync, Works, Told
      <2> DEFINE x == Payload(inFlight)
      <2>3. tx' = <<x>> /\ x.of = inFlight
            BY <1>2, <2>2 DEF OnPrompt, Payload
      <2> HIDE DEF x
      <2>4. DOMAIN tx' = 1 .. 1 /\ tx'[1] = x
            BY <2>3
      <2>5. \A c \in Commands : OnWire(c)' => c = inFlight'
            BY <1>1, <2>2, <2>3, <2>4, NoCommandAssumption DEF OnWire
      <2>6. Front = Front'
            BY <1>1 DEF Front, Pending
      <2> QED BY <1>1, <2>1, <2>2, <2>5, <2>6 DEF Moving, Puts
<1>3. CASE state # "Ready"
      <2>1. tx' = Append(tx, Esc)
            BY <1>3 DEF OnPrompt
      <2> QED BY <1>1, <2>1, WireEsc DEF Moving
<1> QED BY <1>2, <1>3

LEMMA ReceiveMoves ==
    ASSUME TypeOK, TypeOK', Placed, Sync, Told, Receive
    PROVE  Moving
<1>1. CASE OnReadBack \/ OnInfo \/ OnAtReady
      BY <1>1, WireTail DEF OnReadBack, OnInfo, OnAtReady, Take, modemVars, Moving
<1>2. CASE OnLost
      <2>1. input' = input /\ executed' = executed
            BY <1>2 DEF OnLost, Take, modemVars
      <2>2. tx' = tx \/ Unsync \/ StartProbe(<<>>)
            BY <1>2 DEF OnLost
      <2> QED BY <2>1, <2>2, WireTail, WireUnsync, WireProbe DEF Moving
<1> QED BY <1>1, <1>2, FinalMoves, PromptMoves DEF Receive

\* Nothing follows a command or a text on the wire.
LEMMA AfterHead ==
    ASSUME TypeOK, Sync, tx # <<>>, Head(tx).t \in {"Cmd", "Payload"}, tx' = Tail(tx)
    PROVE  \A i \in DOMAIN tx' : tx'[i].t \in {"Esc", "Probe"}
<1>1. /\ 1 \in DOMAIN tx /\ Head(tx) = tx[1]
      /\ \A i \in DOMAIN tx' : i + 1 \in DOMAIN tx /\ tx'[i] = tx[i + 1] /\ i + 1 > 1
      BY Shifted DEF TypeOK
<1> QED BY <1>1 DEF Sync, TxShape

LEMMA ExecuteMoves ==
    ASSUME TypeOK, Sync, Execute
    PROVE  Moving
<1> DEFINE c == Head(tx).of
<1>1. /\ tx # <<>> /\ Head(tx).t = "Cmd" /\ tx' = Tail(tx) /\ UNCHANGED engineVars
      BY DEF Execute, Consume
<1>2. /\ c \in Commands /\ input = NoCommand /\ 1 \in DOMAIN tx /\ tx[1].t = "Cmd" /\ tx[1].of = c
      BY <1>1, HeadOfTx, WrittenFields
<1>3. \A i \in DOMAIN tx' : tx'[i].t \in {"Esc", "Probe"}
      BY <1>1, AfterHead
<1>4. OnWire(c)
      BY <1>2 DEF OnWire
<1>5. ASSUME NEW r \in {"Ok", "Failed"}, executed' = [executed EXCEPT ![c] = r], input' = input
      PROVE  Moving
      <2>1. \A x \in Commands : ~OnWire(x)'
            BY <1>2, <1>3, <1>5, NoCommandAssumption DEF OnWire
      <2>2. Runs(c, r)
            BY <1>1, <1>4, <1>5, <2>1 DEF Runs, engineVars
      <2> QED BY <1>2, <2>2 DEF Moving
<1>6. CASE executed' = executed /\ input' = c
      <2>1. \A x \in Commands : OnWire(x)' => OnWire(x)
            BY <1>3, <1>4, <1>6 DEF OnWire
      <2> QED BY <1>6, <2>1 DEF Moving, NoMore
<1> QED BY <1>2, <1>5, <1>6 DEF Execute, Typed

LEMMA TakePayloadMoves ==
    ASSUME TypeOK, Sync, TakePayload
    PROVE  Moving
<1>1. /\ tx # <<>> /\ Head(tx).t = "Payload" /\ tx' = Tail(tx) /\ UNCHANGED engineVars
      BY DEF TakePayload, Consume
<1>2. CASE input = NoCommand
      BY <1>1, <1>2, WireTail DEF TakePayload, Moving
<1>3. CASE input # NoCommand
      <2>1. input \in Commands /\ input' = NoCommand /\ executed' = [executed EXCEPT ![input] = "Ok"]
            BY <1>3, PayloadsAssumption DEF TakePayload, TypeOK, ModemType
      <2>2. \A i \in DOMAIN tx' : tx'[i].t \in {"Esc", "Probe"}
            BY <1>1, AfterHead
      <2>3. \A x \in Commands : ~OnWire(x)'
            BY <2>1, <2>2, NoCommandAssumption DEF OnWire
      <2>4. Runs(input, "Ok")
            BY <1>1, <2>1, <2>3 DEF Runs, OnWire, engineVars
      <2> QED BY <2>1, <2>4 DEF Moving
<1> QED BY <1>2, <1>3

LEMMA ExternalMoves ==
    ASSUME TypeOK, Sync, External
    PROVE  Moving
<1>1. CASE AnswerProbe
      BY <1>1, WireTail DEF AnswerProbe, Consume, Typed, Moving
<1>2. CASE TakeEsc
      BY <1>2, WireTail DEF TakeEsc, Consume, Moving
<1>3. CASE Ignore \/ WriteFails
      BY <1>3, WireTail DEF Ignore, WriteFails, modemVars, Moving
<1>4. CASE Booted \/ Restart \/ ShutDown
      BY <1>4, WireTail DEF Booted, Restart, ShutDown, Forget, Moving
<1> QED BY <1>1, <1>2, <1>3, <1>4, ExecuteMoves, TakePayloadMoves DEF External, Modem

\* Every step does one of the three to the wire and to the modem.
LEMMA StepMoves ==
    ASSUME TypeOK, TypeOK', Placed, Sync, Told, [Next]_vars
    PROVE  Moving
<1>1. CASE UNCHANGED vars
      BY <1>1, WireTail DEF vars, modemVars, Moving
<1> QED BY <1>1, CallsMoves, ReceiveMoves, ExternalMoves DEF Next

-----------------------------------------------------------------------------
(* What was told, promised and asked stays true *)

LEMMA InJoined ==
    ASSUME NEW S, NEW s \in Seq(S), NEW d \in Seq(S), NEW k \in DOMAIN (s \o d)
    PROVE  \/ k \in DOMAIN s /\ (s \o d)[k] = s[k]
           \/ k - Len(s) \in DOMAIN d /\ (s \o d)[k] = d[k - Len(s)]
OBVIOUS

LEMMA ToldKept ==
    ASSUME TypeOK, Told, UNCHANGED <<state, inFlight, executed>>,
           (rx # <<>> /\ rx' = Tail(rx)) \/ Noise
    PROVE  Told'
<1> SUFFICES ASSUME state = "Ready", inFlight # NoCommand, NEW k \in DOMAIN rx'
             PROVE  /\ rx'[k].t = "Final" =>
                          executed[inFlight] = IF rx'[k].ok THEN "Ok" ELSE "Failed"
                    /\ rx'[k].t = "Prompt" => executed[inFlight] = "No"
    BY DEF Told
<1>1. CASE rx # <<>> /\ rx' = Tail(rx)
      <2>1. k + 1 \in DOMAIN rx /\ rx'[k] = rx[k + 1]
            BY <1>1, Shifted DEF TypeOK
      <2> QED BY <2>1 DEF Told
<1>2. CASE Noise
      <2>1. PICK d \in Seq(Received) :
                  rx' = rx \o d /\ \A j \in DOMAIN d : d[j].t \in {"AtReady", "Lost"}
            BY <1>2 DEF Noise
      <2>2. \/ k \in DOMAIN rx /\ rx'[k] = rx[k]
            \/ k - Len(rx) \in DOMAIN d /\ rx'[k] = d[k - Len(rx)]
            BY <2>1, InJoined DEF TypeOK
      <2> QED BY <2>1, <2>2 DEF Told
<1> QED BY <1>1, <1>2

LEMMA ToldQuiet ==
    ASSUME TypeOK', QuietAfter(0)'
    PROVE  Told'
<1>1. \A k \in DOMAIN rx' : k > 0
      BY DEF TypeOK
<1> QED BY <1>1 DEF QuietAfter, Told

LEMMA ToldElse ==
    ASSUME state' # "Ready"
    PROVE  Told'
BY DEF Told

LEMMA EmitOne ==
    ASSUME NEW a \in Received, Emit(<<a>>)
    PROVE  \E d \in Seq(Received) : rx' = rx \o d /\ \A j \in DOMAIN d : d[j] \in {a, Lost}
<1> DEFINE l == Lost
<1>1. l \in Received
      BY ItemFields
<1>2. PICK b \in {a, l} : rx' = rx \o <<b>>
      BY OneSent
<1> DEFINE d == <<b>>
<1>3. d \in Seq(Received) /\ DOMAIN d = 1 .. 1 /\ d[1] = b
      BY <1>1, Shorts
<1>4. rx' = rx \o d
      BY <1>2
<1> HIDE DEF d
<1>5. \A j \in DOMAIN d : d[j] \in {a, l}
      BY <1>3
<1> QED BY <1>3, <1>4, <1>5

LEMMA EmitTwo ==
    ASSUME NEW a \in Received, NEW b \in Received, Emit(<<a, b>>)
    PROVE  \E d \in Seq(Received) : rx' = rx \o d /\ \A j \in DOMAIN d : d[j] \in {a, b, Lost}
<1> DEFINE l == Lost
<1>1. l \in Received
      BY ItemFields
<1>2. \E d \in {<<a, b>>, <<l>>, <<l, b>>, <<a, l>>} : rx' = rx \o d
      BY TwoSent
<1> HIDE DEF l
<1>3. ASSUME NEW x \in {a, b, l}, NEW y \in {a, b, l}
      PROVE  /\ <<x>> \in Seq(Received) /\ \A j \in DOMAIN <<x>> : <<x>>[j] \in {a, b, l}
             /\ <<x, y>> \in Seq(Received) /\ \A j \in DOMAIN <<x, y>> : <<x, y>>[j] \in {a, b, l}
      BY <1>1, Shorts
<1>4. ASSUME NEW d \in {<<a, b>>, <<l>>, <<l, b>>, <<a, l>>}
      PROVE  d \in Seq(Received) /\ \A j \in DOMAIN d : d[j] \in {a, b, l}
      BY <1>3
<1> QED BY <1>2, <1>4 DEF l

\* The modem answers the command in flight.
LEMMA ToldAnswered ==
    ASSUME TypeOK, QuietAfter(0), UNCHANGED inFlight, NEW d \in Seq(Received), rx' = rx \o d,
           \A j \in DOMAIN d :
               /\ d[j].t = "Final" => executed'[inFlight] = IF d[j].ok THEN "Ok" ELSE "Failed"
               /\ d[j].t = "Prompt" => executed'[inFlight] = "No"
    PROVE  Told'
<1>1. /\ Len(rx) \in Nat /\ DOMAIN rx = 1 .. Len(rx) /\ DOMAIN d = 1 .. Len(d)
      /\ DOMAIN rx' = 1 .. Len(rx) + Len(d)
      /\ \A i \in 1 .. Len(rx) : rx'[i] = rx[i]
      /\ \A i \in 1 .. Len(rx) + Len(d) : i > Len(rx) =>
            i - Len(rx) \in 1 .. Len(d) /\ rx'[i] = d[i - Len(rx)]
      BY Joined DEF TypeOK
<1>2. ASSUME NEW k \in DOMAIN rx'
      PROVE  \/ rx'[k].t \in {"AtReady", "Lost"}
             \/ k - Len(rx) \in DOMAIN d /\ rx'[k] = d[k - Len(rx)]
      <2>1. CASE k <= Len(rx)
            BY <1>1, <2>1 DEF QuietAfter
      <2>2. CASE k > Len(rx)
            BY <1>1, <2>2
      <2> QED BY <1>1, <2>1, <2>2
<1> QED BY <1>2 DEF Told

LEMMA CallsTold ==
    ASSUME TypeOK, TypeOK', Placed, Sync, Told, Calls
    PROVE  Told'
<1>1. ASSUME NEW c \in Commands, Submit(c) PROVE Told'
      <2>1. rx' = rx /\ executed' = executed
            BY <1>1 DEF Submit, modemVars
      <2>2. CASE state = "Ready" /\ inFlight = NoCommand
            <3>1. QuietAfter(0)'
                  BY <2>1, <2>2, QuietSame DEF Sync, Rests
            <3> QED BY <3>1, ToldQuiet
      <2>3. CASE ~(state = "Ready" /\ inFlight = NoCommand)
            <3>1. UNCHANGED <<state, inFlight>>
                  BY <1>1, <2>3 DEF Submit
            <3> QED BY <2>1, <3>1, NoNoise, ToldKept
      <2> QED BY <2>2, <2>3
<1>2. CASE CommandTimeout \/ Reset \/ PowerOn
      BY <1>2, ToldElse DEF CommandTimeout, Reset, PowerOn, Unsync, StartProbe
<1>3. CASE ProbeTimeout
      BY <1>3, ToldElse DEF ProbeTimeout, StartProbe
<1>4. CASE PowerOff
      BY <1>4, ToldElse DEF PowerOff, SwitchOff
<1> QED BY <1>1, <1>2, <1>3, <1>4 DEF Calls

LEMMA ReceiveTold ==
    ASSUME TypeOK, TypeOK', Placed, Sync, Told, Receive
    PROVE  Told'
<1>1. CASE OnReadBack \/ OnInfo \/ OnPrompt \/ OnAtReady
      <2>1. /\ rx # <<>> /\ rx' = Tail(rx) /\ UNCHANGED <<state, inFlight, executed>>
            BY <1>1 DEF OnReadBack, OnInfo, OnPrompt, OnAtReady, Take, modemVars, engineVars
      <2> QED BY <2>1, ToldKept
<1>2. CASE OnFinal
      <2>1. /\ rx # <<>> /\ rx' = Tail(rx) /\ executed' = executed /\ Head(rx).t = "Final"
            BY <1>2 DEF OnFinal, Take, modemVars
      <2>2. CASE state = "Ready"
            BY <1>2, <2>2, FinalOwn, ToldQuiet
      <2>3. CASE state = "Syncing" /\ readBack
            <3>1. QuietAfter(0 + 1)
                  <4>1. 0 + 1 = 1
                        OBVIOUS
                  <4> QED BY <2>1, <2>3, <4>1, SyncingHead
            <3>2. QuietAfter(0)'
                  BY <2>1, <3>1, QuietTail
            <3> QED BY <3>2, ToldQuiet
      <2>4. CASE state = "Off" \/ (state = "Syncing" /\ ~readBack)
            <3>1. state' # "Ready"
                  BY <1>2, <2>4 DEF OnFinal, engineVars
            <3> QED BY <3>1, ToldElse
      <2> QED BY <2>2, <2>3, <2>4 DEF TypeOK, EngineType
<1>3. CASE OnLost
      <2>1. /\ rx # <<>> /\ rx' = Tail(rx) /\ executed' = executed
            BY <1>3 DEF OnLost, Take, modemVars
      <2>2. CASE UNCHANGED engineVars
            BY <2>1, <2>2, ToldKept DEF engineVars
      <2>3. CASE Unsync \/ StartProbe(<<>>)
            BY <2>3, ToldElse DEF Unsync, StartProbe
      <2> QED BY <1>3, <2>2, <2>3 DEF OnLost
<1> QED BY <1>1, <1>2, <1>3 DEF Receive

LEMMA ReadyTx ==
    ASSUME TypeOK, Sync, tx # <<>>, state = "Ready"
    PROVE  /\ QuietAfter(0) /\ Head(tx).t \in {"Cmd", "Payload", "Esc"}
           /\ Head(tx).t = "Esc" => input = NoCommand
           /\ Head(tx).t \in {"Cmd", "Payload"} => inFlight # NoCommand /\ Head(tx).of = inFlight
<1>1. 1 \in DOMAIN tx /\ Head(tx) = tx[1]
      BY Shifted DEF TypeOK
<1>2. CASE inFlight = NoCommand
      BY <1>1, <1>2 DEF Sync, Rests, OnlyEsc
<1>3. CASE inFlight # NoCommand
      <2>1. CASE Sent
            BY <1>3, <2>1, SentHead DEF Sync, Sent, TxShape
      <2>2. CASE Texting
            BY <1>1, <1>3, <2>2 DEF Texting
      <2>3. ~Waiting
            BY DEF Waiting
      <2> QED BY <1>3, <2>1, <2>2, <2>3 DEF Sync, Works
<1> QED BY <1>2, <1>3

LEMMA ExecuteTold ==
    ASSUME TypeOK, TypeOK', Sync, Told, Alive, Execute
    PROVE  Told'
<1> DEFINE c == Head(tx).of
<1>1. /\ tx # <<>> /\ Head(tx).t = "Cmd" /\ UNCHANGED engineVars
      BY DEF Execute, Consume
<1>2. /\ c \in Commands /\ input = NoCommand /\ 1 \in DOMAIN tx /\ tx[1].t = "Cmd" /\ tx[1].of = c
      BY <1>1, HeadOfTx, WrittenFields
<1>3. CASE state # "Ready"
      BY <1>1, <1>3, ToldElse DEF engineVars
<1>4. CASE state = "Ready"
      <2>1. QuietAfter(0) /\ inFlight # NoCommand /\ c = inFlight /\ inFlight' = inFlight
            BY <1>1, <1>4, ReadyTx DEF engineVars
      <2> DEFINE i == Info(c)
                 f == Final(c, FALSE)
                 g == Final(c, TRUE)
                 p == Prompt(c)
                 l == Lost
      <2>2. /\ i \in Received /\ i.t = "Info" /\ p \in Received /\ p.t = "Prompt"
            /\ f \in Received /\ f.t = "Final" /\ f.ok = FALSE
            /\ g \in Received /\ g.t = "Final" /\ g.ok = TRUE /\ l.t = "Lost"
            BY <1>2, ItemFields, ZenonT(60) DEF Sources
      <2>3. CASE executed' = [executed EXCEPT ![c] = "Failed"] /\ Emit(<<f>>)
            <3>1. executed'[c] = "Failed"
                  BY <1>2, <2>3 DEF TypeOK, ModemType
            <3>2. PICK d \in Seq(Received) : rx' = rx \o d /\ \A j \in DOMAIN d : d[j] \in {f, l}
                  BY <2>2, <2>3, EmitOne
            <3> HIDE DEF f, l, c
            <3> QED BY <2>1, <2>2, <3>1, <3>2, ToldAnswered
      <2>4. CASE executed' = [executed EXCEPT ![c] = "Ok"] /\ Emit(<<i, g>>)
            <3>1. executed'[c] = "Ok"
                  BY <1>2, <2>4 DEF TypeOK, ModemType
            <3>2. PICK d \in Seq(Received) : rx' = rx \o d /\ \A j \in DOMAIN d : d[j] \in {i, g, l}
                  BY <2>2, <2>4, EmitTwo
            <3> HIDE DEF i, g, l, c
            <3> QED BY <2>1, <2>2, <3>1, <3>2, ToldAnswered
      <2>5. CASE executed' = executed /\ Emit(<<p>>)
            <3>1. executed[c] = "No"
                  <4>1. Asked[Len(replies) + 1] = c /\ Len(replies) + 1 \in DOMAIN Asked
                        BY <2>1, Places DEF AskedPlaces
                  <4>2. OnWire(c)
                        BY <1>2 DEF OnWire
                  <4> QED BY <4>1, <4>2 DEF Alive
            <3>2. PICK d \in Seq(Received) : rx' = rx \o d /\ \A j \in DOMAIN d : d[j] \in {p, l}
                  BY <2>2, <2>5, EmitOne
            <3> HIDE DEF p, l, c
            <3> QED BY <2>1, <2>2, <2>5, <3>1, <3>2, ToldAnswered
      <2> QED BY <1>2, <2>3, <2>4, <2>5 DEF Execute, Typed
<1> QED BY <1>3, <1>4

LEMMA TakePayloadTold ==
    ASSUME TypeOK, TypeOK', Sync, Told, TakePayload
    PROVE  Told'
<1>1. /\ tx # <<>> /\ Head(tx).t = "Payload" /\ UNCHANGED engineVars
      BY DEF TakePayload, Consume
<1>2. CASE state # "Ready"
      BY <1>1, <1>2, ToldElse DEF engineVars
<1>3. CASE input = NoCommand
      <2>1. rx' = rx /\ UNCHANGED <<state, inFlight, executed>>
            BY <1>1, <1>3 DEF TakePayload, engineVars
      <2> QED BY <2>1, NoNoise, ToldKept
<1>4. CASE state = "Ready" /\ input # NoCommand
      <2> DEFINE c == input
      <2>1. QuietAfter(0) /\ inFlight # NoCommand /\ c = inFlight /\ inFlight' = inFlight
            BY <1>1, <1>4, ReadyTx, HeadOfTx DEF engineVars
      <2>2. c \in Commands
            BY <1>4, PayloadsAssumption DEF TypeOK, ModemType
      <2> DEFINE i == Info(c)
                 g == Final(c, TRUE)
                 l == Lost
      <2>3. /\ i \in Received /\ i.t = "Info"
            /\ g \in Received /\ g.t = "Final" /\ g.ok = TRUE /\ l.t = "Lost"
            BY <2>2, ItemFields DEF Sources
      <2>4. executed' = [executed EXCEPT ![c] = "Ok"] /\ Emit(<<i, g>>)
            BY <1>4 DEF TakePayload
      <2>5. executed'[c] = "Ok"
            BY <2>2, <2>4 DEF TypeOK, ModemType
      <2>6. PICK d \in Seq(Received) : rx' = rx \o d /\ \A j \in DOMAIN d : d[j] \in {i, g, l}
            BY <2>3, <2>4, EmitTwo
      <2> HIDE DEF i, g, l, c
      <2> QED BY <2>1, <2>3, <2>5, <2>6, ToldAnswered
<1> QED BY <1>2, <1>3, <1>4

LEMMA ExternalTold ==
    ASSUME TypeOK, TypeOK', Sync, Told, Alive, External
    PROVE  Told'
<1>1. CASE AnswerProbe
      <2>1. tx # <<>> /\ Head(tx).t = "Probe" /\ state' = state
            BY <1>1 DEF AnswerProbe, Consume, engineVars
      <2> QED BY <2>1, HeadOfTx, ToldElse
<1>2. CASE TakeEsc
      <2>1. /\ tx # <<>> /\ Head(tx).t = "Esc" /\ UNCHANGED <<state, inFlight, executed>>
            BY <1>2 DEF TakeEsc, Consume, engineVars
      <2>2. CASE state # "Ready"
            BY <2>1, <2>2, ToldElse
      <2>3. CASE state = "Ready"
            <3>1. input = NoCommand
                  BY <2>1, <2>3, ReadyTx
            <3>2. rx' = rx
                  BY <1>2, <3>1 DEF TakeEsc
            <3> QED BY <2>1, <3>2, NoNoise, ToldKept
      <2> QED BY <2>2, <2>3
<1>3. CASE Booted
      <2>1. UNCHANGED <<state, inFlight, executed>>
            BY <1>3 DEF Booted, engineVars
      <2>2. PICK d \in Seq(Received) : rx' = rx \o d /\ \A j \in DOMAIN d : d[j] \in {AtReady, Lost}
            BY <1>3, ItemFields, EmitOne DEF Booted
      <2>3. AtReady.t = "AtReady" /\ Lost.t = "Lost"
            BY ItemFields
      <2>4. \A j \in DOMAIN d : d[j].t \in {"AtReady", "Lost"}
            BY <2>2, <2>3
      <2>5. Noise
            BY <2>2, <2>4 DEF Noise
      <2> QED BY <2>1, <2>5, ToldKept
<1>4. CASE Ignore \/ WriteFails \/ Restart \/ ShutDown
      <2>1. rx' = rx /\ UNCHANGED <<state, inFlight, executed>>
            BY <1>4 DEF Ignore, WriteFails, Restart, ShutDown, engineVars, modemVars
      <2> QED BY <2>1, NoNoise, ToldKept
<1> QED BY <1>1, <1>2, <1>3, <1>4, ExecuteTold, TakePayloadTold DEF External, Modem

\* The answers on the wire stay true.
LEMMA ToldStep ==
    ASSUME TypeOK, TypeOK', Placed, Sync, Told, Alive, [Next]_vars
    PROVE  Told'
<1>1. CASE UNCHANGED vars
      BY <1>1, NoNoise, ToldKept DEF vars, engineVars, modemVars
<1> QED BY <1>1, CallsTold, ReceiveTold, ExternalTold DEF Next

\* Everything said so far, and everything that follows from it
Record == Told /\ Later /\ Unasked /\ Alive /\ Honest

\* What was asked keeps its place.
LEMMA AskedGrows ==
    ASSUME TypeOK, TypeOK', Placed, [Next]_vars
    PROVE  /\ \A i \in DOMAIN Asked : i \in DOMAIN Asked' /\ Asked'[i] = Asked[i]
           /\ \A i \in DOMAIN Asked' : i \notin DOMAIN Asked => New(Asked'[i])
           /\ \A c : New(c)' => New(c)
           /\ \A i \in DOMAIN Asked' : Asked'[i] \in Commands
<1>1. \A i \in DOMAIN Asked' : Asked'[i] \in Commands
      BY PlacesNext DEF AskedPlaces
<1> DEFINE a == Asked
<1>2. a \in Seq(Commands)
      BY PendingType
<1>3. CASE Asked' = Asked
      BY <1>1, <1>3 DEF New
<1>4. ASSUME NEW c \in Commands, New(c), Asked' = Append(Asked, c)
      PROVE  /\ \A i \in DOMAIN Asked : i \in DOMAIN Asked' /\ Asked'[i] = Asked[i]
             /\ \A i \in DOMAIN Asked' : i \notin DOMAIN Asked => New(Asked'[i])
             /\ \A x : New(x)' => New(x)
      <2> DEFINE b == Append(a, c)
      <2>1. /\ DOMAIN a = 1 .. Len(a) /\ DOMAIN b = 1 .. Len(a) + 1 /\ Len(a) \in Nat
            /\ b[Len(a) + 1] = c /\ \A i \in 1 .. Len(a) : b[i] = a[i]
            BY <1>2, Appended
      <2>2. Asked' = b /\ Asked = a
            BY <1>4
      <2> HIDE DEF a, b
      <2>3. \A i \in DOMAIN a : i \in DOMAIN b /\ b[i] = a[i]
            BY <2>1
      <2>4. \A i \in DOMAIN b : i \notin DOMAIN a => b[i] = c
            BY <2>1
      <2> QED BY <1>4, <2>2, <2>3, <2>4 DEF New
<1> QED BY <1>1, <1>3, <1>4, AskedStep

\* A command that waits or was not asked for is still as it was, unless it is
\* sent by this very step.
LEMMA UntouchedKept ==
    ASSUME TypeOK, Moving, NEW c \in Commands, Untouched(c), c # inFlight' \/ NoMore
    PROVE  Untouched(c)'
<1>1. CASE NoMore
      BY <1>1 DEF NoMore, Untouched
<1>2. CASE Puts /\ ~NoMore
      BY <1>2 DEF Puts, Untouched
<1>3. ASSUME NEW x \in Commands, NEW r \in {"Ok", "Failed"}, Runs(x, r)
      PROVE  Untouched(c)'
      <2>1. x # c /\ executed' = [executed EXCEPT ![x] = r] /\ ~OnWire(c)'
            BY <1>3 DEF Runs, Untouched
      <2>2. executed'[c] = executed[c]
            BY <2>1 DEF TypeOK, ModemType
      <2> QED BY <2>1, <2>2 DEF Untouched
<1> QED BY <1>1, <1>2, <1>3 DEF Moving

\* A command behind the front is in none of the places before it.
LEMMA BeyondFront ==
    ASSUME TypeOK, TypeOK', Placed, Later, Unasked, [Next]_vars,
           NEW i \in DOMAIN Asked', i > Front
    PROVE  Untouched(Asked'[i])
<1>1. CASE i \in DOMAIN Asked
      BY <1>1, AskedGrows DEF Later
<1>2. CASE i \notin DOMAIN Asked
      BY <1>2, AskedGrows DEF Unasked
<1> QED BY <1>1, <1>2

\* Where the command in flight after the step is
LEMMA SentPlace ==
    ASSUME TypeOK', inFlight' # NoCommand
    PROVE  /\ Front' \in DOMAIN Asked' /\ Asked'[Front'] = inFlight'
           /\ Front' = Len(replies') + 1 /\ Front' \in Nat
BY PlacesNext DEF AskedPlaces

\* Nothing behind the front is touched.
LEMMA LaterStep ==
    ASSUME TypeOK, TypeOK', Placed, Once', Sync, Record, [Next]_vars
    PROVE  Later' /\ Unasked'
<1>1. Moving /\ Front <= Front' /\ Front \in Nat /\ Front' \in Nat
      BY StepMoves, StepGives, FrontNow, FrontNext DEF Record, Answering
<1>2. ASSUME NEW i \in DOMAIN Asked', i > Front' PROVE Untouched(Asked[i])'
      <2>1. i \in Nat /\ Asked'[i] \in Commands
            BY PlacesNext DEF AskedPlaces
      <2>2. Untouched(Asked'[i])
            BY <1>1, <1>2, <2>1, BeyondFront DEF Record
      <2>3. Asked'[i] # inFlight' \/ inFlight' = NoCommand
            BY <1>1, <1>2, <2>1, SentPlace DEF Once
      <2>4. Asked'[i] # inFlight'
            BY <2>1, <2>3, NoCommandAssumption
      <2>5. \A c \in Commands : Untouched(c) /\ c # inFlight' => Untouched(c)'
            BY <1>1, UntouchedKept
      <2> QED BY <2>1, <2>2, <2>4, <2>5 DEF Untouched, OnWire
<1>3. ASSUME NEW c \in Commands, New(c)' PROVE Untouched(c)'
      <2>1. New(c) /\ Untouched(c)
            BY <1>3, AskedGrows DEF Record, Unasked
      <2>2. c # inFlight'
            BY <1>3, SentPlace, NoCommandAssumption DEF New
      <2> QED BY <1>1, <2>1, <2>2, UntouchedKept
<1> QED BY <1>2, <1>3 DEF Later, Unasked

\* Commands leave the wires in the order of Asked.
LEMMA AliveStep ==
    ASSUME TypeOK, TypeOK', Placed, Once', Sync, Record, Later', [Next]_vars
    PROVE  Alive'
<1>1. Moving /\ Answering
      BY StepMoves, StepGives DEF Record
<1>2. /\ Front \in Nat /\ Front' \in Nat
      /\ DOMAIN replies = 1 .. Len(replies) /\ Len(replies) \in Nat
      /\ DOMAIN replies' = 1 .. Len(replies') /\ Len(replies') \in Nat
      /\ \A i \in DOMAIN Asked' : i \in Nat
      BY FrontNow, FrontNext, PlacesNext DEF AskedPlaces
<1> SUFFICES ASSUME NEW i \in DOMAIN Asked', OnWire(Asked[i])'
             PROVE  /\ executed'[Asked'[i]] = "No"
                    /\ i \in DOMAIN replies' => replies'[i].outcome = "Unknown"
                    /\ \A j \in DOMAIN Asked' : j > i => executed'[Asked'[j]] = "No"
    BY DEF Alive
<1>3. PICK c \in Commands : c = Asked'[i]
      BY PlacesNext DEF AskedPlaces
<1>4. OnWire(c)'
      BY <1>3 DEF OnWire
<1>5. CASE NoMore
      <2>1. OnWire(c) /\ executed' = executed
            BY <1>4, <1>5 DEF NoMore
      <2>2. i \in DOMAIN Asked /\ Asked[i] = c
            BY <1>3, <2>1, AskedGrows DEF Record, Unasked, Untouched
      <2>3. executed[c] = "No"
            BY <2>1, <2>2 DEF Record, Alive
      <2>4. ASSUME NEW j \in DOMAIN Asked', j > i PROVE executed[Asked'[j]] = "No"
            <3>1. CASE j \in DOMAIN Asked
                  BY <2>1, <2>2, <2>4, <3>1, AskedGrows DEF Record, Alive
            <3>2. CASE j \notin DOMAIN Asked
                  BY <3>2, AskedGrows DEF Record, Unasked, Untouched
            <3> QED BY <3>1, <3>2
      <2>5. ASSUME i \in DOMAIN replies' PROVE replies'[i].outcome = "Unknown"
            <3>1. CASE i \in DOMAIN replies
                  BY <1>1, <2>1, <2>2, <3>1 DEF Answering, Record, Alive
            <3>2. CASE i \notin DOMAIN replies
                  <4>1. Given(i)
                        <5>1. i > Len(replies)
                              BY <1>2, <2>5, <3>2
                        <5> QED BY <1>1, <2>5, <5>1 DEF Answering
                  <4>2. ~(i > Front)
                        BY <2>1, <2>2 DEF Record, Later, Untouched
                  <4>3. ~(OnlyEsc /\ input = NoCommand)
                        BY <2>1, NoCommandAssumption DEF OnWire, OnlyEsc
                  <4> QED BY <4>1, <4>2, <4>3 DEF Given
            <3> QED BY <3>1, <3>2
      <2> QED BY <1>3, <2>1, <2>3, <2>4, <2>5
<1>6. CASE Puts
      <2>1. c = inFlight' /\ executed' = executed /\ inFlight' # NoCommand
            BY <1>4, <1>6 DEF Puts
      <2>2. i = Front' /\ Front' = Len(replies') + 1 /\ Len(replies') \in Nat
            BY <1>3, <2>1, SentPlace, FrontNext DEF Once
      <2>3. executed[c] = "No"
            <3>1. CASE Front < Front'
                  BY <1>3, <2>2, <3>1, BeyondFront DEF Record, Untouched
            <3>2. CASE ~(Front < Front')
                  BY <1>6, <2>1, <3>2 DEF Puts
            <3> QED BY <3>1, <3>2
      <2>4. i \notin DOMAIN replies'
            BY <1>2, <2>2
      <2>5. \A j \in DOMAIN Asked' : j > i => executed'[Asked'[j]] = "No"
            BY <2>2 DEF Later, Untouched
      <2> QED BY <1>3, <2>1, <2>3, <2>4, <2>5
<1>7. CASE \E x \in Commands, r \in {"Ok", "Failed"} : Runs(x, r)
      BY <1>4, <1>7 DEF Runs
<1> QED BY <1>1, <1>5, <1>6, <1>7 DEF Moving

\* A reply given is true, and stays so.
LEMMA HonestStep ==
    ASSUME TypeOK, TypeOK', Placed, Once', Sync, Record, [Next]_vars
    PROVE  Honest'
<1>1. Moving /\ Answering
      BY StepMoves, StepGives DEF Record
<1>2. /\ DOMAIN replies = 1 .. Len(replies) /\ Len(replies) \in Nat
      /\ DOMAIN replies' = 1 .. Len(replies') /\ Len(replies') \in Nat
      BY FrontNow, FrontNext
<1> SUFFICES ASSUME NEW i \in DOMAIN replies'
             PROVE  /\ replies'[i].outcome \in {"Ok", "Failed"} =>
                          executed'[replies'[i].id] = replies'[i].outcome
                    /\ replies'[i].outcome = "NotSent" => Untouched(replies[i].id)'
    BY DEF Honest
<1>3. PICK c \in Commands : c = replies'[i].id
      BY <1>2, PlacesNext DEF AskedPlaces
<1>4. i \in DOMAIN Asked' /\ Asked'[i] = c
      BY <1>3, PlacesNext DEF AskedPlaces
<1>5. c # inFlight'
      <2>1. inFlight' # NoCommand => i # Front'
            BY <1>2, SentPlace
      <2> QED BY <1>3, <1>4, <2>1, SentPlace, NoCommandAssumption DEF Once
<1>6. Untouched(c) => Untouched(c)'
      BY <1>1, <1>5, UntouchedKept
<1>7. CASE i \in DOMAIN replies
      <2>1. replies'[i] = replies[i] /\ replies[i].id = c
            BY <1>1, <1>3, <1>7 DEF Answering
      <2>2. replies[i].outcome = "NotSent" => Untouched(c)
            BY <1>7, <2>1 DEF Record, Honest
      <2>3. replies[i].outcome \in {"Ok", "Failed"} => executed[c] = replies[i].outcome
            BY <1>7, <2>1 DEF Record, Honest
      <2>4. ASSUME replies[i].outcome \in {"Ok", "Failed"} PROVE executed'[c] = executed[c]
            <3>1. i \in DOMAIN Asked /\ Asked[i] = c
                  BY <1>2, <1>7, <2>1, Places DEF AskedPlaces
            <3>2. ~OnWire(c)
                  BY <1>7, <2>4, <3>1 DEF Record, Alive
            <3>3. CASE NoMore \/ Puts
                  BY <3>3 DEF NoMore, Puts
            <3>4. ASSUME NEW x \in Commands, NEW r \in {"Ok", "Failed"}, Runs(x, r)
                  PROVE  executed'[c] = executed[c]
                  <4>1. x # c /\ executed' = [executed EXCEPT ![x] = r]
                        BY <3>2, <3>4 DEF Runs
                  <4> QED BY <4>1 DEF TypeOK, ModemType
            <3> QED BY <1>1, <3>3, <3>4 DEF Moving
      <2> QED BY <1>3, <1>6, <2>1, <2>2, <2>3, <2>4 DEF Untouched, OnWire
<1>8. CASE i \notin DOMAIN replies
      <2>1. Given(i)
            BY <1>1, <1>2, <1>8 DEF Answering
      <2>2. CASE replies'[i].outcome = "NotSent" /\ i > Front
            <3>1. Untouched(c)
                  BY <1>4, <2>2, BeyondFront DEF Record
            <3> QED BY <1>3, <1>6, <2>2, <3>1 DEF Untouched, OnWire
      <2>3. CASE /\ replies'[i].outcome \in {"Ok", "Failed"} /\ replies'[i].id = inFlight
                 /\ replies'[i].outcome = executed[inFlight] /\ executed' = executed
            BY <1>3, <2>3
      <2> QED BY <2>1, <2>2, <2>3 DEF Given
<1> QED BY <1>7, <1>8

\* Every step keeps the record.
LEMMA RecordStep ==
    ASSUME TypeOK, TypeOK', Placed, Once', Sync, Record, [Next]_vars
    PROVE  Record'
BY ToldStep, LaterStep, AliveStep, HonestStep DEF Record

LEMMA InitRecord ==
    ASSUME Init
    PROVE  Record
<1>1. TypeOK /\ tx = <<>> /\ input = NoCommand /\ replies = <<>>
      /\ executed = [c \in Commands |-> "No"] /\ state = "Off"
      BY InitType DEF Init
<1>2. ASSUME NEW c \in Commands PROVE Untouched(c)
      <2>1. executed[c] = "No"
            BY <1>1
      <2>2. DOMAIN tx = {} /\ input # c
            BY <1>1, NoCommandAssumption
      <2> QED BY <2>1, <2>2 DEF Untouched, OnWire
<1>3. \A i \in DOMAIN Asked : Asked[i] \in Commands
      BY <1>1, Places DEF AskedPlaces
<1>4. Told /\ Unasked /\ Later
      BY <1>1, <1>2, <1>3 DEF Told, Unasked, Later
<1>5. Alive /\ Honest
      BY <1>1, <1>2, <1>3 DEF Alive, Honest, Untouched
<1> QED BY <1>4, <1>5 DEF Record

\* As long as probe numbers are fresh, everything Record says of the commands holds.
THEOREM RecordAlways == Spec /\ []NoncesFresh => []Record
<1>1. Init => Record
      BY InitRecord
<1>2. TypeOK /\ TypeOK' /\ OneReply /\ OneReply' /\ Sync /\ Record /\ [Next]_vars => Record'
      BY RecordStep DEF OneReply
<1> QED BY <1>1, <1>2, TypeCorrect, OneReplyAlways, SyncAlways, PTL DEF Spec

\* Record says more than Truthful.
LEMMA RecordTruthful ==
    ASSUME TypeOK, Record
    PROVE  Truthful
<1>1. ASSUME NEW i \in DOMAIN replies
      PROVE  LET r == replies[i] IN
             /\ r.outcome \in {"Ok", "Failed"} => executed[r.id] = r.outcome
             /\ r.outcome = "NotSent" =>
                  executed[r.id] = "No" /\ \A k \in DOMAIN tx : Concerns(tx[k]) # r.id
      <2>1. PICK c \in Commands : c = replies[i].id
            BY Places DEF AskedPlaces
      <2>2. \A k \in DOMAIN tx : Concerns(tx[k]) = c => tx[k].t \in {"Cmd", "Payload"} /\ tx[k].of = c
            <3>1. ASSUME NEW k \in DOMAIN tx PROVE tx[k].t \in {"Cmd", "Payload", "Esc", "Probe"}
                  <4>1. tx[k] \in Written
                        BY DEF TypeOK
                  <4> QED BY <4>1 DEF Written, Esc
            <3> QED BY <3>1, NoCommandAssumption DEF Concerns
      <2>3. Untouched(c) => executed[c] = "No" /\ \A k \in DOMAIN tx : Concerns(tx[k]) # c
            BY <2>2 DEF Untouched, OnWire
      <2> QED BY <2>1, <2>3 DEF Record, Honest
<1> QED BY <1>1 DEF Truthful

\* The outcomes tell the truth (link.rs:134-144): Ok and Failed are what the modem
\* made of the command, and a command reported NotSent was never seen by the modem and
\* never will be; for any commands and faults, as long as probe numbers are fresh.
THEOREM TruthfulAlways == Spec /\ []NoncesFresh => []Truthful
<1>1. TypeOK /\ Record => Truthful
      BY RecordTruthful
<1> QED BY <1>1, TypeCorrect, RecordAlways, PTL

\* A final code is credited to the command that it belongs to.
LEMMA OwnReplyStep ==
    ASSUME TypeOK, TypeOK', OwnReply, Answering
    PROVE  OwnReply'
<1>1. ASSUME NEW i \in DOMAIN replies'
      PROVE  /\ replies'[i].outcome \in {"Ok", "Failed"} => replies'[i].source = replies'[i].id
             /\ replies'[i].outcome = "Ok" => replies'[i].info = {replies'[i].id}
      <2>1. CASE i \in DOMAIN replies
            BY <2>1 DEF Answering, OwnReply
      <2>2. CASE i \notin DOMAIN replies
            <3>1. i > Len(replies)
                  BY <2>2, FrontNow, FrontNext
            <3> QED BY <3>1 DEF Answering, Given
      <2> QED BY <2>1, <2>2
<1> QED BY <1>1 DEF OwnReply

\* No command is ever given another's final code or info lines (link.rs:39-40), as
\* long as probe numbers are fresh.
THEOREM OwnReplyAlways == Spec /\ []NoncesFresh => []OwnReply
<1>1. Init => OwnReply
      BY DEF Init, OwnReply
<1>2. TypeOK /\ TypeOK' /\ OneReply /\ Sync /\ Record /\ OwnReply /\ [Next]_vars => OwnReply'
      BY StepGives, OwnReplyStep DEF OneReply, Record
<1> QED BY <1>1, <1>2, TypeCorrect, OneReplyAlways, SyncAlways, RecordAlways, PTL DEF Spec

-----------------------------------------------------------------------------
(* Message texts *)

\* The command in flight awaits its prompt, or ESC cancels it.
Cancels == \A i \in DOMAIN tx :
    tx[i].t = "Cmd" /\ tx[i].of \in Payloads /\ ~pulse /\ faults["write"] = 0 =>
        \/ i = Len(tx) /\ state = "Ready" /\ inFlight = tx[i].of /\ ~payloadSent
        \/ i + 1 \in DOMAIN tx /\ tx[i + 1].t = "Esc"
Prompted == input # NoCommand /\ ~pulse /\ faults["write"] = 0 =>
        \/ state = "Ready" /\ inFlight = input /\ ~payloadSent /\ tx = <<>>
        \/ tx # <<>> /\ Head(tx).t \in {"Payload", "Esc"}
SameText == \A t \in texts : t[1] = t[2]

\* No write failed, and no switch-off is under way.
Clean == ~pulse /\ faults["write"] = 0

\* A modem that is not on waits for no text.
Deaf == power # "On" => input = NoCommand

\* The invariant on message texts
Texts == Cancels /\ Prompted /\ SameText /\ Deaf

LEMMA WriteFaults ==
    ASSUME TypeOK, UNCHANGED faults \/ Suffer("late") \/ Suffer("loss") \/ Suffer("restart")
    PROVE  faults'["write"] = faults["write"]
<1>1. faults \in [Fault -> Nat]
      BY AllowedAssumption DEF TypeOK
<1> QED BY <1>1 DEF Suffer, Fault

LEMMA EmitFaults ==
    ASSUME TypeOK, NEW s, Emit(s)
    PROVE  faults'["write"] = faults["write"]
BY WriteFaults DEF Emit

\* The modem takes or loses the first thing on the wire.
LEMMA CancelsTail ==
    ASSUME TypeOK, Cancels, tx # <<>>, tx' = Tail(tx),
           UNCHANGED <<state, inFlight, payloadSent>>, Clean' => Clean
    PROVE  Cancels'
<1>1. /\ Len(tx) \in Nat /\ DOMAIN tx = 1 .. Len(tx) /\ DOMAIN tx' = 1 .. Len(tx) - 1
      /\ Len(tx') = Len(tx) - 1 /\ \A i \in 1 .. Len(tx) - 1 : tx'[i] = tx[i + 1]
      BY Shifted DEF TypeOK
<1>2. ASSUME NEW i \in DOMAIN tx', tx'[i].t = "Cmd", tx'[i].of \in Payloads, Clean'
      PROVE  \/ i = Len(tx') /\ state = "Ready" /\ inFlight = tx'[i].of /\ ~payloadSent
             \/ i + 1 \in DOMAIN tx' /\ tx'[i + 1].t = "Esc"
      <2>1. i + 1 \in DOMAIN tx /\ tx'[i] = tx[i + 1] /\ i \in Nat
            BY <1>1
      <2>2. \/ i + 1 = Len(tx) /\ state = "Ready" /\ inFlight = tx[i + 1].of /\ ~payloadSent
            \/ i + 1 + 1 \in DOMAIN tx /\ tx[i + 1 + 1].t = "Esc"
            BY <1>2, <2>1 DEF Cancels, Clean
      <2>3. i + 1 + 1 \in DOMAIN tx => i + 1 \in DOMAIN tx' /\ tx'[i + 1] = tx[i + 1 + 1]
            BY <1>1, <2>1
      <2> QED BY <1>1, <2>1, <2>2, <2>3
<1> QED BY <1>2 DEF Cancels, Clean

\* The engine writes no command: whatever waited for a prompt keeps its ESC.
LEMMA ProbeTexts ==
    ASSUME TypeOK, Cancels, Prompted, NEW first \in {<<>>, <<Esc>>}, StartProbe(first),
           first = <<>> => ~(state = "Ready" /\ inFlight \in Payloads /\ ~payloadSent),
           input' = input, Clean' => Clean
    PROVE  Cancels' /\ Prompted'
<1> DEFINE e == Esc
           p == Probe(NextNonce)
<1>0. NextNonce \in Nonces
      BY NoncesAssumption DEF NextNonce, Nonces, TypeOK, EngineType
<1>1. /\ e \in Written /\ e.t = "Esc"
      /\ p \in Written /\ p.t = "Probe"
      /\ tx \in Seq(Written) /\ DOMAIN tx = 1 .. Len(tx) /\ Len(tx) \in Nat
      BY <1>0 DEF TypeOK, Written, Esc, Probe
<1>2. tx' = tx \o first \o <<p>> /\ (first = <<>> \/ first = <<e>>)
      BY DEF StartProbe
<1> HIDE DEF e, p
<1>3. <<p>> \in Seq(Written) /\ <<e>> \in Seq(Written) /\ <<e, p>> \in Seq(Written)
      BY <1>1, ShortSequences
<1>4. PICK more \in Seq(Written) :
         /\ tx' = tx \o more
         /\ \A j \in DOMAIN more : more[j].t \in {"Esc", "Probe"}
         /\ first # <<>> => 1 \in DOMAIN more /\ more[1].t = "Esc"
      <2>1. CASE first = <<>>
            <3> DEFINE more == <<p>>
            <3>1. tx' = tx \o more
                  BY <1>1, <1>2, <2>1, ConcatEmptySeq
            <3>2. more \in Seq(Written) /\ DOMAIN more = 1 .. 1 /\ more[1] = p
                  BY <1>1, Shorts
            <3> HIDE DEF more
            <3> QED BY <1>1, <2>1, <3>1, <3>2
      <2>2. CASE first = <<e>>
            <3> DEFINE more == <<e, p>>
            <3>1. (tx \o <<e>>) \o <<p>> = tx \o (<<e>> \o <<p>>)
                  BY <1>1, <1>3, ConcatAssociative
            <3>2. tx' = tx \o more
                  BY <1>1, <1>2, <2>2, <3>1, Pair
            <3>3. more \in Seq(Written) /\ DOMAIN more = 1 .. 2 /\ more[1] = e /\ more[2] = p
                  BY <1>1, Shorts
            <3> HIDE DEF more
            <3>4. \A j \in DOMAIN more : more[j].t \in {"Esc", "Probe"}
                  BY <1>1, <3>3
            <3>5. 1 \in DOMAIN more /\ more[1].t = "Esc"
                  BY <1>1, <3>3
            <3> QED BY <3>2, <3>3, <3>4, <3>5
      <2> QED BY <1>2, <2>1, <2>2
<1>5. /\ DOMAIN more = 1 .. Len(more) /\ Len(more) \in Nat
      /\ DOMAIN tx' = 1 .. Len(tx) + Len(more)
      /\ \A i \in 1 .. Len(tx) : tx'[i] = tx[i]
      /\ \A i \in 1 .. Len(tx) + Len(more) : i > Len(tx) =>
            i - Len(tx) \in 1 .. Len(more) /\ tx'[i] = more[i - Len(tx)]
      BY <1>1, <1>4, Joined
<1>6. first # <<>> => Len(tx) + 1 \in DOMAIN tx' /\ tx'[Len(tx) + 1].t = "Esc"
      <2> SUFFICES ASSUME first # <<>>
                   PROVE  Len(tx) + 1 \in DOMAIN tx' /\ tx'[Len(tx) + 1].t = "Esc"
          OBVIOUS
      <2>1. 1 \in 1 .. Len(more) /\ more[1].t = "Esc"
            BY <1>4, <1>5
      <2>2. (Len(tx) + 1) - Len(tx) = 1 /\ Len(tx) + 1 \in 1 .. Len(tx) + Len(more)
            BY <1>1, <1>5, <2>1
      <2>3. Len(tx) + 1 \in DOMAIN tx' /\ Len(tx) + 1 > Len(tx)
            BY <1>1, <1>5, <2>2
      <2>4. tx'[Len(tx) + 1] = more[(Len(tx) + 1) - Len(tx)]
            BY <1>5, <2>2, <2>3
      <2> QED BY <2>1, <2>2, <2>3, <2>4
<1>7. ASSUME NEW i \in DOMAIN tx', tx'[i].t = "Cmd", tx'[i].of \in Payloads, Clean'
      PROVE  i + 1 \in DOMAIN tx' /\ tx'[i + 1].t = "Esc"
      <2>1. i \in DOMAIN tx /\ tx'[i] = tx[i] /\ i \in Nat
            <3>1. i \in 1 .. Len(tx) + Len(more) /\ Len(tx) \in Nat /\ DOMAIN tx = 1 .. Len(tx)
                  BY <1>1, <1>5
            <3>2. ~(i > Len(tx))
                  <4> SUFFICES ASSUME i > Len(tx) PROVE FALSE
                      OBVIOUS
                  <4>1. i - Len(tx) \in DOMAIN more /\ tx'[i] = more[i - Len(tx)]
                        BY <1>5, <3>1
                  <4>2. tx'[i].t \in {"Esc", "Probe"}
                        BY <1>4, <4>1
                  <4> QED BY <1>7, <4>2
            <3> QED BY <1>5, <3>1, <3>2
      <2>2. \/ i = Len(tx) /\ state = "Ready" /\ inFlight = tx[i].of /\ ~payloadSent
            \/ i + 1 \in DOMAIN tx /\ tx[i + 1].t = "Esc"
            BY <1>7, <2>1 DEF Cancels, Clean
      <2>3. i + 1 \in DOMAIN tx => i + 1 \in DOMAIN tx' /\ tx'[i + 1] = tx[i + 1]
            BY <1>1, <1>5
      <2> QED BY <1>6, <1>7, <2>1, <2>2, <2>3
<1>8. ASSUME input # NoCommand, Clean'
      PROVE  tx' # <<>> /\ Head(tx').t \in {"Payload", "Esc"}
      <2>1. CASE state = "Ready" /\ inFlight = input /\ ~payloadSent /\ tx = <<>>
            <3>1. first # <<>>
                  BY <1>8, <2>1 DEF TypeOK, ModemType
            <3>2. 1 \in DOMAIN tx' /\ tx'[1].t = "Esc"
                  BY <1>6, <2>1, <3>1
            <3> QED BY <3>2
      <2>2. CASE tx # <<>> /\ Head(tx).t \in {"Payload", "Esc"}
            <3>1. 1 \in DOMAIN tx' /\ tx'[1] = tx[1] /\ Head(tx) = tx[1]
                  BY <1>1, <1>5, <2>2
            <3> QED BY <2>2, <3>1
      <2> QED BY <1>8, <2>1, <2>2 DEF Prompted, Clean
<1> QED BY <1>7, <1>8 DEF Cancels, Prompted, Clean

LEMMA UnsyncTexts ==
    ASSUME TypeOK, Cancels, Prompted, Unsync, input' = input, Clean' => Clean
    PROVE  Cancels' /\ Prompted'
<1> DEFINE first == IF inFlight \in Payloads /\ ~payloadSent THEN <<Esc>> ELSE <<>>
<1>1. /\ first \in {<<>>, <<Esc>>} /\ StartProbe(first)
      /\ inFlight \in Payloads /\ ~payloadSent => first = <<Esc>>
      BY DEF Unsync
<1>2. <<Esc>> # <<>>
      OBVIOUS
<1> HIDE DEF first
<1> QED BY <1>1, <1>2, ProbeTexts

\* A command is sent on a wire that holds none.
LEMMA PumpTexts ==
    ASSUME TypeOK, OnlyEsc, input' = NoCommand, NEW q \in Seq(Commands), Pump(q)
    PROVE  Cancels' /\ Prompted'
<1>1. Prompted'
      BY DEF Prompted
<1>2. CASE q = <<>>
      <2>1. tx' = tx
            BY <1>2 DEF Pump
      <2> QED BY <1>1, <2>1 DEF OnlyEsc, Cancels
<1>3. CASE q # <<>>
      <2> DEFINE h == Head(q)
                 x == Cmd(h)
      <2>1. /\ x.of = h /\ x \in Written /\ inFlight' = h /\ tx' = Append(tx, x)
            /\ state' = "Ready" /\ ~payloadSent'
            BY <1>3, HeadTailType DEF Pump, Cmd, Written
      <2> HIDE DEF x, h
      <2>2. /\ DOMAIN tx = 1 .. Len(tx) /\ DOMAIN tx' = 1 .. Len(tx) + 1 /\ Len(tx) \in Nat
            /\ Len(tx') = Len(tx) + 1
            /\ tx'[Len(tx) + 1] = x /\ \A i \in 1 .. Len(tx) : tx'[i].t = "Esc"
            BY <2>1, Appended DEF OnlyEsc, TypeOK
      <2>3. \A i \in DOMAIN tx' : tx'[i].t = "Cmd" => i = Len(tx') /\ tx'[i].of = h
            BY <2>1, <2>2
      <2> QED BY <1>1, <2>1, <2>3 DEF Cancels
<1> QED BY <1>1, <1>2, <1>3

LEMMA KeptTexts ==
    ASSUME Cancels, Prompted, UNCHANGED <<tx, input, state, inFlight, payloadSent>>, Clean' => Clean
    PROVE  Cancels' /\ Prompted'
BY DEF Cancels, Prompted, Clean

LEMMA DirtyTexts ==
    ASSUME ~Clean'
    PROVE  Cancels' /\ Prompted'
BY DEF Cancels, Prompted, Clean

LEMMA CallsTexts ==
    ASSUME TypeOK, Sync, Texts, Calls
    PROVE  Cancels' /\ Prompted'
<1>1. ASSUME NEW c \in Commands, Submit(c) PROVE Cancels' /\ Prompted'
      <2>1. input' = input /\ Clean' = Clean
            BY <1>1 DEF Submit, modemVars, Clean
      <2>2. CASE state = "Ready" /\ inFlight = NoCommand
            <3> DEFINE q == Append(queue, c)
            <3>1. q \in Seq(Commands)
                  BY DEF TypeOK, EngineType
            <3>2. Pump(q)
                  BY <1>1, <2>2 DEF Submit
            <3> HIDE DEF q
            <3> QED BY <2>1, <2>2, <3>1, <3>2, PumpTexts DEF Sync, Rests
      <2>3. CASE ~(state = "Ready" /\ inFlight = NoCommand)
            <3>1. UNCHANGED <<tx, state, inFlight, payloadSent>>
                  BY <1>1, <2>3 DEF Submit
            <3> QED BY <2>1, <3>1, KeptTexts DEF Texts
      <2> QED BY <2>2, <2>3
<1>2. CASE CommandTimeout \/ ProbeTimeout
      <2>1. input' = input /\ (Clean' => Clean)
            BY <1>2, WriteFaults DEF CommandTimeout, ProbeTimeout, Deadline, modemVars, Clean
      <2>2. Unsync \/ (state = "Syncing" /\ StartProbe(<<>>))
            BY <1>2 DEF CommandTimeout, ProbeTimeout
      <2> QED BY <2>1, <2>2, UnsyncTexts, ProbeTexts DEF Texts
<1>3. CASE Reset \/ PowerOn
      <2>1. Unsync /\ input' = input /\ Clean' = Clean
            BY <1>3 DEF Reset, PowerOn, modemVars, Clean
      <2> QED BY <2>1, UnsyncTexts DEF Texts
<1>4. CASE PowerOff
      <2>1. ~Clean'
            BY <1>4 DEF PowerOff, SwitchOff, Clean
      <2> QED BY <2>1, DirtyTexts
<1> QED BY <1>1, <1>2, <1>3, <1>4 DEF Calls

LEMMA ReceiveTexts ==
    ASSUME TypeOK, Placed, Sync, Texts, Receive
    PROVE  Cancels' /\ Prompted'
<1>1. input' = input /\ Clean' = Clean /\ rx # <<>>
      BY DEF Receive, OnReadBack, OnFinal, OnInfo, OnPrompt, OnAtReady, OnLost, Take, modemVars, Clean
<1>2. CASE OnReadBack \/ OnInfo \/ OnAtReady
      <2>1. UNCHANGED <<tx, state, inFlight, payloadSent>>
            BY <1>2 DEF OnReadBack, OnInfo, OnAtReady, engineVars
      <2> QED BY <1>1, <2>1, KeptTexts DEF Texts
<1>3. CASE OnLost
      <2>1. \/ UNCHANGED <<tx, state, inFlight, payloadSent>>
            \/ Unsync
            \/ state = "Syncing" /\ StartProbe(<<>>)
            BY <1>3 DEF OnLost, engineVars
      <2> QED BY <1>1, <2>1, KeptTexts, UnsyncTexts, ProbeTexts DEF Texts
<1>4. CASE OnFinal
      <2>0. queue \in Seq(Commands) /\ Head(rx).t = "Final"
            BY <1>4 DEF TypeOK, EngineType, OnFinal, Take
      <2>1. CASE state = "Ready"
            <3>1. inFlight # NoCommand /\ OnlyEsc /\ input = NoCommand
                  BY <1>4, <2>1, FinalOwn
            <3>2. Pump(queue)
                  BY <1>4, <2>1, <3>1 DEF OnFinal
            <3> QED BY <1>1, <2>0, <3>1, <3>2, PumpTexts
      <2>2. CASE state = "Syncing" /\ readBack
            <3>1. Head(rx).ok = TRUE /\ OnlyEsc /\ input = NoCommand
                  BY <1>1, <2>0, <2>2, SyncingHead
            <3>2. Pump(queue)
                  BY <1>4, <2>2, <3>1 DEF OnFinal
            <3> QED BY <1>1, <2>0, <3>1, <3>2, PumpTexts
      <2>3. CASE state = "Off" \/ (state = "Syncing" /\ ~readBack)
            <3>1. UNCHANGED <<tx, state, inFlight, payloadSent>>
                  BY <1>4, <2>3 DEF OnFinal, engineVars
            <3> QED BY <1>1, <3>1, KeptTexts DEF Texts
      <2> QED BY <2>1, <2>2, <2>3 DEF TypeOK, EngineType
<1>5. CASE OnPrompt
      <2>0. UNCHANGED <<state, inFlight>> /\ Head(rx).t = "Prompt"
            BY <1>5 DEF OnPrompt, Take
      <2>1. CASE state = "Ready"
            <3>1. inFlight # NoCommand /\ Waiting /\ Expected(1) /\ rx[1].t = "Prompt"
                  BY <1>1, <2>0, <2>1, ReadyHead
            <3>2. inFlight \in Payloads /\ ~payloadSent /\ tx = <<>>
                  BY <3>1 DEF Expected, Waiting
            <3> DEFINE x == Payload(inFlight)
            <3>3. tx' = <<x>> /\ x.t = "Payload"
                  BY <1>5, <2>1, <3>2 DEF OnPrompt, Payload
            <3> HIDE DEF x
            <3>4. DOMAIN tx' = 1 .. 1 /\ tx'[1] = x /\ Head(tx') = x /\ tx' # <<>>
                  BY <3>3
            <3>5. \A i \in DOMAIN tx' : tx'[i].t # "Cmd"
                  BY <3>3, <3>4
            <3> QED BY <3>3, <3>4, <3>5 DEF Cancels, Prompted
      <2>2. CASE state # "Ready"
            <3> DEFINE e == Esc
            <3>1. tx' = Append(tx, e) /\ e.t = "Esc" /\ e \in Written
                  BY <1>5, <2>2 DEF OnPrompt, Esc, Written
            <3> HIDE DEF e
            <3>2. /\ DOMAIN tx = 1 .. Len(tx) /\ DOMAIN tx' = 1 .. Len(tx) + 1 /\ Len(tx) \in Nat
                  /\ tx'[Len(tx) + 1] = e /\ \A i \in 1 .. Len(tx) : tx'[i] = tx[i]
                  BY <3>1, Appended DEF TypeOK
            <3>3. ASSUME NEW i \in DOMAIN tx', tx'[i].t = "Cmd", tx'[i].of \in Payloads, Clean
                  PROVE  i + 1 \in DOMAIN tx' /\ tx'[i + 1].t = "Esc"
                  <4>1. i \in DOMAIN tx /\ tx'[i] = tx[i] /\ i \in Nat
                        BY <3>1, <3>2, <3>3
                  <4>2. i + 1 \in DOMAIN tx /\ tx[i + 1].t = "Esc"
                        BY <2>2, <3>3, <4>1 DEF Texts, Cancels, Clean
                  <4> QED BY <3>2, <4>1, <4>2
            <3>4. ASSUME input # NoCommand, Clean
                  PROVE  tx' # <<>> /\ Head(tx').t \in {"Payload", "Esc"}
                  <4>1. tx # <<>> /\ Head(tx).t \in {"Payload", "Esc"}
                        BY <2>2, <3>4 DEF Texts, Prompted, Clean
                  <4>2. 1 \in DOMAIN tx' /\ tx'[1] = tx[1] /\ Head(tx) = tx[1]
                        BY <3>2, <4>1
                  <4> QED BY <4>1, <4>2
            <3> QED BY <1>1, <3>3, <3>4 DEF Cancels, Prompted, Clean
      <2> QED BY <2>1, <2>2
<1> QED BY <1>2, <1>3, <1>4, <1>5 DEF Receive

LEMMA ExecuteTexts ==
    ASSUME TypeOK, Sync, Texts, Execute
    PROVE  Cancels' /\ Prompted'
<1> DEFINE c == Head(tx).of
<1>1. /\ tx # <<>> /\ Head(tx).t = "Cmd" /\ tx' = Tail(tx)
      /\ UNCHANGED <<state, inFlight, payloadSent, pulse>>
      BY DEF Execute, Consume, engineVars
<1>2. /\ c \in Commands /\ input = NoCommand /\ 1 \in DOMAIN tx /\ tx[1].t = "Cmd" /\ tx[1].of = c
      BY <1>1, HeadOfTx, WrittenFields
<1>3. Cancels'
      BY <1>1, AfterHead DEF Cancels
<1>4. CASE input' = NoCommand
      BY <1>3, <1>4 DEF Prompted
<1>5. CASE /\ c \in Payloads /\ input' = c /\ Emit(<<Prompt(c)>>)
      <2>1. Clean' => Clean
            BY <1>1, <1>5, EmitFaults DEF Clean
      <2>2. ASSUME Clean
            PROVE  \/ state = "Ready" /\ inFlight = c /\ ~payloadSent /\ tx' = <<>>
                   \/ tx' # <<>> /\ Head(tx').t \in {"Payload", "Esc"}
            <3>1. /\ Len(tx) \in Nat /\ DOMAIN tx = 1 .. Len(tx) /\ DOMAIN tx' = 1 .. Len(tx) - 1
                  /\ \A i \in 1 .. Len(tx) - 1 : tx'[i] = tx[i + 1]
                  /\ tx' \in Seq(Written) /\ Len(tx') = Len(tx) - 1
                  BY <1>1, Shifted DEF TypeOK
            <3>2. CASE 1 = Len(tx) /\ state = "Ready" /\ inFlight = tx[1].of /\ ~payloadSent
                  <4>0. Len(tx') = Len(tx) - 1 /\ Len(tx) = 1
                        BY <3>1, <3>2
                  <4>1. Len(tx') = 0
                        BY <4>0
                  <4>2. tx' = <<>>
                        BY <3>1, <4>1, EmptySeq
                  <4> QED BY <1>2, <3>2, <4>2
            <3>3. CASE 1 + 1 \in DOMAIN tx /\ tx[1 + 1].t = "Esc"
                  <4>1. 1 \in DOMAIN tx' /\ tx'[1] = tx[1 + 1]
                        BY <3>1, <3>3
                  <4> QED BY <3>3, <4>1
            <3>4. \/ 1 = Len(tx) /\ state = "Ready" /\ inFlight = tx[1].of /\ ~payloadSent
                  \/ 1 + 1 \in DOMAIN tx /\ tx[1 + 1].t = "Esc"
                  BY <1>2, <1>5, <2>2 DEF Texts, Cancels, Clean
            <3> QED BY <3>2, <3>3, <3>4
      <2> QED BY <1>1, <1>3, <1>5, <2>1, <2>2 DEF Prompted, Clean
<1> QED BY <1>2, <1>4, <1>5 DEF Execute, Typed

LEMMA ExternalTexts ==
    ASSUME TypeOK, Sync, Texts, External
    PROVE  Cancels' /\ Prompted'
<1>1. CASE AnswerProbe \/ TakePayload \/ TakeEsc
      <2>1. /\ tx # <<>> /\ tx' = Tail(tx) /\ UNCHANGED <<state, inFlight, payloadSent, pulse>>
            BY <1>1 DEF AnswerProbe, TakePayload, TakeEsc, Consume, engineVars
      <2>2. faults'["write"] = faults["write"]
            BY <1>1, EmitFaults DEF AnswerProbe, TakePayload, TakeEsc, Typed
      <2>3. Clean' => Clean
            BY <2>1, <2>2 DEF Clean
      <2>4. Cancels'
            BY <2>1, <2>3, CancelsTail DEF Texts
      <2>5. input' = NoCommand \/ (input' = input /\ Head(tx).t = "Probe")
            BY <1>1 DEF AnswerProbe, TakePayload, TakeEsc, Typed, Consume
      <2>6. CASE input' = NoCommand
            BY <2>4, <2>6 DEF Prompted
      <2>7. CASE input' = input /\ Head(tx).t = "Probe"
            BY <2>1, <2>3, <2>4, <2>7 DEF Texts, Prompted, Clean
      <2> QED BY <2>5, <2>6, <2>7
<1>2. CASE Ignore
      <2>1. /\ tx # <<>> /\ tx' = Tail(tx) /\ UNCHANGED <<state, inFlight, payloadSent>>
            /\ Clean' = Clean /\ input' = NoCommand
            BY <1>2 DEF Ignore, engineVars, modemVars, Clean, Texts, Deaf
      <2>2. Cancels'
            BY <2>1, CancelsTail DEF Texts
      <2> QED BY <2>1, <2>2 DEF Prompted
<1>3. CASE WriteFails
      <2>1. faults' = [faults EXCEPT !["write"] = @ + 1] /\ faults \in [Fault -> Nat]
            BY <1>3, AllowedAssumption DEF WriteFails, Suffer, TypeOK
      <2>2. ~Clean'
            BY <2>1 DEF Clean, Fault
      <2> QED BY <2>2, DirtyTexts
<1>4. CASE Booted
      <2>1. UNCHANGED <<tx, input, state, inFlight, payloadSent, pulse>>
            BY <1>4 DEF Booted, engineVars
      <2>2. Clean' => Clean
            BY <1>4, <2>1, EmitFaults DEF Booted, Clean
      <2> QED BY <2>1, <2>2, KeptTexts DEF Texts
<1>5. CASE Restart \/ ShutDown
      BY <1>5 DEF Restart, ShutDown, Forget, Cancels, Prompted
<1> QED BY <1>1, <1>2, <1>3, <1>4, <1>5, ExecuteTexts DEF External, Modem

\* A text goes to the command it belongs to; only a modem that is on waits for one.
LEMMA SameTextStep ==
    ASSUME TypeOK, Sync, Texts, [Next]_vars
    PROVE  SameText' /\ Deaf'
<1>1. CASE UNCHANGED vars
      BY <1>1 DEF vars, modemVars, Texts, SameText, Deaf
<1>2. CASE Calls
      <2>1. texts' = texts /\ input' = input /\ (power' = power \/ power = "Off")
            BY <1>2 DEF Calls, Submit, CommandTimeout, ProbeTimeout, Deadline, Reset, PowerOff,
               SwitchOff, PowerOn, modemVars
      <2> QED BY <2>1 DEF Texts, SameText, Deaf
<1>3. CASE Receive
      <2>1. UNCHANGED modemVars
            BY <1>3 DEF Receive, OnReadBack, OnFinal, OnInfo, OnPrompt, OnAtReady, OnLost, Take
      <2> QED BY <2>1 DEF Texts, SameText, Deaf, modemVars
<1>4. CASE TakePayload
      <2>1. tx # <<>> /\ Head(tx).t = "Payload" /\ power = "On" /\ power' = power
            BY <1>4 DEF TakePayload, Consume
      <2>2. input \in {Head(tx).of, NoCommand}
            BY <2>1, HeadOfTx
      <2>3. \/ texts' = texts
            \/ input # NoCommand /\ texts' = texts \cup {<<input, Head(tx).of>>}
            BY <1>4 DEF TakePayload
      <2> QED BY <2>1, <2>2, <2>3 DEF Texts, SameText, Deaf
<1>5. CASE Execute \/ AnswerProbe \/ TakeEsc
      <2>1. texts' = texts /\ power = "On" /\ power' = power
            BY <1>5 DEF Execute, AnswerProbe, TakeEsc, Consume, Typed
      <2> QED BY <2>1 DEF Texts, SameText, Deaf
<1>6. CASE Ignore \/ WriteFails \/ Booted
      <2>1. texts' = texts /\ input' = input /\ (power' = power \/ power' = "On")
            BY <1>6 DEF Ignore, WriteFails, Booted, modemVars
      <2> QED BY <2>1 DEF Texts, SameText, Deaf
<1>7. CASE Restart \/ ShutDown
      BY <1>7 DEF Restart, ShutDown, Forget, Texts, SameText, Deaf
<1> QED BY <1>1, <1>2, <1>3, <1>4, <1>5, <1>6, <1>7 DEF Next, External, Modem

\* Every step keeps Texts.
LEMMA TextsStep ==
    ASSUME TypeOK, Placed, Sync, Texts, [Next]_vars
    PROVE  Texts'
<1>1. Cancels' /\ Prompted'
      <2>1. CASE UNCHANGED vars
            BY <2>1, KeptTexts DEF vars, engineVars, modemVars, Texts, Clean
      <2> QED BY <2>1, CallsTexts, ReceiveTexts, ExternalTexts DEF Next
<1> QED BY <1>1, SameTextStep DEF Texts

\* As long as probe numbers are fresh, everything Texts says of messages holds: a
\* message command given up is cancelled by ESC before anything else is written.
THEOREM TextsAlways == Spec /\ []NoncesFresh => []Texts
<1>1. Init => Texts
      BY DEF Init, Texts, Cancels, Prompted, SameText, Deaf
<1>2. TypeOK /\ OneReply /\ Sync /\ Texts /\ [Next]_vars => Texts'
      BY TextsStep DEF OneReply
<1> QED BY <1>1, <1>2, TypeCorrect, OneReplyAlways, SyncAlways, PTL DEF Spec

\* Nothing of one command is taken for another's (link.rs:28-31, 39-40): neither a
\* final code, nor an info line, nor a text, and no command or probe is read as text
\* unless a write failed; as long as probe numbers are fresh.
THEOREM OwnAnswerAlways == Spec /\ []NoncesFresh => []OwnAnswer
<1>1. Texts => OwnText
      BY DEF Texts, SameText, Prompted, OwnText
<1>2. Texts /\ OwnReply => OwnAnswer
      BY <1>1 DEF OwnAnswer
<1> QED BY <1>2, TextsAlways, OwnReplyAlways, PTL

-----------------------------------------------------------------------------
(* The refinement of LinkPromise *)

\* The answers so far, as LinkPromise sees them
Answers == [i \in DOMAIN replies |-> replies[i].outcome]

AnswersMade ==
    /\ Answers \in Seq(Outcomes) /\ Len(Answers) = Len(replies) /\ Len(replies) \in Nat
    /\ DOMAIN Answers = 1 .. Len(replies)
    /\ \A i \in 1 .. Len(replies) : Answers[i] = replies[i].outcome

LEMMA AnswersHere == TypeOK => AnswersMade
<1> SUFFICES ASSUME TypeOK PROVE AnswersMade
    OBVIOUS
<1>1. replies \in Seq(Replies) /\ DOMAIN replies = 1 .. Len(replies) /\ Len(replies) \in Nat
      BY DEF TypeOK, EngineType
<1>2. ASSUME NEW i \in 1 .. Len(replies) PROVE replies[i].outcome \in Outcomes
      <2>1. replies[i] \in Replies
            BY <1>1
      <2> QED BY <2>1 DEF Replies
<1> QED BY <1>1, <1>2 DEF Answers, AnswersMade

LEMMA AnswersType ==
    ASSUME TypeOK
    PROVE  AnswersMade
BY AnswersHere

LEMMA AnswersNext ==
    ASSUME TypeOK'
    PROVE  AnswersMade'
BY AnswersHere, PTL

\* Each kind of step is one of LinkPromise.
LEMMA SubmitKeeps ==
    ASSUME TypeOK, TypeOK', Placed, NEW c \in Commands, Submit(c), New(c), Asked' = Append(Asked, c)
    PROVE  Promise!Ask(c) \/ Promise!Refuse(c)
<1>1. executed' = executed /\ Promise!Fresh(c)
      BY DEF Submit, modemVars, New, Promise!Fresh
<1>2. CASE state = "Off"
      <2> DEFINE r == NotSent(c)
      <2>1. r \in Replies /\ r.outcome = "NotSent"
            BY DEF NotSent, Reply, Replies, Outcomes, Sources
      <2>2. replies' = Append(replies, r) /\ inFlight = NoCommand /\ queue = <<>>
            BY <1>2, NoCommandAssumption DEF Submit, Placed
      <2> HIDE DEF r
      <2>3. /\ Len(replies') = Len(replies) + 1 /\ replies'[Len(replies) + 1] = r
            /\ \A i \in 1 .. Len(replies) : replies'[i] = replies[i]
            BY <2>1, <2>2, Appended DEF TypeOK, EngineType
      <2> DEFINE b == Append(Answers, "NotSent")
      <2>4. /\ b \in Seq(Outcomes) /\ Len(b) = Len(replies) + 1
            /\ b[Len(replies) + 1] = "NotSent"
            /\ \A i \in 1 .. Len(replies) : b[i] = Answers[i]
            BY AnswersType, Appended DEF Outcomes, AnswersMade
      <2>5. \A i \in 1 .. Len(replies') : Answers'[i] = b[i]
            BY <2>1, <2>3, <2>4, AnswersType, AnswersNext DEF AnswersMade
      <2>6. Answers' = b
            <3> HIDE DEF b
            <3> QED BY <2>3, <2>4, <2>5, AnswersNext, SeqEqual DEF AnswersMade
      <2>7. Len(Asked) = Len(replies)
            <3>1. Asked \in Seq(Commands) /\ Front + Len(queue) = Len(replies)
                  BY <2>2, PendingType, FrontNow
            <3>2. DOMAIN Asked = 1 .. Len(replies) /\ Len(replies) \in Nat
                  BY <3>1, Places DEF AskedPlaces
            <3> QED BY <3>1, <3>2
      <2>8. Len(Answers) = Len(Asked)
            BY <2>7, AnswersType DEF AnswersMade
      <2> QED BY <1>1, <2>6, <2>8 DEF Promise!Refuse, Answers
<1>3. CASE state # "Off"
      <2>1. replies' = replies
            BY <1>3 DEF Submit
      <2> QED BY <1>1, <2>1 DEF Promise!Ask
<1> QED BY <1>2, <1>3

\* The modem runs a command: it is the one in flight, or one given up as Unknown.
LEMMA RunKeeps ==
    ASSUME TypeOK, Record, NEW c \in Commands, NEW r \in {"Ok", "Failed"}, Runs(c, r)
    PROVE  \E i \in DOMAIN Asked : Promise!Execute(i)
<1>1. PICK i \in DOMAIN Asked : Asked[i] = c
      BY DEF Runs, Record, Unasked, Untouched, New
<1>2. /\ Asked \in Seq(Commands) /\ DOMAIN Asked = 1 .. Len(Asked) /\ i \in Nat
      BY PendingType
<1>3. executed[Asked[i]] = "No"
      BY <1>1 DEF Runs, Record, Alive
<1>4. i <= Len(Answers) + 1
      BY <1>1, <1>2, FrontNow, AnswersType DEF Runs, Record, Later, Untouched, AnswersMade
<1>5. i <= Len(Answers) => Answers[i] = "Unknown"
      <2> SUFFICES ASSUME i <= Len(Answers) PROVE Answers[i] = "Unknown"
          OBVIOUS
      <2>1. i \in 1 .. Len(replies) /\ i \in DOMAIN replies
            BY <1>2, AnswersType, FrontNow DEF AnswersMade
      <2> QED BY <1>1, <2>1, AnswersType DEF Runs, Record, Alive, AnswersMade
<1>6. \A j \in i + 1 .. Len(Asked) : executed[Asked[j]] = "No"
      <2>1. ASSUME NEW j \in i + 1 .. Len(Asked) PROVE j \in DOMAIN Asked /\ j > i
            BY <1>2, <2>1
      <2> QED BY <1>1, <2>1 DEF Runs, Record, Alive
<1>7. /\ executed' = [executed EXCEPT ![Asked[i]] = r]
      /\ Asked' = Asked /\ replies' = replies
      BY <1>1 DEF Runs, Asked, Pending
<1> QED BY <1>3, <1>4, <1>5, <1>6, <1>7 DEF Promise!Execute, Answers

\* The engine answers one or more commands, or none.
LEMMA AnswerKeeps ==
    ASSUME TypeOK, TypeOK', Record, Answering, Asked' = Asked, executed' = executed
    PROVE  (\E i \in DOMAIN Asked : Promise!Answer(i)) \/ UNCHANGED Promise!vars
<1> DEFINE n == Len(replies)
           m == Len(replies')
<1>1. /\ n \in Nat /\ m \in Nat /\ DOMAIN replies = 1 .. n /\ DOMAIN replies' = 1 .. m
      /\ Len(Answers) = n /\ DOMAIN Answers = 1 .. n
      /\ DOMAIN Answers' = 1 .. m
      /\ \A i \in 1 .. n : Answers[i] = replies[i].outcome
      /\ \A i \in 1 .. m : Answers'[i] = replies'[i].outcome /\ Answers'[i] \in Outcomes
      <2>1. \A i \in 1 .. m : Answers'[i] \in Outcomes
            BY AnswersNext, ElementOfSeq DEF AnswersMade
      <2> QED BY <2>1, FrontNow, FrontNext, AnswersType, AnswersNext DEF AnswersMade
<1> HIDE DEF n, m
<1>2. n <= m
      <2>1. n = 0 \/ n \in 1 .. n
            BY <1>1
      <2> QED BY <1>1, <2>1 DEF Answering
<1>3. \A i \in 1 .. n : Answers'[i] = Answers[i]
      <2>1. \A i \in 1 .. n : i \in 1 .. m /\ replies'[i] = replies[i]
            BY <1>1 DEF Answering
      <2> QED BY <1>1, <2>1
<1>4. CASE m = n
      <2>1. replies' = replies
            <3>1. replies \in Seq(Replies) /\ replies' \in Seq(Replies) /\ Len(replies) = Len(replies')
                  BY <1>4 DEF n, m, TypeOK, EngineType
            <3>2. \A i \in 1 .. Len(replies) : replies'[i] = replies[i]
                  BY <1>1 DEF n, Answering
            <3> QED BY <3>1, <3>2, SeqEqual
      <2> QED BY <2>1 DEF Promise!vars
<1>5. CASE m # n
      <2> DEFINE o == [i \in n + 1 .. m |-> Answers'[i]]
      <2>1. o \in [n + 1 .. m -> Outcomes]
            <3>1. \A i \in n + 1 .. m : i \in 1 .. m
                  BY <1>1
            <3> QED BY <1>1, <3>1
      <2>2. m \in n + 1 .. Len(Asked) /\ m \in DOMAIN Asked
            <3>1. Asked \in Seq(Commands) /\ DOMAIN Asked = 1 .. Len(Asked) /\ Len(Asked) \in Nat
                  BY PendingType
            <3>2. m \in 1 .. m /\ m > n
                  BY <1>1, <1>2, <1>5
            <3>3. m \in DOMAIN Asked'
                  <4>1. DOMAIN Asked' = 1 .. Front' + Len(queue') /\ Front' \in Nat /\ Len(queue') \in Nat
                        BY PlacesNext DEF AskedPlaces
                  <4>2. Front' >= m
                        BY FrontNext DEF m
                  <4> QED BY <1>1, <3>2, <4>1, <4>2
            <3> QED BY <1>1, <3>1, <3>2, <3>3
      <2>3. ASSUME NEW i \in n + 1 .. m PROVE Promise!Truth(i, Answers'[i])
            <3>1. i \in DOMAIN replies' /\ i > Len(replies) /\ Answers'[i] = replies'[i].outcome
                  BY <1>1, <2>3 DEF n
            <3>2. Given(i)
                  BY <3>1 DEF Answering
            <3>3. i \in DOMAIN Asked /\ Asked[i] = replies'[i].id
                  BY <1>1, <3>1, PlacesNext DEF AskedPlaces
            <3>4. CASE Answers'[i] = "Unknown"
                  BY <3>4 DEF Promise!Truth
            <3>5. CASE Answers'[i] = "NotSent" /\ i > Front
                  <4>1. executed[Asked[i]] = "No"
                        BY <3>3, <3>5 DEF Record, Later, Untouched
                  <4> QED BY <3>5, <4>1 DEF Promise!Truth
            <3>6. CASE /\ Answers'[i] \in {"Ok", "Failed"} /\ replies'[i].id = inFlight
                       /\ Answers'[i] = executed[inFlight]
                  <4>1. executed[Asked[i]] = Answers'[i]
                        BY <3>3, <3>6
                  <4> QED BY <3>6, <4>1 DEF Promise!Truth
            <3> QED BY <3>1, <3>2, <3>4, <3>5, <3>6 DEF Given
      <2>4. \A i \in DOMAIN o : Promise!Truth(i, o[i])
            BY <2>3
      <2> DEFINE all == [i \in 1 .. m |-> IF i \in DOMAIN Answers THEN Answers[i] ELSE o[i]]
      <2>5. Answers' = all
            <3>1. \A i \in 1 .. m : Answers'[i] = all[i]
                  BY <1>1, <1>2, <1>3
            <3>2. Answers' = [i \in 1 .. m |-> Answers'[i]]
                  BY <1>1 DEF Answers
            <3> QED BY <3>1, <3>2
      <2> HIDE DEF o
      <2>6. PICK u \in DOMAIN Asked : u = m
            BY <2>2
      <2>7. Promise!Answer(u)
            <3>1. o \in [Len(Answers) + 1 .. u -> {"Ok", "Failed", "Unknown", "NotSent"}]
                  BY <1>1, <2>1, <2>6 DEF Outcomes
            <3>2. u \in Len(Answers) + 1 .. Len(Asked)
                  BY <1>1, <2>2, <2>6
            <3>3. Answers' = [i \in 1 .. u |-> IF i \in DOMAIN Answers THEN Answers[i] ELSE o[i]]
                  BY <2>5, <2>6
            <3> QED BY <2>4, <3>1, <3>2, <3>3 DEF Promise!Answer, Answers
      <2> QED BY <2>7
<1> QED BY <1>4, <1>5

\* Every step of AtLink is a step of LinkPromise, or a stuttering one.
LEMMA StepKeeps ==
    ASSUME TypeOK, TypeOK', Placed, Sync, Record, [Next]_vars
    PROVE  [Promise!Next]_Promise!vars
<1>1. Moving /\ Answering
      BY StepMoves, StepGives DEF Record
<1>2. ASSUME NEW c \in Commands, NEW r \in {"Ok", "Failed"}, Runs(c, r)
      PROVE  Promise!Next
      BY <1>2, RunKeeps DEF Promise!Next
<1>3. CASE executed' = executed /\ Asked' = Asked
      BY <1>1, <1>3, AnswerKeeps DEF Promise!Next
<1>4. ASSUME NEW c \in Commands, Submit(c), New(c), Asked' = Append(Asked, c)
      PROVE  Promise!Next
      BY <1>4, SubmitKeeps DEF Promise!Next
<1>5. NoMore \/ Puts => executed' = executed
      BY DEF NoMore, Puts
<1> QED BY <1>1, <1>2, <1>3, <1>4, <1>5, AskedStep DEF Moving

\* The engine, the wires and the modem implement LinkPromise (link.rs:34-45): every
\* command is answered once, in the order of submission, truthfully, and commands run one
\* at a time; for any commands and faults, as long as probe numbers are fresh.
THEOREM PromiseKept == Spec /\ []NoncesFresh => KeepsPromise
<1>1. Init => Promise!Init
      <2> SUFFICES ASSUME Init PROVE Promise!Init
          OBVIOUS
      <2>1. replies = <<>> /\ inFlight = NoCommand /\ queue = <<>> /\ executed = [c \in Commands |-> "No"]
            BY DEF Init
      <2>2. Ids(replies) = <<>> /\ Answers = <<>>
            BY <2>1 DEF Ids, Answers
      <2>3. Asked = <<>>
            BY <2>1, <2>2 DEF Asked, Pending
      <2> QED BY <2>1, <2>2, <2>3 DEF Promise!Init, Answers
<1>2. TypeOK /\ TypeOK' /\ OneReply /\ Sync /\ Record /\ [Next]_vars => [Promise!Next]_Promise!vars
      BY StepKeeps DEF OneReply
<1> QED BY <1>1, <1>2, TypeCorrect, OneReplyAlways, SyncAlways, RecordAlways, PTL
        DEF Spec, KeepsPromise, Promise!Spec

\* All of this without the hypothesis on probe numbers, for runs with fewer faults
\* than there are numbers: a Ready link is drained, answers and texts go where they
\* belong, outcomes are true, and the link keeps its promise (link.rs:18-45).
THEOREM ShortRunsKeepIt ==
    ASSUME FewFaults
    PROVE  Spec => [](Drained /\ OwnAnswer /\ Truthful) /\ KeepsPromise
<1>1. Spec => []NoncesFresh
      BY NoncesStayFresh
<1> QED BY <1>1, DrainedAlways, OwnAnswerAlways, TruthfulAlways, PromiseKept, PTL
=============================================================================
