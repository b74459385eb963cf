----------------------------- MODULE HandsetProofs -----------------------------
(* Proofs about the handset, for every keyboard, network, SIM and flash, and any
   session typed at it, however it is typed and whatever fails.

   Asleep, both radios are off.  The main thread falls asleep only while it is
   locked and at no job, and the lock starts the one job that switches the radios
   off.  So the invariant follows that job: what is still on has a step left that
   switches it off, and no step left can fail.  That the driver knows whether the
   modem is on, and that no program pulses PWRKEY at a modem that is off, is the
   other half.

   And every key reaches the kernel as it was typed.  The chip's FIFO, the stroke
   the task holds, the modifiers and the inbox are one queue; every step passes
   on what is at the front of one part to the end of the next. *)
EXTENDS Handset, FiniteSetTheorems, SequenceTheorems, WellFoundedInduction, TLAPS

----------------------------------------------------------------------------
(* Steps. *)

IsSequence(s) == s \in Seq({s[i] : i \in DOMAIN s})
Dos(s) == {s[i].do : i \in DOMAIN s}
Offs == {"power off", "pulse off"}

(* The modem is switched off by the last step of a job. *)
OffLast(s) == \A i \in DOMAIN s : s[i].do \in Offs => i = Len(s)

(* Steps that leave the modem on; steps that are never given up. *)
Harmless(s) == IsSequence(s) /\ Dos(s) \cap Offs = {}
Sure(step) ==
    \/ step.do \in {"wifi stop", "stop pump", "escape"} \cup Offs
    \/ step.do = "at" /\ ~step.must
AllSure(s) == \A i \in DOMAIN s : Sure(s[i])

LEMMA SequenceIs ==
    ASSUME NEW S, NEW s \in Seq(S)
    PROVE  IsSequence(s)
<1> DEFINE T == {s[i] : i \in DOMAIN s}
<1>1. /\ Len(s) \in Nat /\ DOMAIN s = 1 .. Len(s) /\ s \in [1 .. Len(s) -> S]
      BY LenProperties
<1>2. s \in [1 .. Len(s) -> T]
      BY <1>1
<1> HIDE DEF T
<1>3. s \in Seq(T)
      BY <1>1, <1>2, SeqDef
<1> QED BY <1>3 DEF IsSequence, T

LEMMA NoSteps == IsSequence(<<>>) /\ Dos(<<>>) = {} /\ DOMAIN <<>> = {}
BY DEF IsSequence, Dos

LEMMA OneStep ==
    ASSUME NEW a
    PROVE  /\ IsSequence(<<a>>) /\ Dos(<<a>>) = {a.do} /\ Len(<<a>>) = 1
           /\ DOMAIN <<a>> = 1 .. 1 /\ <<a>>[1] = a
<1>0. IsSequence(<<a>>)
      <2>1. <<a>> \in Seq({a})
            OBVIOUS
      <2> QED BY <2>1, SequenceIs, Zenon
<1>1. DOMAIN <<a>> = 1 .. 1 /\ <<a>>[1] = a /\ Len(<<a>>) = 1
      OBVIOUS
<1> QED BY <1>0, <1>1 DEF Dos

LEMMA TwoSteps ==
    ASSUME NEW a, NEW b
    PROVE  /\ IsSequence(<<a, b>>) /\ Dos(<<a, b>>) = {a.do, b.do} /\ Len(<<a, b>>) = 2
           /\ DOMAIN <<a, b>> = 1 .. 2 /\ <<a, b>>[1] = a /\ <<a, b>>[2] = b
<1>0. IsSequence(<<a, b>>)
      <2>1. <<a, b>> \in Seq({a, b})
            OBVIOUS
      <2> QED BY <2>1, SequenceIs, Zenon
<1>1. DOMAIN <<a, b>> = 1 .. 2 /\ Len(<<a, b>>) = 2
      OBVIOUS
<1>2. <<a, b>>[1] = a /\ <<a, b>>[2] = b
      OBVIOUS
<1> QED BY <1>0, <1>1, <1>2 DEF Dos

LEMMA ThreeSteps ==
    ASSUME NEW a, NEW b, NEW c
    PROVE  IsSequence(<<a, b, c>>) /\ Dos(<<a, b, c>>) = {a.do, b.do, c.do}
<1>0. IsSequence(<<a, b, c>>)
      <2>1. <<a, b, c>> \in Seq({a, b, c})
            OBVIOUS
      <2> QED BY <2>1, SequenceIs, Zenon
<1>1. DOMAIN <<a, b, c>> = 1 .. 3
      OBVIOUS
<1>2. <<a, b, c>>[1] = a /\ <<a, b, c>>[2] = b /\ <<a, b, c>>[3] = c
      OBVIOUS
<1> QED BY <1>0, <1>1, <1>2 DEF Dos

LEMMA JoinedSteps ==
    ASSUME NEW s, NEW t, IsSequence(s), IsSequence(t)
    PROVE  /\ IsSequence(s \o t) /\ Dos(s \o t) = Dos(s) \cup Dos(t)
           /\ Len(s) \in Nat /\ Len(t) \in Nat /\ Len(s \o t) = Len(s) + Len(t)
           /\ DOMAIN s = 1 .. Len(s) /\ DOMAIN t = 1 .. Len(t)
           /\ DOMAIN (s \o t) = 1 .. Len(s) + Len(t)
           /\ \A i \in 1 .. Len(s) : (s \o t)[i] = s[i]
           /\ \A i \in 1 .. Len(s) + Len(t) : i > Len(s) =>
                 i - Len(s) \in 1 .. Len(t) /\ (s \o t)[i] = t[i - Len(s)]
<1> DEFINE S == {s[i] : i \in DOMAIN s} \cup {t[i] : i \in DOMAIN t}
<1>1. s \in Seq(S) /\ t \in Seq(S)
      BY DEF IsSequence
<1> HIDE DEF S
<1>2. /\ s \o t \in Seq(S) /\ Len(s) \in Nat /\ Len(t) \in Nat
      /\ Len(s \o t) = Len(s) + Len(t)
      /\ DOMAIN s = 1 .. Len(s) /\ DOMAIN t = 1 .. Len(t)
      /\ DOMAIN (s \o t) = 1 .. Len(s) + Len(t)
      BY <1>1
<1>3. \A i \in 1 .. Len(s) : (s \o t)[i] = s[i]
      BY <1>1
<1>4. \A i \in 1 .. Len(s) + Len(t) : i > Len(s) =>
         i - Len(s) \in 1 .. Len(t) /\ (s \o t)[i] = t[i - Len(s)]
      BY <1>1
<1>5. \A j \in 1 .. Len(t) : (s \o t)[j + Len(s)] = t[j] /\ j + Len(s) \in DOMAIN (s \o t)
      BY <1>2, <1>4
<1>6. \A x \in Dos(s \o t) : x \in Dos(s) \cup Dos(t)
      BY <1>2, <1>3, <1>4 DEF Dos
<1>7. \A x \in Dos(s) : x \in Dos(s \o t)
      BY <1>2, <1>3 DEF Dos
<1>8. \A x \in Dos(t) : x \in Dos(s \o t)
      BY <1>2, <1>5 DEF Dos
<1>9. Dos(s \o t) = Dos(s) \cup Dos(t)
      BY <1>6, <1>7, <1>8
<1>10. IsSequence(s \o t)
      BY <1>2, SequenceIs, Zenon
<1> QED BY <1>2, <1>3, <1>4, <1>9, <1>10

LEMMA TailSteps ==
    ASSUME NEW s, IsSequence(s), s # <<>>
    PROVE  /\ IsSequence(Tail(s)) /\ Dos(s) = {Head(s).do} \cup Dos(Tail(s))
           /\ Len(s) \in Nat /\ Len(s) >= 1 /\ DOMAIN s = 1 .. Len(s)
           /\ Head(s) = s[1] /\ Len(Tail(s)) = Len(s) - 1
           /\ DOMAIN Tail(s) = 1 .. Len(s) - 1
           /\ \A i \in 1 .. Len(s) - 1 : Tail(s)[i] = s[i + 1]
<1> DEFINE S == {s[i] : i \in DOMAIN s}
<1>1. s \in Seq(S)
      BY DEF IsSequence
<1> HIDE DEF S
<1>2. /\ Tail(s) \in Seq(S) /\ Len(s) \in Nat /\ Len(s) >= 1 /\ DOMAIN s = 1 .. Len(s)
      /\ Head(s) = s[1] /\ Len(Tail(s)) = Len(s) - 1 /\ DOMAIN Tail(s) = 1 .. Len(s) - 1
      BY <1>1
<1>3. \A i \in 1 .. Len(s) - 1 : Tail(s)[i] = s[i + 1]
      BY <1>1
<1>4. \A x \in Dos(s) : x \in {Head(s).do} \cup Dos(Tail(s))
      <2> TAKE x \in Dos(s)
      <2>1. PICK i \in 1 .. Len(s) : x = s[i].do
            BY <1>2 DEF Dos
      <2>2. CASE i = 1
            BY <1>2, <2>1, <2>2
      <2>3. CASE i # 1
            <3>1. i - 1 \in 1 .. Len(s) - 1 /\ Tail(s)[i - 1] = s[i]
                  BY <1>2, <1>3, <2>1, <2>3
            <3> QED BY <1>2, <2>1, <3>1 DEF Dos
      <2> QED BY <2>2, <2>3
<1>5. \A x \in Dos(Tail(s)) : x \in Dos(s)
      <2> TAKE x \in Dos(Tail(s))
      <2>1. PICK i \in 1 .. Len(s) - 1 : x = Tail(s)[i].do
            BY <1>2 DEF Dos
      <2>2. i + 1 \in 1 .. Len(s) /\ x = s[i + 1].do
            BY <1>2, <1>3, <2>1
      <2> QED BY <1>2, <2>2 DEF Dos
<1>6. Head(s).do \in Dos(s)
      BY <1>2 DEF Dos
<1>7. IsSequence(Tail(s))
      BY <1>2, SequenceIs, Zenon
<1> QED BY <1>2, <1>3, <1>4, <1>5, <1>6, <1>7

(* What is left after the first step, *)
LEMMA RestOfSteps ==
    ASSUME NEW s, IsSequence(s), OffLast(s), s # <<>>
    PROVE  /\ IsSequence(Tail(s)) /\ OffLast(Tail(s))
           /\ Dos(s) = {Head(s).do} \cup Dos(Tail(s))
           /\ AllSure(s) => Sure(Head(s)) /\ AllSure(Tail(s))
           /\ Head(s).do \in Offs => Tail(s) = <<>>
<1>1. /\ IsSequence(Tail(s)) /\ Dos(s) = {Head(s).do} \cup Dos(Tail(s))
      /\ Len(s) \in Nat /\ Len(s) >= 1 /\ DOMAIN s = 1 .. Len(s)
      /\ Head(s) = s[1] /\ Len(Tail(s)) = Len(s) - 1
      /\ DOMAIN Tail(s) = 1 .. Len(s) - 1
      /\ \A i \in 1 .. Len(s) - 1 : Tail(s)[i] = s[i + 1]
      BY TailSteps
<1>2. OffLast(Tail(s))
      <2> SUFFICES ASSUME NEW i \in DOMAIN Tail(s), Tail(s)[i].do \in Offs
                   PROVE  i = Len(Tail(s))
          BY DEF OffLast
      <2>1. i \in 1 .. Len(s) - 1 /\ i + 1 \in DOMAIN s /\ s[i + 1].do \in Offs
            BY <1>1
      <2>2. i + 1 = Len(s)
            BY <2>1 DEF OffLast
      <2> QED BY <1>1, <2>1, <2>2
<1>3. ASSUME AllSure(s) PROVE Sure(Head(s)) /\ AllSure(Tail(s))
      <2>1. Sure(Head(s))
            BY <1>1, <1>3 DEF AllSure
      <2>2. ASSUME NEW i \in DOMAIN Tail(s) PROVE Sure(Tail(s)[i])
            <3>1. i + 1 \in DOMAIN s /\ Tail(s)[i] = s[i + 1]
                  BY <1>1, <2>2
            <3>2. Sure(s[i + 1])
                  BY <1>3, <3>1 DEF AllSure
            <3> QED BY <3>1, <3>2
      <2> QED BY <2>1, <2>2 DEF AllSure
<1>4. ASSUME Head(s).do \in Offs PROVE Tail(s) = <<>>
      <2>1. 1 = Len(s)
            BY <1>1, <1>4 DEF OffLast
      <2> DEFINE t == Tail(s)
                 T == {t[i] : i \in DOMAIN t}
      <2>2. t \in Seq(T) /\ Len(t) = Len(s) - 1
            BY <1>1 DEF IsSequence
      <2> HIDE DEF t, T
      <2>3. Len(t) = 0
            BY <2>1, <2>2
      <2>4. t = <<>>
            BY <2>2, <2>3, EmptySeq
      <2> QED BY <2>4 DEF t
<1> QED BY <1>1, <1>2, <1>3, <1>4

(* and after a step that turned out to be the steps `e`. *)
LEMMA ExpandedSteps ==
    ASSUME NEW e, NEW t, IsSequence(e), IsSequence(t), OffLast(e), OffLast(t),
           Dos(e) \cap Offs = {} \/ t = <<>>
    PROVE  /\ IsSequence(e \o t) /\ OffLast(e \o t) /\ Dos(e \o t) = Dos(e) \cup Dos(t)
           /\ AllSure(e) /\ AllSure(t) => AllSure(e \o t)
<1>1. /\ IsSequence(e \o t) /\ Dos(e \o t) = Dos(e) \cup Dos(t)
      /\ Len(e) \in Nat /\ Len(t) \in Nat /\ Len(e \o t) = Len(e) + Len(t)
      /\ DOMAIN e = 1 .. Len(e) /\ DOMAIN t = 1 .. Len(t)
      /\ DOMAIN (e \o t) = 1 .. Len(e) + Len(t)
      /\ \A i \in 1 .. Len(e) : (e \o t)[i] = e[i]
      /\ \A i \in 1 .. Len(e) + Len(t) : i > Len(e) =>
            i - Len(e) \in 1 .. Len(t) /\ (e \o t)[i] = t[i - Len(e)]
      BY JoinedSteps
<1>2. \A i \in DOMAIN (e \o t) :
         \/ i \in DOMAIN e /\ (e \o t)[i] = e[i]
         \/ i - Len(e) \in DOMAIN t /\ (e \o t)[i] = t[i - Len(e)]
      BY <1>1
<1>3. OffLast(e \o t)
      <2> SUFFICES ASSUME NEW i \in DOMAIN (e \o t), (e \o t)[i].do \in Offs
                   PROVE  i = Len(e) + Len(t)
          BY <1>1 DEF OffLast
      <2>1. CASE i \in DOMAIN e /\ (e \o t)[i] = e[i]
            <3>1. e[i].do \in Dos(e) \cap Offs
                  BY <2>1 DEF Dos
            <3>2. t = <<>> /\ i = Len(e)
                  BY <2>1, <3>1 DEF OffLast
            <3>3. Len(t) = 0
                  BY <3>2
            <3> QED BY <1>1, <3>2, <3>3
      <2>2. CASE i - Len(e) \in DOMAIN t /\ (e \o t)[i] = t[i - Len(e)]
            <3>1. i - Len(e) = Len(t)
                  BY <2>2 DEF OffLast
            <3> QED BY <1>1, <3>1
      <2> QED BY <1>2, <2>1, <2>2
<1>4. AllSure(e) /\ AllSure(t) => AllSure(e \o t)
      BY <1>2 DEF AllSure
<1> QED BY <1>1, <1>3, <1>4

----------------------------------------------------------------------------
(* Jobs: no program pulses PWRKEY itself, and none does anything after it has
   the modem switched off. *)

Sane(s) == IsSequence(s) /\ OffLast(s)
Proper(s) == Sane(s) /\ "pulse off" \notin Dos(s)
ProperJob(job) == "steps" \in DOMAIN job /\ Proper(job.steps)

LEMMA HarmlessProper ==
    ASSUME NEW s, Harmless(s)
    PROVE  Proper(s)
<1>1. \A i \in DOMAIN s : s[i].do \in Dos(s)
      BY DEF Dos
<1> QED BY <1>1 DEF Harmless, Proper, Sane, OffLast, Offs

LEMMA JoinedHarmless ==
    ASSUME NEW s, NEW t, Harmless(s), Harmless(t)
    PROVE  Harmless(s \o t)
BY JoinedSteps DEF Harmless

LEMMA JobSteps ==
    ASSUME NEW steps, NEW yield
    PROVE  Job(steps, yield).steps = steps /\ "steps" \in DOMAIN Job(steps, yield)
BY DEF Job

(* A driver's calls are harmless, but for power_off(). *)
LEMMA Calls ==
    /\ \A cmd, arg : At(cmd, arg, TRUE).do = "at" /\ At(cmd, arg, FALSE).do = "at"
    /\ \A do : Step(do).do = do
BY DEF At, Step

LEMMA HarmlessOne ==
    ASSUME NEW a, a.do \notin Offs
    PROVE  Harmless(<<a>>)
BY OneStep DEF Harmless

LEMMA HarmlessTwo ==
    ASSUME NEW a, NEW b, a.do \notin Offs, b.do \notin Offs
    PROVE  Harmless(<<a, b>>)
BY TwoSteps DEF Harmless

LEMMA HarmlessThree ==
    ASSUME NEW a, NEW b, NEW c, a.do \notin Offs, b.do \notin Offs, c.do \notin Offs
    PROVE  Harmless(<<a, b, c>>)
BY ThreeSteps DEF Harmless

LEMMA HarmlessNone == Harmless(<<>>)
BY NoSteps DEF Harmless

LEMMA HarmlessDriver ==
    ASSUME NEW d, NEW number, NEW text, NEW v
    PROVE  /\ Harmless(PowerOnSteps(d)) /\ Harmless(EnableDataSteps(d))
           /\ Harmless(DisableDataSteps(d)) /\ Harmless(StatusSteps)
           /\ Harmless(DialSteps(number)) /\ Harmless(HangUpSteps)
           /\ Harmless(QueryVolume) /\ Harmless(SetVolume(v))
           /\ Harmless(SendTextSteps(text)) /\ Harmless(InboxSteps)
           /\ Harmless(ReadSteps(number)) /\ Harmless(DeleteSteps(number))
<1>1. \A cmd, arg : Must(cmd, arg).do \notin Offs /\ Try(cmd, arg).do \notin Offs
      BY DEF Must, Try, At, Offs
<1>2. \A do : do \notin Offs => Step(do).do \notin Offs
      BY DEF Step
<1>3. Harmless(PowerOnSteps(d))
      <2>1. Step("pulse on").do \notin Offs /\ Step("hello").do \notin Offs
            BY DEF Step, Offs
      <2> QED BY <1>1, <2>1, HarmlessNone, HarmlessThree DEF PowerOnSteps
<1>4. Harmless(EnableDataSteps(d))
      <2> DEFINE a == Try("CMEE", "")
                 b == Try("CGATT", "")
                 c == Must("CGDCONT", "")
                 e == Try("CGAUTH", "")
                 f == [Must("ATD*99#", "") EXCEPT !.to = "connect"]
                 g == Step("ppp")
      <2>1. /\ a.do \notin Offs /\ b.do \notin Offs /\ c.do \notin Offs
            /\ e.do \notin Offs /\ f.do \notin Offs /\ g.do \notin Offs
            BY DEF Must, Try, At, Step, Offs
      <2>2. EnableDataSteps(d) = IF d.data THEN <<>> ELSE <<a, b, c, e, f, g>>
            BY Zenon DEF EnableDataSteps
      <2> HIDE DEF a, b, c, e, f, g
      <2>3. <<a, b, c, e, f, g>> = <<a, b, c>> \o <<e, f, g>>
            OBVIOUS
      <2>4. Harmless(<<a, b, c>>) /\ Harmless(<<e, f, g>>)
            BY <2>1, HarmlessThree
      <2>5. Harmless(<<a, b, c, e, f, g>>)
            BY <2>3, <2>4, JoinedHarmless
      <2> QED BY <2>2, <2>5, HarmlessNone
<1>5. Harmless(DisableDataSteps(d))
      <2>1. Step("stop pump").do \notin Offs /\ Step("escape").do \notin Offs
            BY DEF Step, Offs
      <2> QED BY <1>1, <2>1, HarmlessNone, HarmlessThree DEF DisableDataSteps
<1>6. Harmless(StatusSteps)
      <2> DEFINE st == StatusSteps
                 T == {st[i] : i \in 1 .. 5}
      <2>1. DOMAIN st = 1 .. 5 /\ \A i \in 1 .. 5 : st[i].do \notin Offs
            <3>1. DOMAIN StatusCommands = 1 .. 5
                  BY DEF StatusCommands
            <3> QED BY <1>1, <3>1 DEF StatusSteps
      <2>2. st \in [1 .. 5 -> T]
            <3>1. st = [i \in 1 .. 5 |-> st[i]]
                  <4>1. DOMAIN StatusCommands = 1 .. 5
                        BY DEF StatusCommands
                  <4> QED BY <4>1 DEF StatusSteps
            <3> QED BY <3>1
      <2> HIDE DEF st, T
      <2>3. st \in Seq(T)
            BY <2>2, SeqDef
      <2>4. IsSequence(st)
            BY <2>3, SequenceIs, Zenon
      <2>5. Harmless(st)
            BY <2>1, <2>4 DEF Harmless, Dos
      <2> QED BY <2>5 DEF st
<1>7. Harmless(DialSteps(number))
      BY <1>1, HarmlessThree DEF DialSteps
<1>8. Harmless(HangUpSteps) /\ Harmless(QueryVolume)
      BY <1>1, HarmlessOne, HarmlessTwo DEF HangUpSteps, QueryVolume
<1>9. Harmless(SetVolume(v))
      <2>1. Harmless(<<Try("GAIN", v)>>)
            BY <1>1, HarmlessOne
      <2> QED BY <1>8, <2>1, JoinedHarmless DEF SetVolume
<1>10. Harmless(TextMode)
      BY <1>1, HarmlessTwo DEF TextMode
<1>11. Harmless(SendTextSteps(text))
      <2> DEFINE a == [Must("CMGS", "") EXCEPT !.to = "prompt"]
                 b == [Must("body", text) EXCEPT !.to = "final"]
      <2>1. a.do \notin Offs /\ b.do \notin Offs
            BY DEF Must, At, Offs
      <2>2. SendTextSteps(text) = TextMode \o <<a, b>>
            BY Zenon DEF SendTextSteps
      <2> HIDE DEF a, b
      <2>3. Harmless(<<a, b>>)
            BY <2>1, HarmlessTwo
      <2> QED BY <1>10, <2>2, <2>3, JoinedHarmless
<1>12. Harmless(InboxSteps) /\ Harmless(ReadSteps(number)) /\ Harmless(DeleteSteps(number))
      <2>1. \A cmd, arg : Harmless(<<Must(cmd, arg)>>)
            BY <1>1, HarmlessOne
      <2> QED BY <1>10, <2>1, JoinedHarmless DEF InboxSteps, ReadSteps, DeleteSteps
<1> QED BY <1>3, <1>4, <1>5, <1>6, <1>7, <1>8, <1>9, <1>11, <1>12

LEMMA ProperJobs ==
    ASSUME NEW steps, NEW yield
    PROVE  /\ Harmless(steps) => ProperJob(Job(steps, yield))
           /\ Proper(steps) => ProperJob(Job(steps, yield))
           /\ ProperJob(Answer(yield))
<1>1. /\ Job(steps, yield).steps = steps /\ "steps" \in DOMAIN Job(steps, yield)
      /\ Job(<<>>, yield).steps = <<>> /\ "steps" \in DOMAIN Job(<<>>, yield)
      BY JobSteps
<1>2. Proper(<<>>)
      BY HarmlessNone, HarmlessProper
<1> QED BY <1>1, <1>2, HarmlessProper, Zenon DEF ProperJob, Answer

LEMMA OffProper == Proper(<<Step("power off")>>) /\ Proper(RadiosOff)
<1> DEFINE a == Step("wifi stop")
           b == Step("power off")
<1>1. a.do = "wifi stop" /\ b.do = "power off"
      BY DEF Step
<1>2. RadiosOff = <<a, b>>
      BY Zenon DEF RadiosOff
<1> HIDE DEF a, b
<1>3. Proper(<<b>>)
      <2> DEFINE t == <<b>>
      <2>1. IsSequence(t) /\ Dos(t) = {b.do} /\ Len(t) = 1 /\ DOMAIN t = 1 .. 1 /\ t[1] = b
            BY OneStep
      <2> HIDE DEF t
      <2>2. OffLast(t)
            BY <2>1 DEF OffLast
      <2>3. Proper(t)
            BY <1>1, <2>1, <2>2 DEF Proper, Sane
      <2> QED BY <2>3 DEF t
<1>4. Proper(<<a, b>>)
      <2> DEFINE t == <<a, b>>
      <2>1. /\ IsSequence(t) /\ Dos(t) = {a.do, b.do} /\ Len(t) = 2
            /\ DOMAIN t = 1 .. 2 /\ t[1] = a /\ t[2] = b
            BY TwoSteps
      <2> HIDE DEF t
      <2>2. \A i \in 1 .. 2 : i = 1 \/ i = 2
            OBVIOUS
      <2>3. OffLast(t)
            BY <1>1, <2>1, <2>2 DEF OffLast, Offs
      <2>4. Proper(t)
            BY <1>1, <2>1, <2>3 DEF Proper, Sane
      <2> QED BY <2>4 DEF t
<1>5. Proper(RadiosOff)
      BY <1>2, <1>4, Zenon
<1> QED BY <1>3, <1>5, Zenon DEF b

LEMMA ProperBy ==
    ASSUME NEW prog, NEW job, ProperJob(job)
    PROVE  ProperJob(By(prog, job))
BY DEF By, ProperJob

LEMMA ProperWhenPowered ==
    ASSUME NEW job, ProperJob(job)
    PROVE  ProperJob(WhenPowered(job))
BY ProperJobs, Zenon DEF WhenPowered

(* The other programs' steps. *)
LEMMA HarmlessSteps ==
    ASSUME NEW what, NEW f1, NEW v1, NEW f2, NEW v2
    PROVE  /\ Harmless(SmtpSteps(what)) /\ Harmless(SetSteps(f1, v1, f2, v2))
           /\ Harmless(GroupNames)
<1>1. Harmless(SmtpSteps(what))
      <2> DEFINE st == SmtpSteps(what)
                 T == {st[i] : i \in 1 .. 11}
      <2>1. DOMAIN SmtpLines = 1 .. 11
            BY DEF SmtpLines
      <2>2. st = [i \in 1 .. 11 |-> st[i]]
            BY <2>1 DEF SmtpSteps
      <2>3. DOMAIN st = 1 .. 11 /\ \A i \in 1 .. 11 : st[i].do \notin Offs
            BY <2>1 DEF SmtpSteps, Offs
      <2>4. st \in [1 .. 11 -> T]
            BY <2>2
      <2> HIDE DEF st, T
      <2>5. st \in Seq(T)
            BY <2>4, SeqDef
      <2>6. IsSequence(st)
            BY <2>5, SequenceIs, Zenon
      <2>7. Harmless(st)
            BY <2>3, <2>6 DEF Harmless, Dos
      <2> QED BY <2>7 DEF st
<1>2. Harmless(SetSteps(f1, v1, f2, v2))
      <2> DEFINE a == [do |-> "set", field |-> f1, value |-> v1, must |-> TRUE]
                 b == [do |-> "set", field |-> f2, value |-> v2, must |-> TRUE]
      <2>1. a.do \notin Offs /\ b.do \notin Offs
            BY DEF Offs
      <2>2. SetSteps(f1, v1, f2, v2) = <<a, b>>
            BY Zenon DEF SetSteps
      <2> HIDE DEF a, b
      <2> QED BY <2>1, <2>2, HarmlessTwo
<1>3. Harmless(GroupNames)
      <2> DEFINE st == GroupNames
                 a == [Step("get") EXCEPT !.must = FALSE]
                 n == Cardinality(Groups)
      <2>1. n \in Nat
            <3> DEFINE C == ToSet(Chats)
            <3>1. Chats \in Seq(C)
                  BY ProgramsAssumption
            <3> HIDE DEF C
            <3>2. DOMAIN Chats = 1 .. Len(Chats) /\ Len(Chats) \in Nat
                  BY <3>1
            <3>3. IsFiniteSet(DOMAIN Chats)
                  BY <3>2, FS_Interval
            <3>4. IsFiniteSet(Groups)
                  BY <3>3, FS_Subset DEF Groups
            <3> QED BY <3>4, FS_CardinalityType
      <2>2. st = [i \in 1 .. n |-> a]
            BY Zenon DEF GroupNames
      <2>3. a.do \notin Offs
            BY DEF Step, Offs
      <2> HIDE DEF st, a, n
      <2>4. st \in [1 .. n -> {a}]
            BY <2>2
      <2>5. st \in Seq({a})
            BY <2>1, <2>4, SeqDef
      <2>6. IsSequence(st)
            BY <2>5, SequenceIs, Zenon
      <2>7. Harmless(st)
            BY <2>2, <2>3, <2>6 DEF Harmless, Dos
      <2> QED BY <2>7 DEF st
<1> QED BY <1>1, <1>2, <1>3

(* Each program, *)
LEMMA ProperPrograms ==
    ASSUME NEW args
    PROVE  /\ ProperJob(BatteryProgram(args)) /\ ProperJob(EchoProgram(args))
           /\ ProperJob(NetProgram(args)) /\ ProperJob(PowerProgram(args))
           /\ ProperJob(CurlProgram(args)) /\ ProperJob(ModemProgram(args))
           /\ ProperJob(PhoneProgram(args)) /\ ProperJob(SmsProgram(args))
           /\ ProperJob(WifiProgram(args)) /\ ProperJob(EmailProgram(args))
           /\ ProperJob(WhatsappProgram(args))
<1>1. \A yield : ProperJob(Answer(yield))
      BY ProperJobs
<1>2. ProperJob(Usage)
      BY <1>1 DEF Usage
<1>3. \A do, yield : do \notin Offs => ProperJob(Job(<<Step(do)>>, yield))
      <2> SUFFICES ASSUME NEW do, NEW yield, do \notin Offs
                   PROVE  ProperJob(Job(<<Step(do)>>, yield))
          OBVIOUS
      <2>1. Step(do).do \notin Offs
            BY DEF Step
      <2> QED BY <2>1, HarmlessOne, ProperJobs
<1>4. ProperJob(BatteryProgram(args))
      <2>1. \A dev, op : Ask(dev, op).do \notin Offs
            BY DEF Ask, Offs
      <2>2. \A dev, op, yield : ProperJob(Job(<<Ask(dev, op)>>, yield))
            <3> TAKE dev, op, yield
            <3>1. Harmless(<<Ask(dev, op)>>)
                  BY <2>1, HarmlessOne
            <3> QED BY <3>1, ProperJobs
      <2> QED BY <1>2, <2>2, Zenon DEF BatteryProgram
<1>5. ProperJob(EchoProgram(args)) /\ ProperJob(NetProgram(args)) /\ ProperJob(PowerProgram(args))
      BY <1>1, <1>2, Zenon DEF EchoProgram, NetProgram, PowerProgram
<1>6. ProperJob(CurlProgram(args))
      <2>1. Step("ensure").do \notin Offs /\ Step("get").do \notin Offs
            BY DEF Step, Offs
      <2>2. \A yield : ProperJob(Job(<<Step("ensure"), Step("get")>>, yield))
            <3> TAKE yield
            <3>1. Harmless(<<Step("ensure"), Step("get")>>)
                  BY <2>1, HarmlessTwo
            <3> QED BY <3>1, ProperJobs
      <2> QED BY <1>2, <2>2, Zenon DEF CurlProgram
<1>7. ProperJob(ModemProgram(args))
      <2>1. \A yield : ProperJob(Job(StatusSteps, yield))
            <3> TAKE yield
            <3>1. Harmless(StatusSteps)
                  BY HarmlessDriver
            <3> QED BY <3>1, ProperJobs
      <2>2. \A yield : ProperJob(Job(<<Step("power off")>>, yield))
            BY OffProper, ProperJobs
      <2>3. \A x, yield : ProperJob(Job(<<Must("raw", x)>>, yield))
            <3> TAKE x, yield
            <3>1. Must("raw", x).do \notin Offs
                  BY DEF Must, At, Offs
            <3> QED BY <3>1, HarmlessOne, ProperJobs
      <2>4. /\ \A yield : ProperJob(Job(<<Step("power on")>>, yield))
            /\ \A yield : ProperJob(Job(<<Step("enable data")>>, yield))
            /\ \A yield : ProperJob(Job(<<Step("disable data")>>, yield))
            BY <1>3 DEF Offs
      <2>5. ASSUME NEW x PROVE ProperJob(DataProgram(x))
            <3>1. \A job : ProperJob(job) => ProperJob(WhenPowered(job))
                  BY ProperWhenPowered
            <3> QED BY <1>1, <1>2, <2>4, <3>1, Zenon DEF DataProgram
      <2> QED BY <1>1, <1>2, <2>1, <2>2, <2>3, <2>4, <2>5, Zenon DEF ModemProgram
<1>8. ProperJob(PhoneProgram(args))
      <2>1. \A x, yield : ProperJob(Job(DialSteps(x), yield)) /\ ProperJob(Job(HangUpSteps, yield))
            <3> TAKE x, yield
            <3>1. Harmless(DialSteps(x)) /\ Harmless(HangUpSteps)
                  BY HarmlessDriver
            <3> QED BY <3>1, ProperJobs
      <2>2. \A job : ProperJob(job) => ProperJob(WhenPowered(job))
            BY ProperWhenPowered
      <2> QED BY <1>1, <1>2, <2>1, <2>2, Zenon DEF PhoneProgram
<1>9. ProperJob(SmsProgram(args))
      <2>1. \A x, yield : /\ ProperJob(Job(SendTextSteps(x), yield))
                          /\ ProperJob(Job(InboxSteps, yield))
                          /\ ProperJob(Job(ReadSteps(x), yield))
                          /\ ProperJob(Job(DeleteSteps(x), yield))
            <3> TAKE x, yield
            <3>1. /\ Harmless(SendTextSteps(x)) /\ Harmless(InboxSteps)
                  /\ Harmless(ReadSteps(x)) /\ Harmless(DeleteSteps(x))
                  BY HarmlessDriver
            <3> QED BY <3>1, ProperJobs
      <2>2. \A job : ProperJob(job) => ProperJob(WhenPowered(job))
            BY ProperWhenPowered
      <2>3. \A to, body : ProperJob(SmsSend(to, body))
            BY <1>1, <2>1, Zenon DEF SmsSend
      <2> QED BY <1>1, <1>2, <2>1, <2>2, <2>3, Zenon DEF SmsProgram
<1>10. ProperJob(WifiProgram(args))
      <2>1. /\ \A yield : ProperJob(Job(<<Step("scan")>>, yield))
            /\ \A yield : ProperJob(Job(<<Step("disconnect")>>, yield))
            BY <1>3 DEF Offs
      <2> QED BY <1>1, <1>2, <2>1, Zenon DEF WifiProgram
<1>11. ProperJob(EmailProgram(args))
      <2>1. \A x, yield : ProperJob(Job(<<Step("ensure")>> \o SmtpSteps(x), yield))
            <3> TAKE x, yield
            <3>1. Step("ensure").do \notin Offs
                  BY DEF Step, Offs
            <3>2. Harmless(<<Step("ensure")>>) /\ Harmless(SmtpSteps(x))
                  BY <3>1, HarmlessOne, HarmlessSteps
            <3> QED BY <3>2, JoinedHarmless, ProperJobs
      <2> QED BY <1>1, <1>2, <2>1, Zenon DEF EmailProgram
<1>12. ProperJob(WhatsappProgram(args))
      <2>1. Step("ensure").do \notin Offs /\ Step("get").do \notin Offs
            BY DEF Step, Offs
      <2>2. ProperJob(WhatsappInbox)
            <3>1. Harmless(<<Step("ensure"), Step("get")>>) /\ Harmless(GroupNames)
                  BY <2>1, HarmlessTwo, HarmlessSteps
            <3>2. Harmless(<<Step("ensure"), Step("get")>> \o GroupNames)
                  BY <3>1, JoinedHarmless
            <3> QED BY <3>2, ProperJobs, Zenon DEF WhatsappInbox
      <2>3. \A number, message : ProperJob(WhatsappSend(number, message))
            <3> TAKE number, message
            <3> DEFINE a == Step("ensure")
                       b == [do |-> "post", what |-> <<number, message>>, must |-> TRUE]
                       y == Claim("message sent", <<number, message>>)
            <3>1. a.do \notin Offs /\ b.do \notin Offs
                  BY DEF Step, Offs
            <3>2. WhatsappSend(number, message) = Job(<<a, b>>, y)
                  BY Zenon DEF WhatsappSend
            <3> HIDE DEF a, b, y
            <3>3. Harmless(<<a, b>>)
                  BY <3>1, HarmlessTwo
            <3> QED BY <3>2, <3>3, ProperJobs
      <2>4. \A job : ProperJob(job) => ProperJob(WithWhatsapp(job))
            BY <1>1, Zenon DEF WithWhatsapp
      <2> QED BY <1>1, <1>2, <2>2, <2>3, <2>4, Zenon DEF WhatsappProgram
<1> QED BY <1>4, <1>5, <1>6, <1>7, <1>8, <1>9, <1>10, <1>11, <1>12

(* what a command line comes to, *)
LEMMA ProperExecute ==
    ASSUME NEW line
    PROVE  ProperJob(Execute(line))
<1>1. \A yield : ProperJob(Answer(yield))
      BY ProperJobs
<1>2. \A name, args : ProperJob(Program(name, args))
      BY <1>1, ProperPrograms, Zenon DEF Program
<1>3. \A name, args : ProperJob(By(name, Program(name, args)))
      BY <1>2, ProperBy
<1> QED BY <1>1, <1>3, Zenon DEF Execute

(* and what a key of an interactive mode comes to. *)
LEMMA ProperCalled ==
    ASSUME NEW call
    PROVE  ProperJob(Called(call))
<1>1. \A yield : ProperJob(Answer(yield))
      BY ProperJobs
<1>2. \A ssid, pw, must : ConnectStep(ssid, pw, must).do \notin Offs
      BY DEF ConnectStep, Offs
<1>3. \A x, y : ProperJob(WifiSelected(x, y))
      <2> TAKE x, y
      <2> DEFINE a == [do |-> "delete", ssid |-> y, must |-> TRUE]
      <2>1. a.do \notin Offs
            BY DEF Offs
      <2> HIDE DEF a
      <2>2. \A yield : ProperJob(Job(<<a>>, yield))
            BY <2>1, HarmlessOne, ProperJobs
      <2>3. \A ssid, pw, yield : ProperJob(Job(<<ConnectStep(ssid, pw, TRUE)>>, yield))
            <3> TAKE ssid, pw, yield
            <3>1. Harmless(<<ConnectStep(ssid, pw, TRUE)>>)
                  BY <1>2, HarmlessOne
            <3> QED BY <3>1, ProperJobs
      <2> QED BY <1>1, <2>2, <2>3, Zenon DEF WifiSelected, a
<1>4. \A x, y : ProperJob(WifiSubmitted(x, y))
      <2> TAKE x, y
      <2> DEFINE a == ConnectStep(x, y, TRUE)
                 b == [do |-> "save", ssid |-> x, pw |-> y, must |-> TRUE]
                 z == Claim("connected", x)
      <2>1. a.do \notin Offs /\ b.do \notin Offs
            BY <1>2 DEF Offs
      <2>2. WifiSubmitted(x, y) = Job(<<a, b>>, z)
            BY Zenon DEF WifiSubmitted
      <2> HIDE DEF a, b, z
      <2>3. Harmless(<<a, b>>)
            BY <2>1, HarmlessTwo
      <2> QED BY <2>2, <2>3, ProperJobs
<1>5. \A x, y : ProperJob(WhatsappSelected(x, y))
      <2> TAKE x, y
      <2>1. Step("get").do \notin Offs
            BY DEF Step, Offs
      <2>2. Harmless(<<Step("get")>>)
            BY <2>1, HarmlessOne
      <2> QED BY <2>2, ProperJobs, Zenon DEF WhatsappSelected
<1>6. \A x, text, is, header, f1, f2 :
         ProperJob(SetupSubmitted(x, text, is, header, f1, f2))
      <2> TAKE x, text, is, header, f1, f2
      <2>1. \A yield : ProperJob(Job(SetSteps(f1, x.value, f2, text), yield))
            <3> TAKE yield
            <3>1. Harmless(SetSteps(f1, x.value, f2, text))
                  BY HarmlessSteps
            <3> QED BY <3>1, ProperJobs
      <2> QED BY <1>1, <2>1, Zenon DEF SetupSubmitted, KeptOrEmpty
<1>7. \A x, y : ProperJob(EmailSubmitted(x, y)) /\ ProperJob(WhatsappSubmitted(x, y))
      BY <1>6, Zenon DEF EmailSubmitted, WhatsappSubmitted
<1>8. ProperJob(Unhandled(call))
      BY <1>1, Zenon DEF Unhandled
<1> QED BY <1>3, <1>4, <1>5, <1>7, <1>8, ProperBy, Zenon DEF Called

(* What a step turns out to be. *)
LEMMA ProperExpanded ==
    ASSUME NEW do, do \in Expanding
    PROVE  /\ do # "power off" => Harmless(Expanded(do))
           /\ do = "power off" =>
                 /\ IsSequence(Expanded(do)) /\ OffLast(Expanded(do)) /\ AllSure(Expanded(do))
                 /\ ~driver.powered => Expanded(do) = <<>>
                 /\ driver.powered => "pulse off" \in Dos(Expanded(do))
<1>1. Harmless(EnsureSteps)
      <2>1. Harmless(<<Step("power on"), Step("enable data")>>)
            <3>1. Step("power on").do \notin Offs /\ Step("enable data").do \notin Offs
                  BY DEF Step, Offs
            <3> QED BY <3>1, HarmlessTwo
      <2>2. Harmless(DisableDataSteps(driver))
            BY HarmlessDriver
      <2> QED BY <2>1, <2>2, HarmlessNone, Zenon DEF EnsureSteps
<1>2. Harmless(StartupSteps)
      <2>1. Harmless(<<Step("scan")>>)
            <3>1. Step("scan").do \notin Offs
                  BY DEF Step, Offs
            <3> QED BY <3>1, HarmlessOne
      <2>2. \A ssid, pw : Harmless(<<Step("scan"), ConnectStep(ssid, pw, TRUE)>>)
            <3> TAKE ssid, pw
            <3>1. Step("scan").do \notin Offs /\ ConnectStep(ssid, pw, TRUE).do \notin Offs
                  BY DEF Step, ConnectStep, Offs
            <3> QED BY <3>1, HarmlessTwo
      <2> QED BY <2>1, <2>2, HarmlessNone, Zenon DEF StartupSteps
<1>3. ASSUME do # "power off" PROVE Harmless(Expanded(do))
      <2>1. /\ Harmless(PowerOnSteps(driver)) /\ Harmless(EnableDataSteps(driver))
            /\ Harmless(DisableDataSteps(driver))
            BY HarmlessDriver
      <2> QED BY <1>1, <1>2, <1>3, <2>1 DEF Expanded, Expanding
<1>4. ASSUME do = "power off"
      PROVE  /\ IsSequence(Expanded(do)) /\ OffLast(Expanded(do)) /\ AllSure(Expanded(do))
             /\ ~driver.powered => Expanded(do) = <<>>
             /\ driver.powered => "pulse off" \in Dos(Expanded(do))
      <2>1. Expanded(do) = PowerOffSteps(driver)
            BY <1>4 DEF Expanded
      <2> DEFINE e == DisableDataSteps(driver)
                 a == Step("pulse off")
                 t == <<a>>
      <2>2. PowerOffSteps(driver) = IF driver.powered THEN e \o t ELSE <<>>
            BY Zenon DEF PowerOffSteps
      <2>3. a.do = "pulse off"
            BY DEF Step
      <2>4. AllSure(e)
            <3> DEFINE b == Step("stop pump")
                       c == Step("escape")
                       d == Try("ATH", "")
            <3>1. Sure(b) /\ Sure(c) /\ Sure(d)
                  BY DEF Step, Try, At, Sure
            <3>2. e = IF driver.data THEN <<b, c, d>> ELSE <<>>
                  BY Zenon DEF DisableDataSteps
            <3> HIDE DEF b, c, d
            <3>3. \A i \in DOMAIN <<b, c, d>> : Sure(<<b, c, d>>[i])
                  BY <3>1
            <3>4. AllSure(<<b, c, d>>)
                  BY <3>3, Zenon DEF AllSure
            <3>5. AllSure(<<>>)
                  BY NoSteps, Zenon DEF AllSure
            <3> QED BY <3>2, <3>4, <3>5, Zenon
      <2>5. Harmless(e)
            BY HarmlessDriver
      <2> HIDE DEF e, a
      <2>6. IsSequence(t) /\ Dos(t) = {a.do} /\ Len(t) = 1 /\ DOMAIN t = 1 .. 1 /\ t[1] = a
            BY OneStep
      <2> HIDE DEF t
      <2>7. OffLast(t) /\ AllSure(t)
            <3>1. Sure(a)
                  BY <2>3 DEF Sure, Offs
            <3>2. \A i \in DOMAIN t : i = Len(t) /\ t[i] = a
                  BY <2>6
            <3> QED BY <3>1, <3>2 DEF OffLast, AllSure
      <2>8. IsSequence(e) /\ OffLast(e) /\ Dos(e) \cap Offs = {}
            BY <2>5, HarmlessProper DEF Proper, Sane, Harmless
      <2>9. /\ IsSequence(e \o t) /\ OffLast(e \o t) /\ Dos(e \o t) = Dos(e) \cup Dos(t)
            /\ AllSure(e \o t)
            BY <2>4, <2>6, <2>7, <2>8, ExpandedSteps
      <2>10. "pulse off" \in Dos(e \o t)
            BY <2>3, <2>6, <2>9
      <2>11. IsSequence(<<>>) /\ OffLast(<<>>) /\ AllSure(<<>>)
            BY NoSteps, Zenon DEF OffLast, AllSure
      <2> QED BY <2>1, <2>2, <2>9, <2>10, <2>11, Zenon
<1> QED BY <1>3, <1>4

----------------------------------------------------------------------------
(* The invariant, in the parts of the state it is about. *)

(* Nothing is left on that no step left will switch off, and no step left can
   fail. *)
Closing(steps, on, powered) ==
    /\ AllSure(steps)
    /\ on => "wifi stop" \in Dos(steps)
    /\ powered => Dos(steps) \cap Offs # {}

(* Unless it gave a modem up, the driver knows whether the modem is on, and
   pulses PWRKEY to switch it off only if it is. *)
Knows(steps, powered, power, gaveUp) ==
    gaveUp \/ /\ powered <=> power # "off"
              /\ "pulse off" \in Dos(steps) => powered

(* Locked, the main thread is at the job that switches the radios off, or they
   are off; it sleeps only when it is locked. *)
Locks(locked, pc, to, steps, on, powered, sleeps) ==
    /\ pc \in {"doze", "sleep"} => locked
    /\ sleeps => locked /\ pc = "take"
    /\ locked => pc \in {"job", "take", "doze", "sleep"}
    /\ locked /\ pc # "job" => ~on /\ ~powered
    /\ locked /\ pc = "job" => to = "lock" /\ Closing(steps, on, powered)

Shape ==
    /\ {"pc", "job", "to", "locked"} \subseteq DOMAIN main
    /\ "steps" \in DOMAIN main.job
    /\ Sane(main.job.steps)
    /\ "powered" \in DOMAIN driver /\ "power" \in DOMAIN modem
    /\ "on" \in DOMAIN wifi /\ "gaveUp" \in DOMAIN trouble

IInv ==
    /\ Shape
    /\ Knows(main.job.steps, driver.powered, modem.power, trouble.gaveUp)
    /\ Locks(main.locked, main.pc, main.to, main.job.steps, wifi.on,
             driver.powered, asleep)

(* The parts of the world the invariant is about are left as they were. *)
WorldKept ==
    /\ "powered" \in DOMAIN driver' /\ driver'.powered = driver.powered
    /\ "on" \in DOMAIN wifi' /\ wifi'.on = wifi.on
    /\ "power" \in DOMAIN modem' /\ (modem.power = "off" <=> modem'.power = "off")
TroubleKept ==
    "gaveUp" \in DOMAIN trouble' /\ (trouble.gaveUp => trouble'.gaveUp)

LEMMA MishapKept ==
    ASSUME Shape, NEW what, Mishap(what)
    PROVE  TroubleKept
<1>1. /\ DOMAIN trouble' = DOMAIN trouble
      /\ \A f \in DOMAIN trouble :
            trouble'[f] = CASE f = "left" -> trouble.left - 1
                            [] f \in {"met", what} -> TRUE
                            [] OTHER -> trouble[f]
      BY DEF Mishap
<1>2. "gaveUp" \in DOMAIN trouble
      BY DEF Shape
<1>3. trouble'["gaveUp"] = CASE "gaveUp" = "left" -> trouble.left - 1
                             [] "gaveUp" \in {"met", what} -> TRUE
                             [] OTHER -> trouble["gaveUp"]
      BY <1>1, <1>2, Zenon
<1>4. trouble'["gaveUp"] = TRUE \/ trouble'["gaveUp"] = trouble["gaveUp"]
      BY <1>3
<1> QED BY <1>1, <1>2, <1>4, Zenon DEF TroubleKept

LEMMA UnluckyKept ==
    ASSUME Shape, NEW ok, Unlucky(ok)
    PROVE  TroubleKept
<1>1. CASE Mishap("nothing")
      BY <1>1, MishapKept
<1>2. CASE trouble' = trouble
      BY <1>2, Zenon DEF Shape, TroubleKept
<1> QED BY <1>1, <1>2, Zenon DEF Unlucky

(* A step of the others: the main thread stays where it is. *)
LEMMA OthersKeep ==
    ASSUME IInv, main' = main, WorldKept, TroubleKept, asleep' => asleep
    PROVE  IInv'
<1>1. Shape'
      BY DEF IInv, Shape, WorldKept, TroubleKept
<1>2. Knows(main.job.steps, driver.powered, modem.power, trouble.gaveUp)'
      BY Zenon DEF IInv, WorldKept, TroubleKept, Knows
<1>3. Locks(main.locked, main.pc, main.to, main.job.steps, wifi.on, driver.powered, asleep)'
      BY Zenon DEF IInv, WorldKept, Locks
<1> QED BY <1>1, <1>2, <1>3, Zenon DEF IInv

(* What an action makes of the main thread. *)
Becomes(m, pc, to, locked, steps) ==
    /\ {"pc", "job", "to", "locked"} \subseteq DOMAIN m /\ "steps" \in DOMAIN m.job
    /\ m.pc = pc /\ m.to = to /\ m.locked = locked /\ m.job.steps = steps

LEMMA StepDoneParts ==
    ASSUME Shape, NEW ok, NEW got, StepDone(ok, got)
    PROVE  Becomes(main', main.pc, main.to, main.locked,
                   IF ok \/ ~Now.must THEN Tail(main.job.steps) ELSE <<>>)
<1> DEFINE r == IF Now.do = "at" /\ Now.cmd \in ToSet(StatusCommands)
                THEN Append(main.job.replies, [ok |-> ok, info |-> got])
                ELSE main.job.replies
           j1 == [main.job EXCEPT !.steps = Tail(main.job.steps), !.sent = FALSE, !.got = got,
                                  !.replies = r]
           j2 == [main.job EXCEPT !.steps = <<>>, !.sent = FALSE,
                                  !.yield = [is |-> "text", text |-> Failed]]
           j == IF ok \/ ~Now.must THEN j1 ELSE j2
<1>1. main' = [main EXCEPT !.job = j]
      BY Zenon DEF StepDone
<1> HIDE DEF r
<1>2. "steps" \in DOMAIN j1 /\ j1.steps = Tail(main.job.steps)
      BY DEF Shape
<1>3. "steps" \in DOMAIN j2 /\ j2.steps = <<>>
      BY DEF Shape
<1> HIDE DEF j1, j2
<1>4. /\ "steps" \in DOMAIN j
      /\ j.steps = IF ok \/ ~Now.must THEN Tail(main.job.steps) ELSE <<>>
      BY <1>2, <1>3, Zenon
<1> HIDE DEF j
<1>5. /\ DOMAIN main' = DOMAIN main /\ main'.job = j
      /\ main'.pc = main.pc /\ main'.to = main.to /\ main'.locked = main.locked
      BY <1>1 DEF Shape
<1>6. {"pc", "job", "to", "locked"} \subseteq DOMAIN main
      BY DEF Shape
<1> QED BY <1>4, <1>5, <1>6, Zenon DEF Becomes

LEMMA OnwardParts ==
    ASSUME NEW m, NEW scr, {"pc", "job", "to", "locked"} \subseteq DOMAIN m
    PROVE  Becomes(Onward(m, scr), IF m.locked /\ scr = "idle" THEN "doze" ELSE "take", m.to,
                   m.locked, <<>>)
<1> DEFINE j == Job(<<>>, Text(""))
           pc == IF m.locked /\ scr = "idle" THEN "doze" ELSE "take"
<1>1. j.steps = <<>> /\ "steps" \in DOMAIN j
      BY JobSteps
<1>2. Onward(m, scr) = [m EXCEPT !.pc = pc, !.job = j]
      BY Zenon DEF Onward
<1> HIDE DEF j, pc
<1>3. Becomes(Onward(m, scr), pc, m.to, m.locked, <<>>)
      BY <1>1, <1>2 DEF Becomes
<1> QED BY <1>3 DEF pc

LEMMA StartJobParts ==
    ASSUME NEW m, NEW job, NEW to, {"pc", "job", "to", "locked"} \subseteq DOMAIN m,
           ProperJob(job)
    PROVE  Becomes(StartJob(m, job, to), "job", to, m.locked, job.steps)
BY DEF StartJob, Becomes, ProperJob

----------------------------------------------------------------------------
(* The steps of a job. *)

(* The main thread at the same step. *)
LEMMA SameStep ==
    ASSUME IInv, ~asleep', WorldKept, TroubleKept,
           Becomes(main', main.pc, main.to, main.locked, main.job.steps)
    PROVE  IInv'
<1>1. Shape'
      BY DEF IInv, Shape, WorldKept, TroubleKept, Becomes
<1>2. Knows(main.job.steps, driver.powered, modem.power, trouble.gaveUp)'
      BY Zenon DEF IInv, WorldKept, TroubleKept, Knows, Becomes
<1>3. Locks(main.locked, main.pc, main.to, main.job.steps, wifi.on, driver.powered, asleep)'
      BY Zenon DEF IInv, WorldKept, Locks, Becomes
<1> QED BY <1>1, <1>2, <1>3, Zenon DEF IInv

(* The step is done: it did to the world what its name says. *)
Did(do) ==
    \/ do \notin Offs \cup {"wifi stop", "pulse on"} /\ WorldKept
    \/ /\ do = "wifi stop" /\ "on" \in DOMAIN wifi' /\ ~wifi'.on
       /\ driver' = driver /\ modem' = modem
    \/ do = "pulse on" /\ modem' = PulsedOn(modem) /\ driver' = [driver EXCEPT !.powered = TRUE]
       /\ wifi' = wifi
    \/ do = "pulse off" /\ modem' = PulsedOff(modem) /\ driver' = [driver EXCEPT !.powered = FALSE]
       /\ wifi' = wifi

LEMMA StepKeeps ==
    ASSUME IInv, main.pc = "job", main.job.steps # <<>>, ~asleep', TroubleKept,
           NEW rest, Becomes(main', main.pc, main.to, main.locked, rest),
           rest = Tail(main.job.steps) \/ (rest = <<>> /\ ~main.locked),
           Did(Now.do)
    PROVE  IInv'
<1> DEFINE s == main.job.steps
           h == Head(s)
<1>1. IsSequence(s) /\ OffLast(s) /\ s # <<>>
      BY DEF IInv, Shape, Sane
<1>2. Now = h
      BY DEF Now
<1>3. /\ IsSequence(Tail(s)) /\ OffLast(Tail(s)) /\ Dos(s) = {h.do} \cup Dos(Tail(s))
      /\ AllSure(s) => Sure(h) /\ AllSure(Tail(s))
      /\ h.do \in Offs => Tail(s) = <<>>
      BY <1>1, RestOfSteps
<1>4. Sane(rest) /\ Dos(rest) \subseteq Dos(s)
      <2>1. Sane(<<>>) /\ Dos(<<>>) = {}
            BY HarmlessNone, HarmlessProper, NoSteps DEF Proper
      <2> QED BY <1>3, <2>1 DEF Sane
<1>5. /\ "powered" \in DOMAIN driver /\ "power" \in DOMAIN modem /\ "on" \in DOMAIN wifi
      /\ Knows(s, driver.powered, modem.power, trouble.gaveUp)
      /\ Locks(main.locked, "job", main.to, s, wifi.on, driver.powered, asleep)
      BY DEF IInv, Shape
<1> HIDE DEF s, h
<1>6. Did(h.do)
      BY <1>2
<1>7. /\ "powered" \in DOMAIN driver' /\ "power" \in DOMAIN modem' /\ "on" \in DOMAIN wifi'
      /\ Knows(rest, driver'.powered, modem'.power, trouble'.gaveUp)
      /\ main.locked => ~wifi'.on \/ (wifi'.on = wifi.on /\ h.do # "wifi stop")
      /\ main.locked => ~driver'.powered \/ (driver'.powered = driver.powered /\ h.do \notin Offs)
      <2>1. CASE h.do \notin Offs \cup {"wifi stop", "pulse on"} /\ WorldKept
            BY <1>4, <1>5, <2>1 DEF Knows, WorldKept, TroubleKept
      <2>2. CASE /\ h.do = "wifi stop" /\ "on" \in DOMAIN wifi' /\ ~wifi'.on
                 /\ driver' = driver /\ modem' = modem
            BY <1>4, <1>5, <2>2 DEF Knows, TroubleKept, Offs
      <2>3. CASE /\ h.do = "pulse on" /\ modem' = PulsedOn(modem)
                 /\ driver' = [driver EXCEPT !.powered = TRUE] /\ wifi' = wifi
            <3>1. ~main.locked
                  BY <1>3, <1>5, <2>3 DEF Locks, Closing, Sure, Offs
            <3>2. "power" \in DOMAIN modem' /\ modem'.power # "off"
                  BY <1>5, <2>3 DEF PulsedOn
            <3>3. "powered" \in DOMAIN driver' /\ driver'.powered = TRUE
                  BY <1>5, <2>3
            <3> QED BY <1>5, <2>3, <3>1, <3>2, <3>3 DEF Knows
      <2>4. CASE /\ h.do = "pulse off" /\ modem' = PulsedOff(modem)
                 /\ driver' = [driver EXCEPT !.powered = FALSE] /\ wifi' = wifi
            <3>1. rest = <<>> /\ Dos(rest) = {}
                  BY <1>3, <2>4, NoSteps DEF Offs, s
            <3>2. "powered" \in DOMAIN driver' /\ driver'.powered = FALSE
                  BY <1>5, <2>4
            <3>3. trouble.gaveUp \/ modem.power # "off"
                  BY <1>3, <1>5, <2>4, Zenon DEF Knows
            <3>4. "power" \in DOMAIN modem' /\ (modem.power # "off" => modem'.power = "off")
                  BY <1>5, <2>4 DEF PulsedOff, PulsedOn
            <3>5. Knows(rest, driver'.powered, modem'.power, trouble'.gaveUp)
                  BY <3>1, <3>2, <3>3, <3>4, Zenon DEF Knows, TroubleKept
            <3>6. main.locked => ~wifi'.on \/ (wifi'.on = wifi.on /\ h.do # "wifi stop")
                  BY <2>4
            <3> QED BY <1>5, <2>4, <3>2, <3>4, <3>5, <3>6
      <2> QED BY <1>6, <2>1, <2>2, <2>3, <2>4, Zenon DEF Did
<1>8. ASSUME main.locked
      PROVE  Closing(rest, wifi'.on, driver'.powered)
      <2>1. rest = Tail(s) /\ AllSure(rest) /\ Dos(s) = {h.do} \cup Dos(rest)
            BY <1>3, <1>5, <1>8 DEF Locks, Closing, s
      <2>2. /\ wifi.on => "wifi stop" \in Dos(s)
            /\ driver.powered => Dos(s) \cap Offs # {}
            BY <1>5, <1>8, Zenon DEF Locks, Closing
      <2>3. wifi'.on => "wifi stop" \in Dos(rest)
            BY <1>7, <1>8, <2>1, <2>2
      <2>4. driver'.powered => Dos(rest) \cap Offs # {}
            BY <1>7, <1>8, <2>1, <2>2
      <2> QED BY <2>1, <2>3, <2>4, Zenon DEF Closing
<1>9. /\ {"pc", "job", "to", "locked"} \subseteq DOMAIN main' /\ "steps" \in DOMAIN main'.job
      /\ main'.pc = "job" /\ main'.to = main.to /\ main'.locked = main.locked
      /\ main'.job.steps = rest
      BY Zenon DEF Becomes
<1>10. Shape'
      BY <1>4, <1>7, <1>9 DEF Shape, TroubleKept
<1>11. Locks(main'.locked, main'.pc, main'.to, main'.job.steps, wifi'.on, driver'.powered, asleep')
      <2>1. main.locked => main.to = "lock"
            BY <1>5 DEF Locks
      <2> QED BY <1>8, <1>9, <2>1 DEF Locks
<1> QED BY <1>7, <1>9, <1>10, <1>11, Zenon DEF IInv

(* The main thread is at a job, and awake. *)
LEMMA AtJob ==
    ASSUME IInv, MainAt("job"), main.job.steps # <<>>
    PROVE  /\ ~asleep /\ main.pc = "job"
           /\ IsSequence(main.job.steps) /\ OffLast(main.job.steps)
           /\ Now = Head(main.job.steps) /\ Now.do \in Dos(main.job.steps)
           /\ main.locked => Sure(Now)
<1>1. /\ ~asleep /\ main.pc = "job"
      /\ IsSequence(main.job.steps) /\ OffLast(main.job.steps)
      BY DEF MainAt, IInv, Shape, Sane
<1>2. Now = Head(main.job.steps)
      BY DEF Now
<1>3. main.locked => AllSure(main.job.steps)
      BY <1>1, Zenon DEF IInv, Locks, Closing
<1> QED BY <1>1, <1>2, <1>3, RestOfSteps

(* A step that is done, well or not. *)
LEMMA DoneKeeps ==
    ASSUME IInv, MainAt("job"), main.job.steps # <<>>, asleep' = asleep, TroubleKept,
           NEW ok, NEW got, StepDone(ok, got), Did(Now.do),
           main.locked => ok \/ ~Now.must
    PROVE  IInv'
<1> DEFINE rest == IF ok \/ ~Now.must THEN Tail(main.job.steps) ELSE <<>>
<1>1. ~asleep /\ main.pc = "job"
      BY AtJob
<1>2. Becomes(main', main.pc, main.to, main.locked, rest)
      BY StepDoneParts DEF IInv
<1>3. rest = Tail(main.job.steps) \/ (rest = <<>> /\ ~main.locked)
      BY Zenon
<1> HIDE DEF rest
<1> QED BY <1>1, <1>2, <1>3, StepKeeps

LEMMA ExpandKeeps ==
    ASSUME IInv, Expand
    PROVE  IInv'
<1> DEFINE s == main.job.steps
           e == Expanded(Now.do)
           t == Tail(s)
           rest == e \o t
<1>1. MainAt("job") /\ s # <<>> /\ Now.do \in Expanding
      BY DEF Expand
<1>2. /\ ~asleep /\ main.pc = "job" /\ IsSequence(s) /\ OffLast(s)
      /\ Now = Head(s) /\ (main.locked => Sure(Now))
      BY <1>1, AtJob
<1>3. /\ UNCHANGED worldVars /\ UNCHANGED trouble /\ asleep' = asleep
      BY DEF Expand, OnlyMain, inputVars
<1>4. Becomes(main', main.pc, main.to, main.locked, rest)
      <2>1. main' = [main EXCEPT !.job.steps = rest]
            BY Zenon DEF Expand
      <2> HIDE DEF rest
      <2> QED BY <2>1 DEF IInv, Shape, Becomes
<1>5. /\ IsSequence(t) /\ OffLast(t) /\ Dos(s) = {Now.do} \cup Dos(t)
      /\ AllSure(s) => AllSure(t)
      /\ Now.do \in Offs => t = <<>>
      BY <1>1, <1>2, RestOfSteps
<1>6. /\ IsSequence(e) /\ OffLast(e) /\ (Dos(e) \cap Offs = {} \/ t = <<>>)
      /\ Now.do # "power off" => Dos(e) \cap Offs = {}
      /\ Now.do = "power off" =>
            /\ AllSure(e)
            /\ ~driver.powered => e = <<>>
            /\ driver.powered => "pulse off" \in Dos(e)
      <2>1. CASE Now.do # "power off"
            <3>1. Harmless(e)
                  BY <1>1, <2>1, ProperExpanded
            <3> QED BY <2>1, <3>1, HarmlessProper DEF Proper, Sane, Harmless
      <2>2. CASE Now.do = "power off"
            <3>1. t = <<>>
                  BY <1>5, <2>2 DEF Offs
            <3> QED BY <1>1, <2>2, <3>1, ProperExpanded
      <2> QED BY <2>1, <2>2
<1>7. /\ /\ "powered" \in DOMAIN driver /\ "power" \in DOMAIN modem /\ "on" \in DOMAIN wifi
         /\ "gaveUp" \in DOMAIN trouble
      /\ Knows(s, driver.powered, modem.power, trouble.gaveUp)
      /\ Locks(main.locked, "job", main.to, s, wifi.on, driver.powered, asleep)
      BY <1>2 DEF IInv, Shape
<1> DEFINE do == Now.do
<1>8. do \in Expanding
      BY <1>1
<1>10. main.locked => do = "power off"
      BY <1>1, <1>2 DEF Expanding, Sure, Offs
<1> HIDE DEF e, t, s, do
<1>11. /\ IsSequence(rest) /\ OffLast(rest) /\ Dos(rest) = Dos(e) \cup Dos(t)
       /\ AllSure(e) /\ AllSure(t) => AllSure(rest)
      BY <1>5, <1>6, ExpandedSteps
<1> HIDE DEF rest
<1>12. Knows(rest, driver.powered, modem.power, trouble.gaveUp)
      <2>1. ASSUME "pulse off" \in Dos(rest), "pulse off" \notin Dos(s)
            PROVE  driver.powered
            <3>1. "pulse off" \in Dos(e)
                  BY <1>5, <1>11, <2>1
            <3>2. Now.do = "power off"
                  BY <1>6, <3>1 DEF Offs
            <3> QED BY <1>6, <3>1, <3>2, NoSteps
      <2> QED BY <1>7, <2>1, Zenon DEF Knows
<1>13. ASSUME main.locked PROVE Closing(rest, wifi.on, driver.powered)
      <2>1. Now.do = "power off" /\ Closing(s, wifi.on, driver.powered)
            BY <1>7, <1>10, <1>13, Zenon DEF Locks, do
      <2>2. AllSure(rest)
            BY <1>5, <1>6, <1>11, <2>1 DEF Closing
      <2>3. wifi.on => "wifi stop" \in Dos(rest)
            BY <1>5, <1>11, <2>1 DEF Closing
      <2>4. driver.powered => Dos(rest) \cap Offs # {}
            BY <1>6, <1>11, <2>1 DEF Offs
      <2> QED BY <2>2, <2>3, <2>4, Zenon DEF Closing
<1>14. Shape'
      BY <1>3, <1>4, <1>7, <1>11 DEF Shape, Sane, Becomes, worldVars
<1>15. Locks(main'.locked, main'.pc, main'.to, main'.job.steps, wifi.on, driver.powered, asleep)
      BY <1>2, <1>4, <1>7, <1>13, Zenon DEF Becomes, Locks
<1>16. Knows(main'.job.steps, driver.powered, modem.power, trouble.gaveUp)
      BY <1>4, <1>12, Zenon DEF Becomes
<1>17. driver' = driver /\ modem' = modem /\ wifi' = wifi /\ trouble' = trouble /\ asleep' = asleep
      BY <1>3 DEF worldVars
<1> QED BY <1>14, <1>15, <1>16, <1>17, Zenon DEF IInv

LEMMA SameWorld ==
    ASSUME Shape, driver' = driver, modem' = modem, wifi' = wifi
    PROVE  WorldKept
BY DEF Shape, WorldKept

LEMMA SameTrouble ==
    ASSUME Shape, trouble' = trouble
    PROVE  TroubleKept
BY Zenon DEF Shape, TroubleKept

LEMMA SentKept ==
    ASSUME Shape, NEW cmd, NEW arg, modem' = Sent(modem, cmd, arg), driver' = driver, wifi' = wifi
    PROVE  WorldKept
BY DEF Shape, WorldKept, Sent

(* What a driver's call does to the world, how it may go, and what it costs. *)
LEMMA WorldStepDid ==
    ASSUME Shape, NEW step, NEW ok, WorldStep(step, ok)
    PROVE  /\ Did(step.do) /\ TroubleKept
           /\ step.do \in {"wifi stop", "stop pump", "escape"} \cup Offs => ok
           /\ step.do # "at"
<1>1. CASE PulseOn(step, ok) \/ PulseOff(step, ok)
      <2>1. TroubleKept
            BY <1>1, SameTrouble DEF PulseOn, PulseOff
      <2> QED BY <1>1, <2>1 DEF PulseOn, PulseOff, Did, Offs
<1>2. CASE Ppp(step, ok)
      <2>1. TroubleKept
            BY <1>2, UnluckyKept DEF Ppp
      <2>2. WorldKept
            BY <1>2 DEF Ppp, Shape, WorldKept
      <2> QED BY <1>2, <2>1, <2>2 DEF Ppp, Did, Offs
<1>3. CASE StopPump(step, ok)
      <2>1. TroubleKept
            BY <1>3, SameTrouble DEF StopPump
      <2>2. WorldKept
            BY <1>3 DEF StopPump, Shape, WorldKept
      <2> QED BY <1>3, <2>1, <2>2 DEF StopPump, Did, Offs
<1>4. CASE Escape(step, ok)
      <2>1. TroubleKept
            BY <1>4, SameTrouble DEF Escape
      <2>2. WorldKept
            BY <1>4, SentKept DEF Escape
      <2> QED BY <1>4, <2>1, <2>2 DEF Escape, Did, Offs
<1>5. CASE Scan(step, ok)
      <2>1. TroubleKept
            BY <1>5, UnluckyKept DEF Scan
      <2>2. WorldKept
            BY <1>5, SameWorld DEF Scan, WifiOnly
      <2> QED BY <1>5, <2>1, <2>2 DEF Scan, Did, Offs
<1>6. CASE Connect(step, ok)
      <2>1. TroubleKept
            BY <1>6, UnluckyKept DEF Connect
      <2>2. WorldKept
            BY <1>6 DEF Connect, WifiOnly, Shape, WorldKept
      <2> QED BY <1>6, <2>1, <2>2 DEF Connect, Did, Offs
<1>7. CASE Disconnect(step, ok)
      <2>1. TroubleKept
            BY <1>7, UnluckyKept DEF Disconnect
      <2>2. WorldKept
            BY <1>7 DEF Disconnect, WifiOnly, Shape, WorldKept
      <2> QED BY <1>7, <2>1, <2>2 DEF Disconnect, Did, Offs
<1>8. CASE WifiStop(step, ok)
      <2>1. TroubleKept
            BY <1>8, SameTrouble DEF WifiStop
      <2> QED BY <1>8, <2>1 DEF WifiStop, WifiOnly, Did, Offs
<1>9. CASE NvsSet(step, ok)
      <2>1. TroubleKept
            BY <1>9, UnluckyKept DEF NvsSet
      <2>2. WorldKept
            BY <1>9, SameWorld DEF NvsSet, NvsOnly
      <2> QED BY <1>9, <2>1, <2>2 DEF NvsSet, Did, Offs
<1>10. ASSUME NEW nets, NEW written, WriteAll(nets, written)
       PROVE  TroubleKept /\ WorldKept
      <2>1. TroubleKept
            BY <1>10, UnluckyKept DEF WriteAll
      <2> QED BY <1>10, <2>1, SameWorld DEF WriteAll, NvsOnly
<1>11. CASE SaveNet(step, ok)
      <2>1. step.do = "save" /\ \E nets, written : WriteAll(nets, written)
            BY <1>11, Zenon DEF SaveNet
      <2> QED BY <1>10, <2>1 DEF Did, Offs
<1>12. CASE DeleteNet(step, ok)
      <2>1. step.do = "delete" /\ \E nets, written : WriteAll(nets, written)
            BY <1>12, Zenon DEF DeleteNet
      <2> QED BY <1>10, <2>1 DEF Did, Offs
<1>13. CASE Migrate(step, ok)
      <2>1. TroubleKept
            BY <1>13, UnluckyKept DEF Migrate
      <2>2. WorldKept
            BY <1>13, SameWorld DEF Migrate, NvsOnly
      <2> QED BY <1>13, <2>1, <2>2 DEF Migrate, Did, Offs
<1>14. CASE HttpGet(step, ok) \/ HttpPost(step, ok) \/ Smtp(step, ok)
      <2>1. TroubleKept
            BY <1>14, UnluckyKept DEF HttpGet, HttpPost, Smtp
      <2>2. WorldKept
            BY <1>14, SameWorld DEF HttpGet, HttpPost, Smtp, ServersOnly
      <2>3. step.do \in {"get", "post", "smtp"}
            BY <1>14 DEF HttpGet, HttpPost, Smtp
      <2> QED BY <2>1, <2>2, <2>3 DEF Did, Offs
<1> QED BY <1>1, <1>2, <1>3, <1>4, <1>5, <1>6, <1>7, <1>8, <1>9, <1>11, <1>12, <1>13, <1>14
        DEF WorldStep

LEMMA DriverCallKeeps ==
    ASSUME IInv, DriverCall
    PROVE  IInv'
<1>1. MainAt("job") /\ main.job.steps # <<>> /\ asleep' = asleep
      BY DEF DriverCall, OnlyMain, inputVars
<1>2. PICK ok \in BOOLEAN : WorldStep(Now, ok) /\ StepDone(ok, main.job.got)
      BY Zenon DEF DriverCall
<1>3. /\ Did(Now.do) /\ TroubleKept
      /\ Now.do \in {"wifi stop", "stop pump", "escape"} \cup Offs => ok
      /\ Now.do # "at"
      BY <1>2, WorldStepDid DEF IInv
<1>4. main.locked => ok
      BY <1>1, <1>3, AtJob DEF Sure
<1> QED BY <1>1, <1>2, <1>3, <1>4, DoneKeeps

(* A command, and `AT` until it is answered: the world is left as it was. *)
LEMMA AtDid ==
    ASSUME Running("at") \/ Running("hello"), WorldKept
    PROVE  /\ MainAt("job") /\ main.job.steps # <<>> /\ Did(Now.do)
BY DEF Running, Did, Offs

LEMMA AtLocked ==
    ASSUME IInv, Running("at") \/ Running("hello"), main.locked
    PROVE  ~Now.must /\ Now.do = "at"
<1>1. MainAt("job") /\ main.job.steps # <<>> /\ Now.do \in {"at", "hello"}
      BY DEF Running
<1>2. Sure(Now)
      BY <1>1, AtJob
<1> QED BY <1>1, <1>2 DEF Sure, Offs

LEMMA SendCommandKeeps ==
    ASSUME IInv, SendCommand
    PROVE  IInv'
<1>1. /\ Running("at") \/ Running("hello")
      /\ driver' = driver /\ wifi' = wifi /\ trouble' = trouble /\ asleep' = asleep
      BY DEF SendCommand, OnlyMain, inputVars
<1>2. Shape /\ TroubleKept
      BY <1>1, SameTrouble DEF IInv
<1>3. MainAt("job") /\ ~asleep
      BY <1>1 DEF Running, MainAt
<1>4. CASE Refused
      <2>1. StepDone(FALSE, <<>>) /\ modem' = modem
            BY <1>4 DEF SendCommand
      <2>2. WorldKept
            BY <1>1, <1>2, <2>1, SameWorld
      <2>3. main.job.steps # <<>> /\ Did(Now.do)
            BY <1>1, <2>2, AtDid
      <2>4. main.locked => ~Now.must
            BY <1>1, AtLocked
      <2> QED BY <1>1, <1>2, <1>3, <2>1, <2>3, <2>4, DoneKeeps
<1>5. CASE ~Refused
      <2>1. /\ modem' = Sent(modem, Spoken, IF Now.do = "hello" THEN "" ELSE Now.arg)
            /\ main' = [main EXCEPT !.job.sent = TRUE, !.job.got = <<>>]
            BY <1>5, Zenon DEF SendCommand
      <2>2. WorldKept
            BY <1>1, <1>2, <2>1, SentKept
      <2>3. Becomes(main', main.pc, main.to, main.locked, main.job.steps)
            BY <1>2, <2>1 DEF Shape, Becomes
      <2> QED BY <1>1, <1>2, <1>3, <2>2, <2>3, SameStep
<1> QED BY <1>4, <1>5

LEMMA ReadAnswerKeeps ==
    ASSUME IInv, ReadAnswer
    PROVE  IInv'
<1>1. /\ Running("at") \/ Running("hello")
      /\ driver' = driver /\ modem' = modem /\ wifi' = wifi /\ trouble' = trouble
      /\ asleep' = asleep
      BY DEF ReadAnswer, OnlyMain, inputVars
<1>2. Shape /\ TroubleKept /\ WorldKept
      BY <1>1, SameTrouble, SameWorld DEF IInv
<1>3. MainAt("job") /\ ~asleep /\ main.job.steps # <<>> /\ Did(Now.do)
      BY <1>1, <1>2, AtDid DEF MainAt
<1>4. main.locked => ~Now.must
      BY <1>1, AtLocked
<1>5. \/ \E ok, got : StepDone(ok, got)
      \/ \E sent, got : main' = [main EXCEPT !.job.sent = sent, !.job.got = got]
      BY ZenonT(60) DEF ReadAnswer
<1>6. CASE \E ok, got : StepDone(ok, got)
      BY <1>1, <1>2, <1>3, <1>4, <1>6, DoneKeeps
<1>7. CASE \E sent, got : main' = [main EXCEPT !.job.sent = sent, !.job.got = got]
      <2>1. PICK sent, got : main' = [main EXCEPT !.job.sent = sent, !.job.got = got]
            BY <1>7
      <2>2. Becomes(main', main.pc, main.to, main.locked, main.job.steps)
            BY <1>2, <2>1 DEF Shape, Becomes
      <2> QED BY <1>1, <1>2, <1>3, <2>2, SameStep
<1> QED BY <1>5, <1>6, <1>7

LEMMA CommandTimesOutKeeps ==
    ASSUME IInv, CommandTimesOut
    PROVE  IInv'
<1>1. /\ Running("at") /\ UNCHANGED worldVars /\ asleep' = asleep
      /\ StepDone(FALSE, <<>>) /\ Unlucky(ModemSilent)
      BY DEF CommandTimesOut, OnlyMain, inputVars
<1>2. TroubleKept /\ WorldKept
      BY <1>1, UnluckyKept, SameWorld DEF IInv, worldVars
<1>3. MainAt("job") /\ main.job.steps # <<>> /\ Did(Now.do)
      BY <1>1, <1>2, AtDid
<1>4. main.locked => ~Now.must
      BY <1>1, AtLocked
<1> QED BY <1>1, <1>2, <1>3, <1>4, DoneKeeps

LEMMA HelloAgainKeeps ==
    ASSUME IInv, HelloAgain
    PROVE  IInv'
<1>1. /\ Running("hello") /\ UNCHANGED worldVars /\ trouble' = trouble /\ asleep' = asleep
      /\ main' = [main EXCEPT !.job.sent = FALSE]
      BY DEF HelloAgain, OnlyMain, inputVars
<1>2. Shape /\ TroubleKept /\ WorldKept
      BY <1>1, SameTrouble, SameWorld DEF IInv, worldVars
<1>3. ~asleep
      BY <1>1 DEF Running, MainAt
<1>4. Becomes(main', main.pc, main.to, main.locked, main.job.steps)
      BY <1>1, <1>2 DEF Shape, Becomes
<1> QED BY <1>1, <1>2, <1>3, <1>4, SameStep

(* The modem given up: it may be on, and the driver does not know. *)
LEMMA HelloGivesUpKeeps ==
    ASSUME IInv, HelloGivesUp
    PROVE  IInv'
<1>1. /\ Running("hello") /\ Mishap("gaveUp") /\ modem' = modem /\ wifi' = wifi
      /\ driver' = [driver EXCEPT !.powered = FALSE]
      /\ StepDone(FALSE, <<>>) /\ asleep' = asleep
      BY DEF HelloGivesUp, OnlyMain, inputVars
<1>2. Shape /\ TroubleKept
      BY <1>1, MishapKept DEF IInv
<1>3. trouble'.gaveUp
      <2>1. "gaveUp" \in DOMAIN trouble
            BY <1>2 DEF Shape
      <2>2. \A f \in DOMAIN trouble :
               trouble'[f] = CASE f = "left" -> trouble.left - 1
                               [] f \in {"met", "gaveUp"} -> TRUE
                               [] OTHER -> trouble[f]
            BY <1>1 DEF Mishap
      <2> QED BY <2>1, <2>2
<1>4. MainAt("job") /\ main.job.steps # <<>> /\ Now.do = "hello"
      BY <1>1 DEF Running
<1>5. /\ ~asleep /\ main.pc = "job" /\ IsSequence(main.job.steps) /\ OffLast(main.job.steps)
      /\ main.locked => Sure(Now)
      BY <1>4, AtJob
<1>6. ~main.locked
      BY <1>4, <1>5 DEF Sure, Offs
<1> DEFINE rest == IF FALSE \/ ~Now.must THEN Tail(main.job.steps) ELSE <<>>
<1>7. Becomes(main', main.pc, main.to, main.locked, rest)
      BY <1>1, <1>2, StepDoneParts
<1>8. Sane(rest)
      <2>1. Sane(<<>>)
            BY HarmlessNone, HarmlessProper DEF Proper
      <2> QED BY <1>4, <1>5, <2>1, RestOfSteps DEF Sane
<1> HIDE DEF rest
<1>9. Shape'
      BY <1>1, <1>2, <1>7, <1>8 DEF Shape, Becomes, TroubleKept
<1>10. Knows(main.job.steps, driver.powered, modem.power, trouble.gaveUp)'
      BY <1>3, Zenon DEF Knows
<1>11. Locks(main.locked, main.pc, main.to, main.job.steps, wifi.on, driver.powered, asleep)'
      BY <1>1, <1>5, <1>6, <1>7 DEF Locks, Becomes
<1> QED BY <1>9, <1>10, <1>11, Zenon DEF IInv

LEMMA AskInputKeeps ==
    ASSUME IInv, AskInput
    PROVE  IInv'
<1>1. /\ Running("ask") /\ UNCHANGED worldVars /\ trouble' = trouble /\ asleep' = asleep
      /\ main' = [main EXCEPT !.job.sent = TRUE]
      BY DEF AskInput
<1>2. Shape /\ TroubleKept /\ WorldKept
      BY <1>1, SameTrouble, SameWorld DEF IInv, worldVars
<1>3. ~asleep
      BY <1>1 DEF Running, MainAt
<1>4. Becomes(main', main.pc, main.to, main.locked, main.job.steps)
      BY <1>1, <1>2 DEF Shape, Becomes
<1> QED BY <1>1, <1>2, <1>3, <1>4, SameStep

LEMMA InputAnswersKeeps ==
    ASSUME IInv, InputAnswers
    PROVE  IInv'
<1>1. /\ Running("ask") /\ UNCHANGED worldVars /\ trouble' = trouble /\ asleep' = asleep
      /\ StepDone(answer.result = "ok", <<>>)
      BY DEF InputAnswers
<1>2. Shape /\ TroubleKept /\ WorldKept
      BY <1>1, SameTrouble, SameWorld DEF IInv, worldVars
<1>3. MainAt("job") /\ main.job.steps # <<>> /\ Now.do = "ask" /\ Did(Now.do)
      BY <1>1, <1>2 DEF Running, Did, Offs
<1>4. ~main.locked
      BY <1>3, AtJob DEF Sure, Offs
<1> QED BY <1>1, <1>2, <1>3, <1>4, DoneKeeps

----------------------------------------------------------------------------
(* The job is done, and events. *)

(* The main thread goes elsewhere, awake. *)
LEMMA GoesTo ==
    ASSUME IInv, ~asleep', WorldKept, TroubleKept,
           NEW pc, NEW to, NEW locked, NEW rest, Becomes(main', pc, to, locked, rest),
           rest = main.job.steps \/ Proper(rest),
           pc \in {"doze", "sleep"} => locked,
           locked => \/ pc \in {"take", "doze", "sleep"} /\ ~wifi.on /\ ~driver.powered
                     \/ pc = "job" /\ to = "lock" /\ Closing(rest, wifi.on, driver.powered)
    PROVE  IInv'
<1>1. Shape'
      BY DEF IInv, Shape, WorldKept, TroubleKept, Becomes, Proper
<1>2. Knows(main.job.steps, driver.powered, modem.power, trouble.gaveUp)'
      <2>1. "pulse off" \in Dos(rest) => "pulse off" \in Dos(main.job.steps)
            BY Zenon DEF Proper
      <2> QED BY <2>1, Zenon DEF IInv, WorldKept, TroubleKept, Knows, Becomes
<1>3. Locks(main.locked, main.pc, main.to, main.job.steps, wifi.on, driver.powered, asleep)'
      <2>1. Locks(locked, pc, to, rest, wifi.on, driver.powered, FALSE)
            BY DEF Locks
      <2>2. Locks(locked, pc, to, rest, wifi'.on, driver'.powered, asleep')
            BY <2>1, Zenon DEF WorldKept, Locks
      <2> QED BY <2>2, Zenon DEF Becomes
<1> QED BY <1>1, <1>2, <1>3, Zenon DEF IInv

(* Locked, and at no job or done with it, both radios are off; and the only job
   there is then is the lock's. *)
LEMMA AtRest ==
    ASSUME IInv, main.locked, main.pc # "job" \/ main.job.steps = <<>>
    PROVE  ~wifi.on /\ ~driver.powered
<1>1. Locks(main.locked, main.pc, main.to, main.job.steps, wifi.on, driver.powered, asleep)
      BY DEF IInv
<1>2. CASE main.pc # "job"
      BY <1>1, <1>2 DEF Locks
<1>3. CASE main.pc = "job" /\ main.job.steps = <<>>
      BY <1>1, <1>3, NoSteps DEF Locks, Closing
<1> QED BY <1>2, <1>3

LEMMA LockedAt ==
    ASSUME IInv, main.locked
    PROVE  /\ main.pc \in {"job", "take", "doze", "sleep"}
           /\ main.pc = "job" => main.to = "lock"
BY DEF IInv, Locks

LEMMA ProperNone == Proper(<<>>)
BY HarmlessNone, HarmlessProper

LEMMA OnwardKeeps ==
    ASSUME IInv, ~asleep', WorldKept, TroubleKept, NEW m, NEW scr, main' = Onward(m, scr),
           {"pc", "job", "to", "locked"} \subseteq DOMAIN m,
           m.locked => ~wifi.on /\ ~driver.powered
    PROVE  IInv'
<1> DEFINE pc == IF m.locked /\ scr = "idle" THEN "doze" ELSE "take"
<1>1. Becomes(main', pc, m.to, m.locked, <<>>)
      BY OnwardParts
<1>2. /\ pc \in {"doze", "sleep"} => m.locked
      /\ pc \in {"take", "doze", "sleep"}
      OBVIOUS
<1> HIDE DEF pc
<1> QED BY <1>1, <1>2, ProperNone, GoesTo

LEMMA StartKeeps ==
    ASSUME IInv, ~asleep', WorldKept, TroubleKept, NEW m, NEW job, NEW to,
           main' = StartJob(m, job, to), {"pc", "job", "to", "locked"} \subseteq DOMAIN m,
           ProperJob(job),
           m.locked => to = "lock" /\ Closing(job.steps, wifi.on, driver.powered)
    PROVE  IInv'
<1>1. Becomes(main', "job", to, m.locked, job.steps) /\ Proper(job.steps)
      BY StartJobParts DEF ProperJob
<1> QED BY <1>1, GoesTo

(* An unlocked main thread goes elsewhere. *)
LEMMA FreeKeeps ==
    ASSUME IInv, ~asleep', WorldKept, TroubleKept, ~main.locked, NEW pc, NEW to,
           pc \notin {"doze", "sleep"},
           Becomes(main', pc, to, main.locked, main.job.steps)
    PROVE  IInv'
BY GoesTo

LEMMA NoInputKept ==
    ASSUME IInv, NoInput
    PROVE  WorldKept /\ TroubleKept /\ asleep' = asleep
BY SameTrouble, SameWorld DEF NoInput, worldVars, inputVars, IInv

LEMMA JobDoneParts ==
    ASSUME IInv, NEW to, JobDone(to)
    PROVE  /\ ~asleep /\ main.pc = "job" /\ main.job.steps = <<>> /\ main.to = to
           /\ {"pc", "job", "to", "locked"} \subseteq DOMAIN main
           /\ main.locked => to = "lock" /\ ~wifi.on /\ ~driver.powered
<1>1. /\ ~asleep /\ main.pc = "job" /\ main.job.steps = <<>> /\ main.to = to
      /\ {"pc", "job", "to", "locked"} \subseteq DOMAIN main
      BY DEF JobDone, MainAt, IInv, Shape
<1> QED BY <1>1, AtRest, LockedAt

LEMMA DoneOnward ==
    ASSUME IInv, NoInput, NEW to, JobDone(to), NEW scr, main' = Onward(main, scr)
    PROVE  IInv'
BY NoInputKept, JobDoneParts, OnwardKeeps

LEMMA DoneStart ==
    ASSUME IInv, NoInput, NEW done, JobDone(done), done # "lock", NEW m, NEW job, NEW to,
           main' = StartJob(m, job, to), {"pc", "job", "to", "locked"} \subseteq DOMAIN m,
           m.locked = main.locked, ProperJob(job)
    PROVE  IInv'
BY NoInputKept, JobDoneParts, StartKeeps

LEMMA DoneElsewhere ==
    ASSUME IInv, WorldKept, TroubleKept, asleep' = asleep, NEW done, JobDone(done), done # "lock",
           NEW pc, NEW to, pc \notin {"doze", "sleep"},
           Becomes(main', pc, to, main.locked, main.job.steps)
    PROVE  IInv'
BY JobDoneParts, FreeKeeps

LEMMA ShownKeeps ==
    ASSUME IInv, Booted \/ Shown \/ ShownClear \/ Dark
    PROVE  IInv'
<1>1. /\ NoInput /\ main' = Onward(main, screen)
      /\ JobDone("boot") \/ JobDone("exec") \/ JobDone("mode") \/ JobDone("lock")
      BY Zenon DEF Booted, Shown, ShownClear, Dark
<1> QED BY <1>1, DoneOnward

LEMMA GoingDownKeeps ==
    ASSUME IInv, GoingDown
    PROVE  IInv'
<1>1. NoInput /\ JobDone("exec") /\ main' = [main EXCEPT !.pc = "finish", !.to = Yielded.is]
      BY Zenon DEF GoingDown
<1>2. Becomes(main', "finish", Yielded.is, main.locked, main.job.steps)
      BY <1>1 DEF IInv, Shape, Becomes
<1> QED BY <1>1, <1>2, NoInputKept, DoneElsewhere

LEMMA CallingKeeps ==
    ASSUME IInv, Calling
    PROVE  IInv'
<1> DEFINE m == [main EXCEPT !.volume = MaxVolume]
           job == Job(QueryVolume, [is |-> "call"])
<1>1. NoInput /\ JobDone("exec") /\ main' = StartJob(m, job, "volume")
      BY Zenon DEF Calling
<1>2. {"pc", "job", "to", "locked"} \subseteq DOMAIN m /\ m.locked = main.locked
      BY DEF IInv, Shape
<1>3. ProperJob(job)
      <2>1. Harmless(QueryVolume)
            BY HarmlessDriver
      <2> QED BY <2>1, ProperJobs
<1> HIDE DEF m, job
<1> QED BY <1>1, <1>2, <1>3, DoneStart

LEMMA OffKeeps ==
    ASSUME IInv, Off \/ Shipping
    PROVE  IInv'
<1>1. /\ UNCHANGED worldVars /\ trouble' = trouble /\ asleep' = asleep
      /\ JobDone("off") \/ JobDone("shipped")
      /\ main' = [main EXCEPT !.pc = "off"] \/ main' = [main EXCEPT !.pc = "shipped"]
      BY DEF Off, Shipping, NoInput, inputVars
<1>2. WorldKept /\ TroubleKept
      BY <1>1, SameWorld, SameTrouble DEF IInv, worldVars
<1>3. \/ Becomes(main', "off", main.to, main.locked, main.job.steps)
      \/ Becomes(main', "shipped", main.to, main.locked, main.job.steps)
      BY <1>1 DEF IInv, Shape, Becomes
<1> QED BY <1>1, <1>2, <1>3, DoneElsewhere

LEMMA ShipKeeps ==
    ASSUME IInv, Ship
    PROVE  IInv'
<1> DEFINE job == Job(<<Ask("charger", "shutdown")>>, Text(""))
<1>1. NoInput /\ JobDone("ship") /\ main' = StartJob(main, job, "shipped")
      BY Zenon DEF Ship
<1>2. ProperJob(job)
      <2>1. Ask("charger", "shutdown").do \notin Offs
            BY DEF Ask, Offs
      <2> QED BY <2>1, HarmlessOne, ProperJobs
<1>3. {"pc", "job", "to", "locked"} \subseteq DOMAIN main
      BY DEF IInv, Shape
<1> HIDE DEF job
<1> QED BY <1>1, <1>2, <1>3, DoneStart

LEMMA HungUpKeeps ==
    ASSUME IInv, HungUp
    PROVE  IInv'
<1>1. NoInput /\ JobDone("hung") /\ main' = Onward(main, screen)
      BY Zenon DEF HungUp, CallOver
<1> QED BY <1>1, DoneOnward

LEMMA VolumeKnownKeeps ==
    ASSUME IInv, VolumeKnown
    PROVE  IInv'
<1>1. NoInput /\ JobDone("volume") /\ \E v : main' = [main EXCEPT !.pc = "poll", !.volume = v]
      BY Zenon DEF VolumeKnown
<1>2. Becomes(main', "poll", main.to, main.locked, main.job.steps)
      BY <1>1 DEF IInv, Shape, Becomes
<1> QED BY <1>1, <1>2, NoInputKept, DoneElsewhere

(* The main thread takes an event. *)
LEMMA EventKept ==
    ASSUME IInv, TakeEvent, NEW pc, MainAt(pc)
    PROVE  /\ WorldKept /\ TroubleKept /\ ~asleep /\ ~asleep' /\ main.pc = pc
           /\ {"pc", "job", "to", "locked"} \subseteq DOMAIN main
<1>1. UNCHANGED worldVars /\ trouble' = trouble /\ asleep' = asleep
      BY DEF TakeEvent
<1>2. WorldKept /\ TroubleKept
      BY <1>1, SameWorld, SameTrouble DEF IInv, worldVars
<1>3. ~asleep /\ main.pc = pc /\ {"pc", "job", "to", "locked"} \subseteq DOMAIN main
      BY DEF MainAt, IInv, Shape
<1> QED BY <1>1, <1>2, <1>3

(* The lock starts the job that switches off whatever is on. *)
LEMMA RadiosOffCloses ==
    ASSUME NEW on, NEW powered
    PROVE  Closing(RadiosOff, on, powered)
<1> DEFINE a == Step("wifi stop")
           b == Step("power off")
           t == <<a, b>>
<1>1. a.do = "wifi stop" /\ b.do = "power off"
      BY DEF Step
<1>2. RadiosOff = t
      BY Zenon DEF RadiosOff
<1> HIDE DEF a, b
<1>3. /\ Dos(t) = {a.do, b.do} /\ DOMAIN t = 1 .. 2 /\ t[1] = a /\ t[2] = b
      BY TwoSteps
<1> HIDE DEF t
<1>4. Sure(a) /\ Sure(b)
      BY <1>1 DEF Sure, Offs
<1>5. \A i \in DOMAIN t : t[i] = a \/ t[i] = b
      BY <1>3
<1>6. AllSure(t)
      BY <1>4, <1>5 DEF AllSure
<1>7. "wifi stop" \in Dos(t) /\ Dos(t) \cap Offs # {}
      BY <1>1, <1>3 DEF Offs
<1> QED BY <1>2, <1>6, <1>7, Zenon DEF Closing

LEMMA TakeSpiKeeps ==
    ASSUME IInv, TakeSpi
    PROVE  IInv'
<1>1. TakeEvent /\ MainAt("take") /\ main' = Onward(main, Heard(screen))
      BY DEF TakeSpi
<1>2. main.locked => ~wifi.on /\ ~driver.powered
      BY <1>1, EventKept, AtRest
<1> QED BY <1>1, <1>2, EventKept, OnwardKeeps

LEMMA LockKeyKeeps ==
    ASSUME IInv, LockKey
    PROVE  IInv'
<1> DEFINE m == [main EXCEPT !.locked = TRUE]
           job == Job(RadiosOff, Text(""))
<1>1. TakeEvent /\ MainAt("take") /\ main' = StartJob(m, job, "lock")
      BY Zenon DEF LockKey, TakeKey
<1>2. {"pc", "job", "to", "locked"} \subseteq DOMAIN m
      BY DEF IInv, Shape
<1>3. ProperJob(job) /\ job.steps = RadiosOff
      BY OffProper, ProperJobs, JobSteps
<1> HIDE DEF m, job
<1> QED BY <1>1, <1>2, <1>3, EventKept, RadiosOffCloses, StartKeeps

LEMMA UnlockKeyKeeps ==
    ASSUME IInv, UnlockKey
    PROVE  IInv'
<1> DEFINE m == [main EXCEPT !.locked = FALSE]
<1>1. TakeEvent /\ MainAt("take") /\ main' = Onward(m, "busy")
      BY Zenon DEF UnlockKey, TakeKey
<1>2. {"pc", "job", "to", "locked"} \subseteq DOMAIN m /\ ~m.locked
      BY DEF IInv, Shape
<1> HIDE DEF m
<1> QED BY <1>1, <1>2, EventKept, OnwardKeeps

LEMMA LockedKeyKeeps ==
    ASSUME IInv, LockedKey
    PROVE  IInv'
<1>1. TakeEvent /\ MainAt("take") /\ main' = Onward(main, screen)
      BY DEF LockedKey, TakeKey
<1>2. main.locked => ~wifi.on /\ ~driver.powered
      BY <1>1, EventKept, AtRest
<1> QED BY <1>1, <1>2, EventKept, OnwardKeeps

(* A key typed at the prompt or in an interactive mode may start a job. *)
LEMMA TypedKeeps ==
    ASSUME IInv, TakeKey(FALSE), ~main.locked, NEW scr, NEW job, NEW to, ProperJob(job),
           main' = Onward(main, scr) \/ main' = StartJob(main, job, to)
    PROVE  IInv'
<1>1. TakeEvent /\ MainAt("take")
      BY DEF TakeKey
<1> QED BY <1>1, EventKept, OnwardKeeps, StartKeeps

LEMMA ModeKeyKeeps ==
    ASSUME IInv, ModeKey
    PROVE  IInv'
<1>1. /\ TakeKey(FALSE) /\ ~main.locked
      /\ main' = IF InteractiveKey(ui.mode, Head(inbox)).call = NoCall THEN Onward(main, screen)
                 ELSE StartJob(main, Called(InteractiveKey(ui.mode, Head(inbox)).call), "mode")
      BY Zenon DEF ModeKey
<1> QED BY <1>1, ProperCalled, TypedKeeps

LEMMA TerminalLineKeeps ==
    ASSUME IInv, TerminalLine
    PROVE  IInv'
<1>1. /\ TakeKey(FALSE) /\ ~main.locked
      /\ main' = IF Head(inbox).key = "Enter"
                 THEN StartJob(main, Execute(ui.term.input), "exec") ELSE Onward(main, screen)
      BY Zenon DEF TerminalLine
<1> QED BY <1>1, ProperExecute, TypedKeeps

LEMMA DropEventKeeps ==
    ASSUME IInv, DropEvent
    PROVE  IInv'
<1>1. TakeEvent /\ MainAt("finish") /\ main' = main
      BY DEF DropEvent
<1> QED BY <1>1, EventKept, OthersKeep

LEMMA DisplayFinishedKeeps ==
    ASSUME IInv, DisplayFinished
    PROVE  IInv'
<1> DEFINE job == Job(RadiosOff, Text(""))
<1>1. NoInput /\ MainAt("finish") /\ main' = StartJob(main, job, main.to)
      BY Zenon DEF DisplayFinished
<1>2. ~asleep /\ main.pc = "finish" /\ {"pc", "job", "to", "locked"} \subseteq DOMAIN main
      BY <1>1 DEF MainAt, IInv, Shape
<1>3. ~main.locked
      BY <1>2, LockedAt
<1>4. ProperJob(job)
      BY OffProper, ProperJobs
<1> HIDE DEF job
<1> QED BY <1>1, <1>2, <1>3, <1>4, NoInputKept, StartKeeps

LEMMA DozeKeeps ==
    ASSUME IInv, Doze
    PROVE  IInv'
<1> DEFINE pc == IF inbox # <<>> THEN "take" ELSE "sleep"
<1>1. NoInput /\ MainAt("doze") /\ main' = [main EXCEPT !.pc = pc]
      BY Zenon DEF Doze
<1>2. ~asleep /\ main.pc = "doze" /\ main.locked
      BY <1>1 DEF MainAt, IInv, Locks
<1>3. pc \in {"take", "doze", "sleep"}
      OBVIOUS
<1> HIDE DEF pc
<1>4. Becomes(main', pc, main.to, main.locked, main.job.steps)
      BY <1>1 DEF IInv, Shape, Becomes
<1>5. ~wifi.on /\ ~driver.powered
      BY <1>2, AtRest
<1>6. ~asleep' /\ WorldKept /\ TroubleKept
      BY <1>1, <1>2, NoInputKept
<1> QED BY <1>2, <1>3, <1>4, <1>5, <1>6, GoesTo

(* The processor sleeps, or is not let. *)
LEMMA SleepKeeps ==
    ASSUME IInv, Sleep
    PROVE  IInv'
<1>1. /\ MainAt("sleep") /\ UNCHANGED worldVars /\ trouble' = trouble
      /\ main' = [main EXCEPT !.pc = "take"]
      BY DEF Sleep
<1>2. WorldKept /\ TroubleKept
      BY <1>1, SameWorld, SameTrouble DEF IInv, worldVars
<1>3. ~asleep /\ main.pc = "sleep" /\ main.locked
      BY <1>1 DEF MainAt, IInv, Locks
<1>4. Becomes(main', "take", main.to, main.locked, main.job.steps)
      BY <1>1 DEF IInv, Shape, Becomes
<1>5. ~wifi.on /\ ~driver.powered
      BY <1>3, AtRest
<1>6. Shape'
      BY <1>2, <1>4 DEF IInv, Shape, WorldKept, TroubleKept, Becomes
<1>7. Knows(main.job.steps, driver.powered, modem.power, trouble.gaveUp)'
      BY <1>2, <1>4, Zenon DEF IInv, WorldKept, TroubleKept, Knows, Becomes
<1>8. Locks(main.locked, main.pc, main.to, main.job.steps, wifi.on, driver.powered, asleep)'
      BY <1>2, <1>3, <1>4, <1>5 DEF Locks, Becomes, WorldKept
<1> QED BY <1>6, <1>7, <1>8, Zenon DEF IInv

(* The in-call loop is never entered locked. *)
LEMMA InCall ==
    ASSUME IInv, NEW pc, MainAt(pc), pc \in {"poll", "key"}
    PROVE  /\ ~asleep /\ ~main.locked
           /\ {"pc", "job", "to", "locked"} \subseteq DOMAIN main
<1>1. ~asleep /\ main.pc = pc /\ {"pc", "job", "to", "locked"} \subseteq DOMAIN main
      BY DEF MainAt, IInv, Shape
<1> QED BY <1>1, LockedAt

LEMMA PollCallKeeps ==
    ASSUME IInv, PollCall
    PROVE  IInv'
<1>1. /\ MainAt("poll") /\ trouble' = trouble /\ asleep' = asleep
      /\ driver' = driver /\ modem' = modem /\ wifi' = wifi
      /\ main' = Onward(main, screen) \/ main' = [main EXCEPT !.pc = "key"]
      BY DEF PollCall, CallOver, inputVars
<1>2. WorldKept /\ TroubleKept
      BY <1>1, SameWorld, SameTrouble DEF IInv
<1>3. /\ ~asleep /\ ~main.locked /\ {"pc", "job", "to", "locked"} \subseteq DOMAIN main
      BY <1>1, InCall
<1>4. CASE main' = Onward(main, screen)
      BY <1>1, <1>2, <1>3, <1>4, OnwardKeeps
<1>5. CASE main' = [main EXCEPT !.pc = "key"]
      <2>1. Becomes(main', "key", main.to, main.locked, main.job.steps)
            BY <1>5 DEF IInv, Shape, Becomes
      <2> QED BY <1>1, <1>2, <1>3, <2>1, FreeKeeps
<1> QED BY <1>1, <1>4, <1>5

LEMMA NoCallKeyKeeps ==
    ASSUME IInv, NoCallKey
    PROVE  IInv'
<1>1. NoInput /\ MainAt("key") /\ main' = [main EXCEPT !.pc = "poll"]
      BY DEF NoCallKey
<1>2. Becomes(main', "poll", main.to, main.locked, main.job.steps)
      BY <1>1 DEF IInv, Shape, Becomes
<1> QED BY <1>1, <1>2, InCall, NoInputKept, FreeKeeps

LEMMA CallEventKeeps ==
    ASSUME IInv, CallEvent
    PROVE  IInv'
<1>1. MainAt("key") /\ TakeEvent
      BY DEF CallEvent
<1>2. /\ ~asleep /\ ~asleep' /\ ~main.locked /\ WorldKept /\ TroubleKept
      /\ {"pc", "job", "to", "locked"} \subseteq DOMAIN main
      BY <1>1, EventKept, InCall
<1>3. \/ main' = StartJob(main, Job(HangUpSteps, Text("")), "hung")
      \/ \E v : main' = StartJob([main EXCEPT !.volume = v], Job(SetVolume(v), Text("")), "volume")
      \/ main' = [main EXCEPT !.pc = "poll"]
      <2> DEFINE event == Head(inbox)
                 louder == IF main.volume < MaxVolume THEN main.volume + 1 ELSE MaxVolume
                 softer == Less(main.volume, 1)
                 to(v) == StartJob([main EXCEPT !.volume = v], Job(SetVolume(v), Text("")),
                                   "volume")
                 over == StartJob(main, Job(HangUpSteps, Text("")), "hung")
                 up == to(louder)
                 down == to(softer)
                 back == [main EXCEPT !.pc = "poll"]
      <2>1. main' = CASE classify_key(event) = "HangUp" -> over
                      [] classify_key(event) = "VolumeUp" -> up
                      [] classify_key(event) = "VolumeDown" -> down
                      [] OTHER -> back
            BY Zenon DEF CallEvent
      <2>2. up = to(louder) /\ down = to(softer)
            OBVIOUS
      <2> HIDE DEF up, down, over, back
      <2>3. main' = over \/ main' = up \/ main' = down \/ main' = back
            BY <2>1
      <2> HIDE DEF louder, softer
      <2>4. main' = up \/ main' = down => \E v : main' = to(v)
            BY <2>2, Zenon
      <2> QED BY <2>3, <2>4, Zenon DEF over, back
<1>4. CASE main' = StartJob(main, Job(HangUpSteps, Text("")), "hung")
      <2>1. ProperJob(Job(HangUpSteps, Text("")))
            BY HarmlessDriver, ProperJobs
      <2> QED BY <1>2, <1>4, <2>1, StartKeeps
<1>5. CASE \E v : main' = StartJob([main EXCEPT !.volume = v], Job(SetVolume(v), Text("")), "volume")
      <2>1. PICK v : main' = StartJob([main EXCEPT !.volume = v], Job(SetVolume(v), Text("")),
                                      "volume")
            BY <1>5
      <2> DEFINE m == [main EXCEPT !.volume = v]
                 job == Job(SetVolume(v), Text(""))
      <2>2. ProperJob(job)
            BY HarmlessDriver, ProperJobs
      <2>3. {"pc", "job", "to", "locked"} \subseteq DOMAIN m /\ m.locked = main.locked
            BY <1>2
      <2>4. main' = StartJob(m, job, "volume")
            BY <2>1
      <2> HIDE DEF m, job
      <2> QED BY <1>2, <2>2, <2>3, <2>4, StartKeeps
<1>6. CASE main' = [main EXCEPT !.pc = "poll"]
      <2>1. Becomes(main', "poll", main.to, main.locked, main.job.steps)
            BY <1>6 DEF IInv, Shape, Becomes
      <2> QED BY <1>2, <2>1, FreeKeeps
<1> QED BY <1>3, <1>4, <1>5, <1>6

LEMMA MainStepKeeps ==
    ASSUME IInv, MainStep
    PROVE  IInv'
<1>1. CASE Expand \/ DriverCall \/ SendCommand \/ ReadAnswer \/ CommandTimesOut
      BY <1>1, ExpandKeeps, DriverCallKeeps, SendCommandKeeps, ReadAnswerKeeps,
         CommandTimesOutKeeps, Zenon
<1>2. CASE HelloAgain \/ HelloGivesUp \/ AskInput \/ InputAnswers
      BY <1>2, HelloAgainKeeps, HelloGivesUpKeeps, AskInputKeeps, InputAnswersKeeps, Zenon
<1>3. CASE Booted \/ Shown \/ ShownClear \/ GoingDown \/ Calling \/ Dark \/ Off \/ Ship \/ Shipping
      BY <1>3, ShownKeeps, GoingDownKeeps, CallingKeeps, OffKeeps, ShipKeeps, Zenon
<1>4. CASE TakeSpi \/ LockKey \/ UnlockKey \/ LockedKey \/ ModeKey \/ TerminalLine
      BY <1>4, TakeSpiKeeps, LockKeyKeeps, UnlockKeyKeeps, LockedKeyKeeps, ModeKeyKeeps,
         TerminalLineKeeps, Zenon
<1>5. CASE DropEvent \/ DisplayFinished \/ Doze \/ Sleep
      BY <1>5, DropEventKeeps, DisplayFinishedKeeps, DozeKeeps, SleepKeeps, Zenon
<1>6. CASE VolumeKnown \/ PollCall \/ NoCallKey \/ CallEvent \/ HungUp
      BY <1>6, VolumeKnownKeeps, PollCallKeeps, NoCallKeyKeeps, CallEventKeeps, HungUpKeeps, Zenon
<1> QED BY <1>1, <1>2, <1>3, <1>4, <1>5, <1>6, Zenon DEF MainStep

----------------------------------------------------------------------------
(* The others: the user, the display, the modem, the network, the input task. *)

LEMMA UserTypesKeeps ==
    ASSUME IInv, UserTypes
    PROVE  IInv'
<1>1. /\ UNCHANGED worldVars /\ main' = main /\ asleep' = asleep
      /\ trouble' = trouble \/ trouble' = [trouble EXCEPT !.lost = TRUE]
      BY DEF UserTypes, Press
<1>2. WorldKept
      BY <1>1, SameWorld DEF IInv, worldVars
<1>3. TroubleKept
      BY <1>1 DEF IInv, Shape, TroubleKept
<1> QED BY <1>1, <1>2, <1>3, OthersKeep

LEMMA ScreenDoneKeeps ==
    ASSUME IInv, ScreenDone
    PROVE  IInv'
<1>1. UNCHANGED worldVars /\ main' = main /\ asleep' = asleep /\ trouble' = trouble
      BY DEF ScreenDone
<1>2. WorldKept /\ TroubleKept
      BY <1>1, SameWorld, SameTrouble DEF IInv, worldVars
<1> QED BY <1>1, <1>2, OthersKeep

(* No command changes whether the modem is on. *)
LEMMA AfterKept ==
    ASSUME "power" \in DOMAIN modem, NEW cmd, NEW arg, NEW said
    PROVE  "power" \in DOMAIN After(cmd, arg, said) /\ After(cmd, arg, said).power = modem.power
<1>1. \/ After(cmd, arg, said) = modem
      \/ \E v : After(cmd, arg, said) = [modem EXCEPT !.mode = v]
      \/ \E v : After(cmd, arg, said) = [modem EXCEPT !.call = v]
      \/ \E v : After(cmd, arg, said) = [modem EXCEPT !.gain = v]
      \/ \E v : After(cmd, arg, said) = [modem EXCEPT !.texts = v]
      BY Zenon DEF After
<1> QED BY <1>1

LEMMA ModemStepKeeps ==
    ASSUME IInv, ModemStep \/ CallEnds
    PROVE  IInv'
<1>1. /\ driver' = driver /\ wifi' = wifi /\ trouble' = trouble /\ main' = main
      /\ asleep' = asleep
      BY DEF ModemStep, CallEnds, ModemActs, ModemBoots, RemoteEnds, inputVars, mainVars
<1>2. "power" \in DOMAIN modem
      BY DEF IInv, Shape
<1>3. "power" \in DOMAIN modem' /\ (modem.power = "off" <=> modem'.power = "off")
      <2>1. CASE ModemActs
            <3>1. \E m : /\ modem' = Dequeued(m)
                         /\ \/ m = modem \/ m = [modem EXCEPT !.mode = "command"]
                            \/ \E cmd, arg, said : m = After(cmd, arg, said)
                  BY <2>1, Zenon DEF ModemActs
            <3>2. PICK m : /\ modem' = Dequeued(m)
                           /\ \/ m = modem \/ m = [modem EXCEPT !.mode = "command"]
                              \/ \E cmd, arg, said : m = After(cmd, arg, said)
                  BY <3>1
            <3>3. "power" \in DOMAIN m /\ m.power = modem.power
                  BY <1>2, <3>2, AfterKept
            <3> QED BY <3>2, <3>3 DEF Dequeued
      <2>2. CASE ModemBoots
            BY <1>2, <2>2 DEF ModemBoots
      <2>3. CASE RemoteEnds
            BY <1>2, <2>3 DEF RemoteEnds
      <2> QED BY <2>1, <2>2, <2>3 DEF ModemStep, CallEnds
<1>4. WorldKept
      BY <1>1, <1>3 DEF IInv, Shape, WorldKept
<1>5. TroubleKept
      BY <1>1, SameTrouble DEF IInv
<1> QED BY <1>1, <1>4, <1>5, OthersKeep

LEMMA ApLostKeeps ==
    ASSUME IInv, ApLost, UNCHANGED <<inputVars, mainVars>>
    PROVE  IInv'
<1>1. /\ driver' = driver /\ modem' = modem /\ main' = main /\ asleep' = asleep
      /\ wifi' = [wifi EXCEPT !.link = NoSsid] /\ Mishap("nothing")
      BY DEF ApLost, WifiOnly, inputVars, mainVars
<1>2. WorldKept
      BY <1>1 DEF IInv, Shape, WorldKept
<1>3. TroubleKept
      BY <1>1, MishapKept DEF IInv
<1> QED BY <1>1, <1>2, <1>3, OthersKeep

LEMMA InputKeeps ==
    ASSUME IInv, InputNext, UNCHANGED <<worldVars, mainVars>>
    PROVE  IInv'
<1>1. main' = main /\ UNCHANGED worldVars
      BY DEF mainVars
<1>2. WorldKept
      BY <1>1, SameWorld DEF IInv, worldVars
<1>3. asleep' => asleep
      BY DEF InputNext, TaskStep, Isr, Wake, GaugeSettles, WatchdogExpires, Setup, Count,
             ReadStroke, Left, ClearInt, Post, Serve, Work, Arm, Look, Notified, SetupFails,
             PollFails, WorkFails, Busy
<1>4. TroubleKept
      <2>1. CASE SetupFails \/ PollFails \/ WorkFails
            <3>1. \E what : Mishap(what)
                  BY <2>1, Zenon DEF SetupFails, PollFails, WorkFails, Faulty
            <3> QED BY <3>1, MishapKept DEF IInv
      <2>2. CASE Setup
            <3>1. \E lost : trouble' = [trouble EXCEPT !.lost = lost]
                  BY <2>2, Zenon DEF Setup
            <3> QED BY <3>1 DEF IInv, Shape, TroubleKept
      <2>3. CASE \/ Isr \/ Wake \/ GaugeSettles \/ WatchdogExpires
                 \/ Count \/ ReadStroke \/ Left \/ ClearInt \/ Post
                 \/ Serve \/ Work \/ Arm \/ Look \/ Notified
            <3>1. trouble' = trouble
                  BY <2>3 DEF Isr, Wake, GaugeSettles, WatchdogExpires, Count, ReadStroke, Left,
                              ClearInt, Post, Serve, Work, Arm, Look, Notified
            <3> QED BY <3>1, SameTrouble DEF IInv
      <2> QED BY <2>1, <2>2, <2>3, Zenon DEF InputNext, TaskStep
<1> QED BY <1>1, <1>2, <1>3, <1>4, OthersKeep

----------------------------------------------------------------------------
(* The invariant holds, and with it the property. *)

LEMMA StartsWell ==
    ASSUME HandsetInit
    PROVE  IInv
<1>1. /\ main = [pc |-> "job", job |-> BootJob, to |-> "boot", locked |-> FALSE,
                 volume |-> MaxVolume]
      /\ asleep = FALSE
      /\ \E max : TroubleInit(max)
      /\ driver = [powered |-> FALSE, data |-> FALSE]
      /\ \E texts, radio :
            modem = [power |-> "off", mode |-> "command", queue |-> <<>>, call |-> FALSE,
                     gain |-> 0, texts |-> texts, radio |-> radio]
      /\ wifi = [on |-> TRUE, ssid |-> NoSsid, link |-> NoSsid]
      BY Zenon DEF HandsetInit, InputInit, WorldInit, OldModemInit
<1>2. "steps" \in DOMAIN BootJob /\ Proper(BootJob.steps)
      <2> DEFINE a == Step("migrate")
                 b == Step("startup")
      <2>1. a.do \notin Offs /\ b.do \notin Offs
            BY DEF Step, Offs
      <2>2. BootJob = Job(<<a, b>>, Text("boot"))
            BY Zenon DEF BootJob
      <2> HIDE DEF a, b
      <2>3. Harmless(<<a, b>>)
            BY <2>1, HarmlessTwo
      <2>4. ProperJob(Job(<<a, b>>, Text("boot")))
            BY <2>3, ProperJobs
      <2> QED BY <2>2, <2>4, Zenon DEF ProperJob
<1>3. /\ {"pc", "job", "to", "locked"} \subseteq DOMAIN main
      /\ main.pc = "job" /\ main.job = BootJob /\ ~main.locked
      BY <1>1
<1>4. "gaveUp" \in DOMAIN trouble
      BY <1>1 DEF TroubleInit
<1>5. /\ "powered" \in DOMAIN driver /\ "power" \in DOMAIN modem /\ "on" \in DOMAIN wifi
      /\ ~driver.powered /\ modem.power = "off"
      BY <1>1
<1>6. Shape
      BY <1>2, <1>3, <1>4, <1>5 DEF Shape, Proper
<1>7. Knows(main.job.steps, driver.powered, modem.power, trouble.gaveUp)
      BY <1>2, <1>3, <1>5 DEF Knows, Proper
<1>8. Locks(main.locked, main.pc, main.to, main.job.steps, wifi.on, driver.powered, asleep)
      BY <1>1, <1>3 DEF Locks
<1> QED BY <1>6, <1>7, <1>8, Zenon DEF IInv

LEMMA Keeps ==
    ASSUME IInv, [HandsetNext]_vars
    PROVE  IInv'
<1>1. CASE HandsetNext
      <2>1. CASE UserTypes \/ ScreenDone
            BY <2>1, UserTypesKeeps, ScreenDoneKeeps
      <2>2. CASE MainStep
            BY <2>2, MainStepKeeps
      <2>3. CASE ModemStep \/ CallEnds
            BY <2>3, ModemStepKeeps
      <2>4. CASE ApLost /\ UNCHANGED <<inputVars, mainVars>>
            BY <2>4, ApLostKeeps
      <2>5. CASE InputNext /\ UNCHANGED <<worldVars, mainVars>>
            BY <2>5, InputKeeps
      <2> QED BY <1>1, <2>1, <2>2, <2>3, <2>4, <2>5, Zenon DEF HandsetNext
<1>2. CASE UNCHANGED vars
      <2>1. /\ UNCHANGED worldVars /\ main' = main /\ asleep' = asleep /\ trouble' = trouble
            BY <1>2 DEF vars, inputVars, mainVars
      <2>2. WorldKept /\ TroubleKept
            BY <2>1, SameWorld, SameTrouble DEF IInv, worldVars
      <2> QED BY <2>1, <2>2, OthersKeep
<1> QED BY <1>1, <1>2

(* What the main thread knows and has left to do holds throughout. *)
THEOREM RadiosWatched == HandsetSpec => []IInv
<1>1. HandsetInit => IInv
      BY StartsWell
<1>2. IInv /\ [HandsetNext]_vars => IInv'
      BY Keeps
<1> QED BY <1>1, <1>2, PTL DEF HandsetSpec

(* Whatever is typed, whatever was on and whatever fails, the processor sleeps
   only with both radios off, a modem given up while it booted apart: the lock
   of core/src/power.rs switches off all there is before handle_events() of
   device/src/main.rs lets it sleep, and no key, call or failure comes between. *)
THEOREM SleepsQuiet == HandsetSpec => []LockedIsQuiet
<1>1. ASSUME IInv PROVE LockedIsQuiet
      <2>1. CASE asleep
            <3>1. main.locked /\ main.pc = "take"
                  BY <1>1, <2>1 DEF IInv, Locks
            <3>2. ~wifi.on /\ ~driver.powered
                  BY <1>1, <3>1, AtRest
            <3>3. trouble.gaveUp \/ modem.power = "off"
                  BY <1>1, <3>2, Zenon DEF IInv, Knows
            <3> QED BY <3>2, <3>3 DEF LockedIsQuiet
      <2>2. CASE ~asleep
            BY <2>2, Zenon DEF LockedIsQuiet
      <2> QED BY <2>1, <2>2
<1>2. IInv => LockedIsQuiet
      BY <1>1
<1> QED BY <1>2, RadiosWatched, PTL

----------------------------------------------------------------------------
(* Numbers. *)

(* Every set of numbers has a least one, and so numbers can be counted up. *)
LEMMA LeastNumber ==
    ASSUME NEW S \in SUBSET Nat, S # {}
    PROVE  \E n \in S : \A m \in S : ~(m < n)
<1> DEFINE R == {p \in Nat \X Nat : p[1] < p[2]}
<1>1. IsWellFoundedOn(R, Nat)
      BY NatLessThanWellFounded, SMT DEF OpToRel
<1> HIDE DEF R
<1>2. PICK n \in S : \A m \in S : ~ (<<m, n>> \in R)
      BY <1>1, WFMin, Zenon
<1>3. \A m \in S : ~(m < n)
      BY <1>2 DEF R
<1> QED BY <1>3

LEMMA CountUp ==
    ASSUME NEW S, 0 \in S, \A n \in Nat : n \in S => n + 1 \in S
    PROVE  \A n \in Nat : n \in S
<1> SUFFICES ASSUME NEW k \in Nat, k \notin S PROVE FALSE
    OBVIOUS
<1> DEFINE T == {n \in Nat : n \notin S}
<1>1. PICK n \in T : \A m \in T : ~(m < n)
      BY LeastNumber, T \in SUBSET Nat, T # {}
<1>2. n # 0 /\ n - 1 \in Nat /\ n - 1 \notin T
      BY <1>1
<1> QED BY <1>1, <1>2

(* Counting up to the length of a sequence. *)
LEMMA CountTo ==
    ASSUME NEW n \in Nat, NEW S, 0 \in S, \A i \in 1 .. n : i - 1 \in S => i \in S
    PROVE  \A i \in 0 .. n : i \in S
<1> DEFINE T == {i \in Nat : i <= n => i \in S}
<1>1. 0 \in T
      OBVIOUS
<1>2. \A k \in Nat : k \in T => k + 1 \in T
      <2> TAKE k \in Nat
      <2> HAVE k \in T
      <2>1. CASE k + 1 <= n
            <3>1. k + 1 \in 1 .. n /\ (k + 1) - 1 = k /\ k \in S
                  BY <2>1
            <3>2. k + 1 \in S
                  BY <3>1
            <3> QED BY <3>2
      <2>2. CASE ~(k + 1 <= n)
            BY <2>2
      <2> QED BY <2>1, <2>2
<1> HIDE DEF T
<1>3. \A i \in Nat : i \in T
      BY <1>1, <1>2, CountUp
<1> QED BY <1>3 DEF T

----------------------------------------------------------------------------
(* What the strokes of a sequence give, one after the other. *)

GivesAll(f, so, s) ==
    /\ f[0] = so
    /\ \A i \in 1 .. Len(s) : f[i] = Gains(f[i - 1], s[i])

LEMMA GivesBy ==
    ASSUME NEW S, NEW s \in Seq(S), NEW so, NEW f, GivesAll(f, so, s)
    PROVE  Gives(so, s) = f[Len(s)]
<1> DEFINE IsIt(g) == g = [i \in 0 .. Len(s) |-> IF i = 0 THEN so ELSE Gains(g[i - 1], s[i])]
           g == CHOOSE g : IsIt(g)
           h == [i \in 0 .. Len(s) |-> f[i]]
<1>1. Len(s) \in Nat
      OBVIOUS
<1>2. IsIt(h)
      <2>1. ASSUME NEW i \in 0 .. Len(s)
            PROVE  h[i] = IF i = 0 THEN so ELSE Gains(h[i - 1], s[i])
            <3>1. CASE i = 0
                  BY <3>1, <1>1 DEF GivesAll
            <3>2. CASE i # 0
                  <4>1. i \in 1 .. Len(s) /\ i - 1 \in 0 .. Len(s)
                        BY <3>2, <1>1
                  <4>2. h[i] = f[i] /\ h[i - 1] = f[i - 1]
                        BY <4>1
                  <4> QED BY <3>2, <4>1, <4>2 DEF GivesAll
            <3> QED BY <3>1, <3>2
      <2> HIDE DEF h
      <2>2. h = [i \in 0 .. Len(s) |-> h[i]]
            BY DEF h
      <2> QED BY <2>1, <2>2
<1>3. IsIt(g)
      <2>1. \E x : IsIt(x)
            BY <1>2, Zenon
      <2> HIDE DEF IsIt
      <2> QED BY <2>1, Zenon
<1>4. Gives(so, s) = g[Len(s)]
      BY Zenon DEF Gives
<1> HIDE DEF g, h
<1> DEFINE T == {i \in 0 .. Len(s) : g[i] = f[i]}
<1>5. 0 \in T
      BY <1>1, <1>3 DEF GivesAll
<1>6. \A i \in 1 .. Len(s) : i - 1 \in T => i \in T
      BY <1>1, <1>3 DEF GivesAll
<1> HIDE DEF T
<1>7. \A i \in 0 .. Len(s) : i \in T
      BY <1>1, <1>5, <1>6, CountTo
<1>8. Len(s) \in T
      BY <1>1, <1>7
<1> QED BY <1>4, <1>8 DEF T

LEMMA GivesSome ==
    ASSUME NEW so, NEW s, NEW n \in Nat, Len(s) = n
    PROVE  \E f : GivesAll(f, so, s)
<1> DEFINE Upto(f, k) == f[0] = so /\ \A i \in 1 .. k : f[i] = Gains(f[i - 1], s[i])
           T == {k \in Nat : \E f : Upto(f, k)}
<1>1. 0 \in T
      <2>1. Upto([i \in {0} |-> so], 0)
            OBVIOUS
      <2> QED BY <2>1
<1>2. \A k \in Nat : k \in T => k + 1 \in T
      <2> TAKE k \in Nat
      <2> HAVE k \in T
      <2>1. PICK f : Upto(f, k)
            OBVIOUS
      <2> DEFINE g == [i \in 0 .. k + 1 |-> IF i = k + 1 THEN Gains(f[k], s[k + 1]) ELSE f[i]]
      <2>2. Upto(g, k + 1)
            <3>1. g[0] = so
                  BY <2>1
            <3>2. ASSUME NEW i \in 1 .. k + 1
                  PROVE  g[i] = Gains(g[i - 1], s[i])
                  <4>1. CASE i = k + 1
                        BY <4>1
                  <4>2. CASE i # k + 1
                        <5>1. i \in 1 .. k /\ i \in 0 .. k + 1 /\ i - 1 \in 0 .. k + 1
                              /\ i - 1 # k + 1
                              BY <4>2
                        <5> QED BY <2>1, <5>1, <4>2
                  <4> QED BY <4>1, <4>2
            <3> QED BY <3>1, <3>2
      <2> HIDE DEF g, Upto
      <2> QED BY <2>2
<1> HIDE DEF T
<1>3. n \in T
      BY <1>1, <1>2, CountUp
<1>4. PICK f : Upto(f, n)
      BY <1>3 DEF T
<1> QED BY <1>4 DEF GivesAll

LEMMA GivesNone ==
    ASSUME NEW so
    PROVE  Gives(so, <<>>) = so
<1>1. PICK f : GivesAll(f, so, <<>>)
      BY GivesSome, Len(<<>>) = 0
<1>2. <<>> \in Seq({})
      OBVIOUS
<1> QED BY <1>1, <1>2, GivesBy DEF GivesAll

LEMMA GivesNext ==
    ASSUME NEW S, NEW s \in Seq(S), NEW x \in S, NEW so
    PROVE  Gives(so, Append(s, x)) = Gains(Gives(so, s), x)
<1> DEFINE n == Len(s)
           t == Append(s, x)
<1>1. /\ n \in Nat /\ t \in Seq(S) /\ Len(t) = n + 1 /\ Len(t) \in Nat /\ t[n + 1] = x
      /\ \A i \in 1 .. n : t[i] = s[i]
      OBVIOUS
<1> HIDE DEF n, t
<1>2. PICK f : GivesAll(f, so, t)
      BY <1>1, GivesSome
<1>3. GivesAll(f, so, s)
      BY <1>1, <1>2 DEF GivesAll, n
<1>4. Gives(so, s) = f[n] /\ Gives(so, t) = f[n + 1]
      BY <1>1, <1>2, <1>3, GivesBy DEF n
<1>5. f[n + 1] = Gains(f[n], x)
      BY <1>1, <1>2 DEF GivesAll
<1> QED BY <1>4, <1>5 DEF t

LEMMA GivesFirst ==
    ASSUME NEW S, NEW s \in Seq(S), NEW x \in S, NEW so
    PROVE  Gives(so, <<x>> \o s) = Gives(Gains(so, x), s)
<1> DEFINE n == Len(s)
           t == <<x>> \o s
<1>1. /\ n \in Nat /\ t \in Seq(S) /\ Len(t) = n + 1 /\ Len(t) \in Nat /\ t[1] = x
      /\ \A i \in 1 .. n : t[i + 1] = s[i]
      OBVIOUS
<1> HIDE DEF n, t
<1>2. PICK f : GivesAll(f, so, t)
      BY <1>1, GivesSome
<1> DEFINE g == [i \in 0 .. n |-> f[i + 1]]
<1>3. GivesAll(g, Gains(so, x), s)
      <2>1. g[0] = Gains(so, x)
            <3>1. 1 \in 1 .. Len(t) /\ 1 - 1 = 0 /\ 0 \in 0 .. n
                  BY <1>1
            <3> QED BY <1>1, <1>2, <3>1 DEF GivesAll
      <2>2. ASSUME NEW i \in 1 .. n
            PROVE  g[i] = Gains(g[i - 1], s[i])
            <3>1. /\ i + 1 \in 1 .. Len(t) /\ (i + 1) - 1 = i /\ (i - 1) + 1 = i
                  /\ i \in 0 .. n /\ i - 1 \in 0 .. n
                  BY <1>1
            <3>2. f[i + 1] = Gains(f[i], s[i])
                  BY <1>1, <1>2, <3>1 DEF GivesAll
            <3> QED BY <3>1, <3>2
      <2> QED BY <2>1, <2>2 DEF GivesAll, n
<1>4. Gives(Gains(so, x), s) = g[n] /\ Gives(so, t) = f[n + 1]
      BY <1>1, <1>2, <1>3, GivesBy DEF n
<1> QED BY <1>1, <1>4 DEF t

(* An event taken from the front is gone from what they give. *)
WithoutFirst(so) == [events |-> Tail(so.events), mapper |-> so.mapper]
IsSo(so) ==
    /\ so = [events |-> so.events, mapper |-> so.mapper]
    /\ IsSequence(so.events)
    /\ so.events # <<>>
LEMMA GainsTaken ==
    ASSUME NEW so, IsSo(so), NEW x
    PROVE  IsSo(Gains(so, x)) /\ Gains(WithoutFirst(so), x) = WithoutFirst(Gains(so, x))
<1> DEFINE e == so.events
           y == Process(so.mapper, x)
           S == {e[i] : i \in DOMAIN e}
           R == S \cup {y.event}
<1>1. e \in Seq(R) /\ e # <<>> /\ y.event \in R
      <2>1. e \in Seq(S) /\ e # <<>>
            BY Zenon DEF IsSo, IsSequence
      <2> HIDE DEF y, S, e
      <2> QED BY <2>1
<1> HIDE DEF R, S
<1>2. CASE y.event = NoEvent
      <2>1. Gains(so, x) = [events |-> e, mapper |-> y.mapper]
            BY <1>2, Zenon DEF Gains
      <2>2. Gains(WithoutFirst(so), x) = [events |-> Tail(e), mapper |-> y.mapper]
            BY <1>2 DEF Gains, WithoutFirst
      <2> HIDE DEF y
      <2> QED BY <2>1, <2>2 DEF IsSo, WithoutFirst
<1>3. CASE y.event # NoEvent
      <2>1. Gains(so, x) = [events |-> Append(e, y.event), mapper |-> y.mapper]
            BY <1>3, Zenon DEF Gains
      <2>2. Gains(WithoutFirst(so), x) = [events |-> Append(Tail(e), y.event), mapper |-> y.mapper]
            BY <1>3 DEF Gains, WithoutFirst
      <2> DEFINE a == Append(e, y.event)
      <2> HIDE DEF y
      <2>3. /\ a \in Seq(R) /\ a # <<>> /\ Tail(a) = Append(Tail(e), y.event)
            BY <1>1
      <2>4. IsSequence(a)
            BY <2>3, SequenceIs
      <2>5. Gains(so, x) = [events |-> a, mapper |-> y.mapper]
            BY <2>1
      <2>6. Gains(WithoutFirst(so), x) = [events |-> Tail(a), mapper |-> y.mapper]
            BY <2>2, <2>3
      <2> HIDE DEF a
      <2> QED BY <2>3, <2>4, <2>5, <2>6 DEF IsSo, WithoutFirst
<1> QED BY <1>2, <1>3

LEMMA GivesTaken ==
    ASSUME NEW S, NEW s \in Seq(S), NEW so, IsSo(so)
    PROVE  IsSo(Gives(so, s)) /\ Gives(WithoutFirst(so), s) = WithoutFirst(Gives(so, s))
<1> DEFINE n == Len(s)
<1>1. n \in Nat
      OBVIOUS
<1>2. PICK f : GivesAll(f, so, s)
      BY <1>1, GivesSome
<1> DEFINE g == [i \in 0 .. n |-> WithoutFirst(f[i])]
           T == {i \in 0 .. n : IsSo(f[i])}
<1>3. 0 \in T
      BY <1>1, <1>2 DEF GivesAll
<1>4. \A i \in 1 .. n : i - 1 \in T => i \in T
      BY <1>1, <1>2, GainsTaken DEF GivesAll
<1> HIDE DEF T
<1>5. \A i \in 0 .. n : i \in T
      BY <1>1, <1>3, <1>4, CountTo
<1>6. GivesAll(g, WithoutFirst(so), s)
      <2>1. g[0] = WithoutFirst(so)
            BY <1>1, <1>2 DEF GivesAll
      <2>2. ASSUME NEW i \in 1 .. n
            PROVE  g[i] = Gains(g[i - 1], s[i])
            <3>1. i \in 0 .. n /\ i - 1 \in 0 .. n
                  BY <1>1
            <3>2. IsSo(f[i - 1]) /\ f[i] = Gains(f[i - 1], s[i])
                  BY <1>2, <1>5, <3>1 DEF T, GivesAll
            <3>3. Gains(WithoutFirst(f[i - 1]), s[i]) = WithoutFirst(f[i])
                  BY <3>2, GainsTaken
            <3> QED BY <3>1, <3>3
      <2> QED BY <2>1, <2>2 DEF GivesAll
<1>7. Gives(so, s) = f[n] /\ Gives(WithoutFirst(so), s) = g[n]
      BY <1>2, <1>6, GivesBy
<1> QED BY <1>1, <1>5, <1>7 DEF T

----------------------------------------------------------------------------
(* The keys among the events of the inbox, one after the other. *)
KeysAll(f, s) ==
    /\ f[0] = Empty
    /\ \A i \in 1 .. Len(s) :
          f[i] = IF s[i] = SpiEvent THEN f[i - 1] ELSE Append(f[i - 1], s[i])

LEMMA KeysBy ==
    ASSUME NEW s, Len(s) \in Nat, NEW f, KeysAll(f, s)
    PROVE  KeysIn(s) = f[Len(s)]
<1> DEFINE Next1(a, e) == IF e = SpiEvent THEN a ELSE Append(a, e)
           IsIt(g) == g = [i \in 0 .. Len(s) |->
                              IF i = 0 THEN Empty ELSE Next1(g[i - 1], s[i])]
           g == CHOOSE g : IsIt(g)
           h == [i \in 0 .. Len(s) |-> f[i]]
<1>1. KeysIn(s) = g[Len(s)]
      BY Zenon DEF KeysIn
<1>2. f[0] = Empty /\ \A i \in 1 .. Len(s) : f[i] = Next1(f[i - 1], s[i])
      BY DEF KeysAll
<1> HIDE DEF Next1
<1>3. IsIt(h)
      <2>1. ASSUME NEW i \in 0 .. Len(s)
            PROVE  h[i] = IF i = 0 THEN Empty ELSE Next1(h[i - 1], s[i])
            <3>1. CASE i = 0
                  BY <3>1, <1>2
            <3>2. CASE i # 0
                  <4>1. i \in 1 .. Len(s) /\ i - 1 \in 0 .. Len(s)
                        BY <3>2
                  <4>2. h[i] = f[i] /\ h[i - 1] = f[i - 1]
                        BY <4>1
                  <4> QED BY <3>2, <4>1, <4>2, <1>2
            <3> QED BY <3>1, <3>2
      <2> HIDE DEF h
      <2>2. h = [i \in 0 .. Len(s) |-> h[i]]
            BY DEF h
      <2> QED BY <2>1, <2>2
<1>4. IsIt(g)
      <2>1. \E x : IsIt(x)
            BY <1>3, Zenon
      <2> HIDE DEF IsIt
      <2> QED BY <2>1, Zenon
<1> HIDE DEF g, h
<1> DEFINE T == {i \in 0 .. Len(s) : g[i] = f[i]}
<1>5. 0 \in T
      BY <1>2, <1>4
<1>6. \A i \in 1 .. Len(s) : i - 1 \in T => i \in T
      BY <1>2, <1>4
<1> HIDE DEF T
<1>7. \A i \in 0 .. Len(s) : i \in T
      BY <1>5, <1>6, CountTo
<1>8. Len(s) \in T
      BY <1>7
<1> QED BY <1>1, <1>8 DEF T

LEMMA KeysSome ==
    ASSUME NEW s, Len(s) \in Nat
    PROVE  \E f : KeysAll(f, s)
<1> DEFINE Next1(a, e) == IF e = SpiEvent THEN a ELSE Append(a, e)
           Upto(f, k) == f[0] = Empty /\ \A i \in 1 .. k : f[i] = Next1(f[i - 1], s[i])
           T == {k \in Nat : \E f : Upto(f, k)}
<1> HIDE DEF Next1
<1>1. 0 \in T
      <2>1. Upto([i \in {0} |-> Empty], 0)
            OBVIOUS
      <2> QED BY <2>1
<1>2. \A k \in Nat : k \in T => k + 1 \in T
      <2> TAKE k \in Nat
      <2> HAVE k \in T
      <2>1. PICK f : Upto(f, k)
            OBVIOUS
      <2> DEFINE g == [i \in 0 .. k + 1 |-> IF i = k + 1 THEN Next1(f[k], s[k + 1]) ELSE f[i]]
      <2>2. Upto(g, k + 1)
            <3>1. g[0] = Empty
                  BY <2>1
            <3>2. ASSUME NEW i \in 1 .. k + 1
                  PROVE  g[i] = Next1(g[i - 1], s[i])
                  <4>1. CASE i = k + 1
                        BY <4>1
                  <4>2. CASE i # k + 1
                        <5>1. i \in 1 .. k /\ i \in 0 .. k + 1 /\ i - 1 \in 0 .. k + 1
                              /\ i - 1 # k + 1
                              BY <4>2
                        <5> QED BY <2>1, <5>1, <4>2
                  <4> QED BY <4>1, <4>2
            <3> QED BY <3>1, <3>2
      <2> HIDE DEF g, Upto
      <2> QED BY <2>2
<1> HIDE DEF T
<1>3. Len(s) \in T
      BY <1>1, <1>2, CountUp
<1>4. PICK f : Upto(f, Len(s))
      BY <1>3 DEF T
<1> QED BY <1>4 DEF KeysAll, Next1

LEMMA KeysNone == KeysIn(<<>>) = <<>>
<1>1. Len(<<>>) = 0
      OBVIOUS
<1>2. PICK f : KeysAll(f, <<>>)
      BY <1>1, KeysSome
<1> QED BY <1>1, <1>2, KeysBy DEF KeysAll, Empty

LEMMA KeysNext ==
    ASSUME NEW s, IsSequence(s), NEW x
    PROVE  /\ KeysIn(Append(s, x)) = IF x = SpiEvent THEN KeysIn(s) ELSE Append(KeysIn(s), x)
           /\ IsSequence(Append(s, x))
<1> DEFINE n == Len(s)
           t == Append(s, x)
           S == {s[i] : i \in DOMAIN s} \cup {x}
<1>0. s \in Seq(S) /\ x \in S
      BY DEF IsSequence
<1> HIDE DEF S
<1>1. /\ n \in Nat /\ t \in Seq(S) /\ Len(t) = n + 1 /\ Len(t) \in Nat /\ t[n + 1] = x
      /\ \A i \in 1 .. n : t[i] = s[i]
      BY <1>0
<1>2. IsSequence(t)
      BY <1>1, SequenceIs
<1> HIDE DEF n, t
<1>3. PICK f : KeysAll(f, t)
      BY <1>1, KeysSome
<1>4. KeysAll(f, s)
      BY <1>1, <1>3 DEF KeysAll, n
<1>5. KeysIn(s) = f[n] /\ KeysIn(t) = f[n + 1]
      BY <1>1, <1>3, <1>4, KeysBy DEF n
<1>6. f[n + 1] = IF x = SpiEvent THEN f[n] ELSE Append(f[n], x)
      BY <1>1, <1>3 DEF KeysAll
<1> QED BY <1>2, <1>5, <1>6 DEF t

LEMMA KeysAreASequence ==
    ASSUME NEW s, IsSequence(s)
    PROVE  IsSequence(KeysIn(s))
<1> DEFINE n == Len(s)
           S == {s[i] : i \in DOMAIN s}
<1>0. s \in Seq(S)
      BY DEF IsSequence
<1>1. n \in Nat /\ \A i \in 1 .. n : s[i] \in S
      BY <1>0
<1>2. PICK f : KeysAll(f, s)
      BY <1>1, KeysSome
<1> DEFINE T == {i \in 0 .. n : f[i] \in Seq(S)}
<1> HIDE DEF S
<1>3. 0 \in T
      <2>1. f[0] = <<>>
            BY <1>2 DEF KeysAll, Empty
      <2>2. <<>> \in Seq(S)
            OBVIOUS
      <2>3. 0 \in 0 .. n
            BY <1>1
      <2> QED BY <2>1, <2>2, <2>3, Zenon
<1>4. \A i \in 1 .. n : i - 1 \in T => i \in T
      <2> TAKE i \in 1 .. n
      <2> HAVE i - 1 \in T
      <2>1. f[i] = IF s[i] = SpiEvent THEN f[i - 1] ELSE Append(f[i - 1], s[i])
            BY <1>2 DEF KeysAll
      <2>2. i \in 0 .. n /\ s[i] \in S /\ f[i - 1] \in Seq(S)
            BY <1>1
      <2>3. Append(f[i - 1], s[i]) \in Seq(S)
            BY <2>2
      <2> QED BY <2>1, <2>2, <2>3
<1> HIDE DEF T
<1>5. \A i \in 0 .. n : i \in T
      BY <1>1, <1>3, <1>4, CountTo
<1>6. n \in T
      BY <1>1, <1>5
<1> QED BY <1>1, <1>2, <1>6, KeysBy, SequenceIs DEF T

LEMMA KeysTaken ==
    ASSUME NEW s, IsSequence(s), s # <<>>
    PROVE  /\ IsSequence(Tail(s))
           /\ Head(s) = SpiEvent => KeysIn(Tail(s)) = KeysIn(s)
           /\ Head(s) # SpiEvent => KeysIn(s) # <<>> /\ KeysIn(Tail(s)) = Tail(KeysIn(s))
<1> DEFINE t == Tail(s)
           n == Len(t)
           S == {s[i] : i \in DOMAIN s}
<1>0. s \in Seq(S)
      BY DEF IsSequence
<1>1. /\ n \in Nat /\ t \in Seq(S) /\ Len(s) = n + 1 /\ Len(s) \in Nat /\ s[1] = Head(s)
      /\ \A i \in 1 .. n : t[i] = s[i + 1] /\ s[i + 1] \in S
      /\ s[1] \in S
      <2> HIDE DEF S
      <2> QED BY <1>0
<1>2. IsSequence(t)
      BY <1>1, SequenceIs
<1> HIDE DEF n, t, S
<1>3. PICK f : KeysAll(f, s)
      BY <1>1, KeysSome
<1>4. f[1] = IF s[1] = SpiEvent THEN <<>> ELSE <<s[1]>>
      <2>1. 1 \in 1 .. Len(s) /\ 1 - 1 = 0
            BY <1>1
      <2>2. Append(<<>>, s[1]) = <<s[1]>>
            OBVIOUS
      <2> QED BY <1>3, <2>1, <2>2 DEF KeysAll, Empty
<1>5. ASSUME NEW i \in 1 .. n
      PROVE  f[i + 1] = IF t[i] = SpiEvent THEN f[i] ELSE Append(f[i], t[i])
      <2>1. i + 1 \in 1 .. Len(s) /\ (i + 1) - 1 = i
            BY <1>1
      <2> QED BY <1>1, <1>3, <2>1 DEF KeysAll
<1>6. KeysIn(s) = f[n + 1]
      BY <1>1, <1>3, KeysBy
<1>7. CASE s[1] = SpiEvent
      <2> DEFINE g == [i \in 0 .. n |-> f[i + 1]]
      <2>1. KeysAll(g, t)
            <3>1. g[0] = Empty
                  BY <1>1, <1>4, <1>7 DEF Empty
            <3>2. ASSUME NEW i \in 1 .. n
                  PROVE  g[i] = IF t[i] = SpiEvent THEN g[i - 1] ELSE Append(g[i - 1], t[i])
                  <4>1. i \in 0 .. n /\ i - 1 \in 0 .. n /\ (i - 1) + 1 = i
                        BY <1>1
                  <4> QED BY <1>5, <4>1
            <3> QED BY <3>1, <3>2 DEF KeysAll, n
      <2>2. KeysIn(t) = g[n]
            BY <1>1, <2>1, KeysBy DEF n
      <2> QED BY <1>1, <1>2, <1>6, <1>7, <2>2 DEF t
<1>8. CASE s[1] # SpiEvent
      <2> DEFINE T == {i \in 0 .. n : f[i + 1] \in Seq(S) /\ f[i + 1] # <<>>}
                 g == [i \in 0 .. n |-> Tail(f[i + 1])]
      <2>1. 0 \in T
            <3>1. f[0 + 1] = <<s[1]>>
                  BY <1>4, <1>8
            <3>2. <<s[1]>> \in Seq(S) /\ <<s[1]>> # <<>>
                  BY <1>1
            <3>3. 0 \in 0 .. n
                  BY <1>1
            <3> QED BY <3>1, <3>2, <3>3, Zenon
      <2>2. \A i \in 1 .. n : i - 1 \in T => i \in T
            <3> TAKE i \in 1 .. n
            <3> HAVE i - 1 \in T
            <3>1. i \in 0 .. n /\ (i - 1) + 1 = i /\ t[i] \in S
                  BY <1>1
            <3>2. f[i] \in Seq(S) /\ f[i] # <<>>
                  BY <3>1
            <3>3. Append(f[i], t[i]) \in Seq(S) /\ Append(f[i], t[i]) # <<>>
                  BY <3>1, <3>2
            <3> QED BY <1>5, <3>1, <3>2, <3>3
      <2> HIDE DEF T
      <2>3. \A i \in 0 .. n : i \in T
            BY <1>1, <2>1, <2>2, CountTo
      <2>4. KeysAll(g, t)
            <3>1. g[0] = Empty
                  <4>1. 0 \in 0 .. n /\ f[0 + 1] = <<s[1]>>
                        BY <1>1, <1>4, <1>8
                  <4>2. Tail(<<s[1]>>) = <<>>
                        OBVIOUS
                  <4>3. g[0] = Tail(f[0 + 1])
                        BY <4>1
                  <4> QED BY <4>1, <4>2, <4>3, Zenon DEF Empty
            <3>2. ASSUME NEW i \in 1 .. n
                  PROVE  g[i] = IF t[i] = SpiEvent THEN g[i - 1] ELSE Append(g[i - 1], t[i])
                  <4>1. i \in 0 .. n /\ i - 1 \in 0 .. n /\ (i - 1) + 1 = i /\ t[i] \in S
                        BY <1>1
                  <4>2. f[i] \in Seq(S) /\ f[i] # <<>>
                        BY <2>3, <4>1 DEF T
                  <4>3. Tail(Append(f[i], t[i])) = Append(Tail(f[i]), t[i])
                        BY <4>1, <4>2
                  <4> QED BY <1>5, <4>1, <4>3
            <3> QED BY <3>1, <3>2 DEF KeysAll, n
      <2>5. KeysIn(t) = g[n]
            BY <1>1, <2>4, KeysBy DEF n
      <2>6. f[n + 1] # <<>> /\ g[n] = Tail(f[n + 1])
            BY <1>1, <2>3 DEF T
      <2> QED BY <1>1, <1>2, <1>6, <1>8, <2>5, <2>6 DEF t
<1> QED BY <1>7, <1>8

----------------------------------------------------------------------------
(* The invariant: the task holds a stroke from the time it has read it to the
   time it posts it, and reads only when there is one. *)
Delivering == {"left", "clear", "post"}
Orderly ==
    /\ chip = [on |-> chip.on, fifo |-> chip.fifo, int |-> chip.int]
    /\ IsSequence(chip.fifo) /\ \A i \in DOMAIN chip.fifo : chip.fifo[i] # None
    /\ IsSequence(inbox)
    /\ {"pc", "stroke"} \subseteq DOMAIN task
    /\ task.pc # "off" => (task.stroke # None <=> task.pc \in Delivering)
    /\ task.pc = "read" => chip.fifo # <<>>
    /\ "lost" \in DOMAIN trouble
IKeys == Orderly /\ KeysTrue

(* A stroke once lost stays on record. *)
LostKept == "lost" \in DOMAIN trouble' /\ (trouble.lost => trouble'.lost)

LEMMA LostByMishap ==
    ASSUME Orderly, NEW what, Mishap(what)
    PROVE  LostKept /\ (what = "lost" => trouble'.lost)
<1>1. /\ DOMAIN trouble' = DOMAIN trouble
      /\ \A f \in DOMAIN trouble :
            trouble'[f] = CASE f = "left" -> trouble.left - 1
                            [] f \in {"met", what} -> TRUE
                            [] OTHER -> trouble[f]
      BY DEF Mishap
<1>2. "lost" \in DOMAIN trouble
      BY DEF Orderly
<1>3. trouble'["lost"] = CASE "lost" = "left" -> trouble.left - 1
                           [] "lost" \in {"met", what} -> TRUE
                           [] OTHER -> trouble["lost"]
      BY <1>1, <1>2, Zenon
<1>4. /\ trouble'["lost"] = TRUE \/ trouble'["lost"] = trouble["lost"]
      /\ what = "lost" => trouble'["lost"] = TRUE
      BY <1>3
<1> QED BY <1>1, <1>2, <1>4, Zenon DEF LostKept

LEMMA LostByUnlucky ==
    ASSUME Orderly, NEW ok, Unlucky(ok)
    PROVE  LostKept
<1>1. CASE Mishap("nothing")
      BY <1>1, LostByMishap
<1>2. CASE trouble' = trouble
      BY <1>2, Zenon DEF Orderly, LostKept
<1> QED BY <1>1, <1>2, Zenon DEF Unlucky

LEMMA LostBySame ==
    ASSUME Orderly, trouble' = trouble
    PROVE  LostKept
BY Zenon DEF Orderly, LostKept

LEMMA LostByMark ==
    ASSUME Orderly, NEW x, trouble' = [trouble EXCEPT !.lost = @ \/ x]
    PROVE  LostKept /\ (x => trouble'.lost)
<1>1. DOMAIN trouble' = DOMAIN trouble /\ trouble'["lost"] = (trouble["lost"] \/ x)
      BY DEF Orderly
<1> QED BY <1>1, Zenon DEF Orderly, LostKept

LEMMA LostByWorld ==
    ASSUME Orderly, NEW step, NEW ok, WorldStep(step, ok)
    PROVE  LostKept
<1>1. CASE PulseOn(step, ok) \/ PulseOff(step, ok) \/ StopPump(step, ok) \/ Escape(step, ok)
           \/ WifiStop(step, ok)
      BY <1>1, LostBySame DEF PulseOn, PulseOff, StopPump, Escape, WifiStop
<1>2. CASE Ppp(step, ok) \/ Scan(step, ok) \/ Connect(step, ok) \/ Disconnect(step, ok)
      BY <1>2, LostByUnlucky DEF Ppp, Scan, Connect, Disconnect
<1>3. CASE NvsSet(step, ok) \/ SaveNet(step, ok) \/ DeleteNet(step, ok) \/ Migrate(step, ok)
      <2>1. \E x : Unlucky(x)
            BY <1>3, Zenon DEF NvsSet, SaveNet, DeleteNet, Migrate, WriteAll
      <2> QED BY <2>1, LostByUnlucky
<1>4. CASE HttpGet(step, ok) \/ HttpPost(step, ok) \/ Smtp(step, ok)
      BY <1>4, LostByUnlucky DEF HttpGet, HttpPost, Smtp
<1> QED BY <1>1, <1>2, <1>3, <1>4, Zenon DEF WorldStep

----------------------------------------------------------------------------
(* The steps that leave the keys alone, and those that only take one. *)

Untouched == UNCHANGED <<chip, task, mapper, inbox, due>>

LEMMA UntouchedKeeps ==
    ASSUME IKeys, Untouched, LostKept
    PROVE  IKeys'
<1>1. /\ chip' = chip /\ task' = task /\ mapper' = mapper /\ inbox' = inbox /\ due' = due
      BY DEF Untouched
<1>2. Orderly'
      BY <1>1 DEF IKeys, Orderly, LostKept
<1>3. Undelivered' = Undelivered
      BY <1>1, Zenon DEF Undelivered
<1>4. KeysTrue'
      BY <1>1, <1>3, Zenon DEF IKeys, KeysTrue, LostKept
<1> QED BY <1>2, <1>4 DEF IKeys

(* What the task holds and what lies in the chip is a sequence. *)
LEMMA UndeliveredIs ==
    ASSUME Orderly
    PROVE  \E S : /\ chip.fifo \in Seq(S) /\ task.stroke \in S
                  /\ Undelivered \in Seq(S)
<1> DEFINE S == {chip.fifo[i] : i \in DOMAIN chip.fifo} \cup {task.stroke}
<1>1. chip.fifo \in Seq(S)
      BY DEF Orderly, IsSequence
<1>2. task.stroke \in S
      OBVIOUS
<1> HIDE DEF S
<1>3. <<task.stroke>> \o chip.fifo \in Seq(S) /\ <<>> \o chip.fifo \in Seq(S)
      BY <1>1, <1>2
<1> QED BY <1>1, <1>2, <1>3 DEF Undelivered, Empty

LEMMA TakeEventKeeps ==
    ASSUME IKeys, TakeEvent
    PROVE  IKeys'
<1>1. /\ inbox # <<>> /\ inbox' = Tail(inbox) /\ chip' = chip /\ task' = task
      /\ mapper' = mapper /\ trouble' = trouble
      /\ due' = IF Head(inbox) = SpiEvent \/ due.events = <<>> THEN due
                ELSE [due EXCEPT !.events = Tail(@)]
      BY DEF TakeEvent
<1>2. /\ IsSequence(Tail(inbox))
      /\ Head(inbox) = SpiEvent => KeysIn(Tail(inbox)) = KeysIn(inbox)
      /\ Head(inbox) # SpiEvent =>
            KeysIn(inbox) # <<>> /\ KeysIn(Tail(inbox)) = Tail(KeysIn(inbox))
      BY <1>1, KeysTaken DEF IKeys, Orderly
<1>3. Orderly'
      BY <1>1, <1>2 DEF IKeys, Orderly
<1>4. Undelivered' = Undelivered
      BY <1>1, Zenon DEF Undelivered
<1> DEFINE so == [events |-> KeysIn(inbox), mapper |-> mapper]
<1>5. ASSUME ~trouble.lost
      PROVE  Gives([events |-> KeysIn(inbox'), mapper |-> mapper], Undelivered) = due'
      <2>1. Gives(so, Undelivered) = due
            BY <1>5 DEF IKeys, KeysTrue
      <2>2. CASE Head(inbox) = SpiEvent
            BY <1>1, <1>2, <2>1, <2>2
      <2>3. CASE Head(inbox) # SpiEvent
            <3>1. IsSo(so)
                  BY <2>3, <1>2, KeysAreASequence DEF IsSo, IKeys, Orderly
            <3>2. PICK S : Undelivered \in Seq(S)
                  BY UndeliveredIs DEF IKeys
            <3> HIDE DEF so
            <3>3. IsSo(due) /\ Gives(WithoutFirst(so), Undelivered) = WithoutFirst(due)
                  BY <2>1, <3>1, <3>2, GivesTaken
            <3>4. due' = WithoutFirst(due)
                  BY <1>1, <2>3, <3>3 DEF IsSo, WithoutFirst
            <3>5. WithoutFirst(so) = [events |-> KeysIn(inbox'), mapper |-> mapper]
                  BY <1>1, <1>2, <2>3 DEF so, WithoutFirst
            <3> QED BY <3>3, <3>4, <3>5
      <2> QED BY <2>2, <2>3
<1>6. KeysTrue'
      BY <1>1, <1>4, <1>5 DEF KeysTrue
<1> QED BY <1>3, <1>6 DEF IKeys

LEMMA ScreenDoneGives ==
    ASSUME IKeys, ScreenDone
    PROVE  IKeys'
<1>1. /\ inbox' = Append(inbox, SpiEvent) /\ chip' = chip /\ task' = task
      /\ mapper' = mapper /\ trouble' = trouble /\ due' = due
      BY DEF ScreenDone
<1>2. IsSequence(inbox') /\ KeysIn(inbox') = KeysIn(inbox)
      BY <1>1, KeysNext DEF IKeys, Orderly
<1>3. Orderly'
      BY <1>1, <1>2 DEF IKeys, Orderly
<1>4. Undelivered' = Undelivered
      BY <1>1, Zenon DEF Undelivered
<1>5. KeysTrue'
      BY <1>1, <1>2, <1>4, Zenon DEF IKeys, KeysTrue
<1> QED BY <1>3, <1>5 DEF IKeys

LEMMA MainStepGives ==
    ASSUME IKeys, MainStep
    PROVE  IKeys'
<1>1. CASE Expand \/ DriverCall \/ SendCommand \/ ReadAnswer \/ CommandTimesOut
           \/ HelloAgain \/ HelloGivesUp
      <2>1. Untouched
            BY <1>1 DEF Expand, DriverCall, SendCommand, ReadAnswer, CommandTimesOut, HelloAgain,
                        HelloGivesUp, OnlyMain, inputVars, Untouched
      <2>2. LostKept
            <3>1. CASE Expand \/ SendCommand \/ ReadAnswer \/ HelloAgain
                  BY <3>1, LostBySame DEF Expand, SendCommand, ReadAnswer, HelloAgain, IKeys
            <3>2. CASE DriverCall
                  <4>1. \E ok : WorldStep(Now, ok)
                        BY <3>2, Zenon DEF DriverCall
                  <4> QED BY <4>1, LostByWorld DEF IKeys
            <3>3. CASE CommandTimesOut
                  <4>1. Unlucky(ModemSilent)
                        BY <3>3, Zenon DEF CommandTimesOut
                  <4> QED BY <4>1, LostByUnlucky DEF IKeys
            <3>4. CASE HelloGivesUp
                  BY <3>4, LostByMishap DEF HelloGivesUp, IKeys
            <3> QED BY <1>1, <3>1, <3>2, <3>3, <3>4
      <2> QED BY <2>1, <2>2, UntouchedKeeps
<1>2. CASE AskInput \/ InputAnswers \/ Sleep
      <2>1. Untouched /\ trouble' = trouble
            BY <1>2 DEF AskInput, InputAnswers, Sleep, Untouched
      <2> QED BY <2>1, UntouchedKeeps, LostBySame DEF IKeys
<1>3. CASE Booted \/ Shown \/ ShownClear \/ GoingDown \/ Calling \/ Dark \/ Ship \/ Shipping
           \/ DisplayFinished \/ Doze \/ VolumeKnown \/ NoCallKey \/ HungUp \/ PollCall
      <2>1. Untouched /\ trouble' = trouble
            BY <1>3 DEF Booted, Shown, ShownClear, GoingDown, Calling, Dark, Ship, Shipping,
                        DisplayFinished, Doze, VolumeKnown, NoCallKey, HungUp, PollCall, NoInput,
                        inputVars, Untouched
      <2> QED BY <2>1, UntouchedKeeps, LostBySame DEF IKeys
<1>4. CASE TakeSpi \/ LockKey \/ UnlockKey \/ LockedKey \/ ModeKey \/ TerminalLine \/ DropEvent
           \/ CallEvent
      <2>1. TakeEvent
            BY <1>4, Zenon DEF TakeSpi, LockKey, UnlockKey, LockedKey, ModeKey, TerminalLine,
                               DropEvent, CallEvent, TakeKey
      <2> QED BY <2>1, TakeEventKeeps
<1>5. CASE Off
      <2>1. /\ task' = [task EXCEPT !.pc = "off"] /\ chip' = chip /\ mapper' = mapper
            /\ inbox' = inbox /\ due' = due /\ trouble' = trouble
            BY <1>5 DEF Off
      <2>2. Orderly' /\ task'.stroke = task.stroke
            BY <2>1 DEF IKeys, Orderly
      <2>3. Undelivered' = Undelivered
            <3>1. task'.stroke = task.stroke /\ chip'.fifo = chip.fifo
                  BY <2>1, <2>2
            <3> QED BY <3>1, Zenon DEF Undelivered
      <2>4. KeysTrue'
            BY <2>1, <2>3, Zenon DEF IKeys, KeysTrue
      <2> QED BY <2>2, <2>4 DEF IKeys
<1> QED BY <1>1, <1>2, <1>3, <1>4, <1>5, Zenon DEF MainStep

----------------------------------------------------------------------------
(* The strokes: typed, read, held and posted. *)

(* The chip and the task hold the same strokes as before. *)
LEMMA SameStrokesKeep ==
    ASSUME IKeys, LostKept, mapper' = mapper, inbox' = inbox, due' = due,
           chip' = [on |-> chip'.on, fifo |-> chip.fifo, int |-> chip'.int],
           {"pc", "stroke"} \subseteq DOMAIN task', task'.stroke = task.stroke,
           task'.pc # "off" => (task.stroke # None <=> task'.pc \in Delivering),
           task'.pc = "read" => chip.fifo # <<>>
    PROVE  IKeys'
<1>1. chip'.fifo = chip.fifo /\ chip' = [on |-> chip'.on, fifo |-> chip'.fifo, int |-> chip'.int]
      BY DEF IKeys, Orderly
<1>2. Orderly'
      BY <1>1 DEF IKeys, Orderly, LostKept
<1>3. Undelivered' = Undelivered
      BY <1>1 DEF Undelivered
<1>4. KeysTrue'
      BY <1>3, Zenon DEF IKeys, KeysTrue, LostKept
<1> QED BY <1>2, <1>4 DEF IKeys

(* Strokes are lost, and it is on record. *)
LEMMA LosingKeeps ==
    ASSUME IKeys, LostKept, trouble'.lost, inbox' = inbox,
           chip' = [on |-> chip'.on, fifo |-> chip'.fifo, int |-> chip'.int],
           chip'.fifo \in {chip.fifo, <<>>},
           {"pc", "stroke"} \subseteq DOMAIN task',
           task'.pc # "off" => (task'.stroke # None <=> task'.pc \in Delivering),
           task'.pc = "read" => chip'.fifo # <<>>
    PROVE  IKeys'
<1>1. IsSequence(chip'.fifo) /\ \A i \in DOMAIN chip'.fifo : chip'.fifo[i] # None
      <2>1. IsSequence(<<>>) /\ DOMAIN <<>> = {}
            BY NoSteps
      <2> QED BY <2>1 DEF IKeys, Orderly
<1>2. Orderly'
      BY <1>1 DEF IKeys, Orderly, LostKept
<1>3. KeysTrue'
      BY Zenon DEF KeysTrue
<1> QED BY <1>2, <1>3 DEF IKeys

LEMMA StrokeIsNot ==
    ASSUME NEW k, NEW down
    PROVE  Stroke(k, down) # None
<1>1. DOMAIN Stroke(k, down) = {"k", "down"} /\ DOMAIN None = {"is"}
      BY DEF Stroke, None
<1> QED BY <1>1

LEMMA UserTypesGives ==
    ASSUME IKeys, UserTypes
    PROVE  IKeys'
<1> DEFINE k == Strokes[typed + 1].k
           down == Strokes[typed + 1].down
<1>1. Press(k, down)
      BY Zenon DEF UserTypes
<1> HIDE DEF k, down
<1>2. /\ task' = task /\ mapper' = mapper /\ inbox' = inbox
      /\ \/ /\ chip' = [chip EXCEPT !.fifo = Append(@, Stroke(k, down)), !.int = TRUE]
            /\ due' = Gains(due, Stroke(k, down))
            /\ trouble' = trouble
         \/ trouble' = [trouble EXCEPT !.lost = TRUE] /\ chip' = chip /\ due' = due
      BY <1>1, Zenon DEF Press
<1>3. CASE trouble' = [trouble EXCEPT !.lost = TRUE] /\ chip' = chip /\ due' = due
      <2>1. LostKept
            BY <1>3 DEF IKeys, Orderly, LostKept
      <2> QED BY <1>2, <1>3, <2>1, UntouchedKeeps DEF Untouched
<1>4. CASE /\ chip' = [chip EXCEPT !.fifo = Append(@, Stroke(k, down)), !.int = TRUE]
           /\ due' = Gains(due, Stroke(k, down))
           /\ trouble' = trouble
      <2> DEFINE x == Stroke(k, down)
                 R == {chip.fifo[i] : i \in DOMAIN chip.fifo} \cup {task.stroke, x}
      <2>1. x # None
            BY StrokeIsNot
      <2>2. chip' = [on |-> chip.on, fifo |-> Append(chip.fifo, x), int |-> TRUE]
            BY <1>4 DEF IKeys, Orderly
      <2>3. chip.fifo \in Seq(R) /\ x \in R /\ task.stroke \in R
            BY DEF IKeys, Orderly, IsSequence
      <2> HIDE DEF R, x
      <2>4. /\ Append(chip.fifo, x) \in Seq(R) /\ Append(chip.fifo, x) # <<>>
            /\ DOMAIN Append(chip.fifo, x) = 1 .. Len(chip.fifo) + 1
            /\ DOMAIN chip.fifo = 1 .. Len(chip.fifo) /\ Len(chip.fifo) \in Nat
            /\ \A i \in 1 .. Len(chip.fifo) : Append(chip.fifo, x)[i] = chip.fifo[i]
            /\ Append(chip.fifo, x)[Len(chip.fifo) + 1] = x
            BY <2>3
      <2>5. IsSequence(chip'.fifo) /\ \A i \in DOMAIN chip'.fifo : chip'.fifo[i] # None
            <3>1. IsSequence(Append(chip.fifo, x))
                  BY <2>4, SequenceIs
            <3>2. \A i \in DOMAIN chip.fifo : chip.fifo[i] # None
                  BY DEF IKeys, Orderly
            <3>3. \A i \in 1 .. Len(chip.fifo) + 1 : Append(chip.fifo, x)[i] # None
                  BY <2>1, <2>4, <3>2
            <3> QED BY <2>2, <2>4, <3>1, <3>3
      <2>6. Orderly'
            <3>1. task' = task /\ IsSequence(inbox') /\ "lost" \in DOMAIN trouble'
                  BY <1>2, <1>4, Zenon DEF IKeys, Orderly
            <3>2. /\ chip'.fifo # <<>>
                  /\ chip' = [on |-> chip'.on, fifo |-> chip'.fifo, int |-> chip'.int]
                  BY <2>2, <2>4
            <3> QED BY <2>5, <3>1, <3>2 DEF IKeys, Orderly
      <2>7. Undelivered \in Seq(R) /\ Undelivered' = Append(Undelivered, x)
            <3>1. \A s \in Seq(R) : s \o Append(chip.fifo, x) = Append(s \o chip.fifo, x)
                  BY <2>3
            <3>2. <<task.stroke>> \in Seq(R) /\ <<>> \in Seq(R)
                  BY <2>3
            <3>3. \A s \in Seq(R) : s \o chip.fifo \in Seq(R)
                  BY <2>3
            <3>4. chip'.fifo = Append(chip.fifo, x) /\ task'.stroke = task.stroke
                  BY <1>2, <2>2
            <3> QED BY <3>1, <3>2, <3>3, <3>4 DEF Undelivered, Empty
      <2>8. \A so : Gives(so, Undelivered') = Gains(Gives(so, Undelivered), x)
            BY <2>3, <2>7, GivesNext
      <2>9. KeysTrue'
            <3>1. due' = Gains(due, x)
                  BY <1>4 DEF x
            <3> QED BY <1>2, <1>4, <2>8, <3>1 DEF IKeys, KeysTrue
      <2> QED BY <2>6, <2>9 DEF IKeys
<1> QED BY <1>2, <1>3, <1>4

LEMMA ReadStrokeGives ==
    ASSUME IKeys, ReadStroke
    PROVE  IKeys'
<1>1. /\ task.pc = "read" /\ task' = [task EXCEPT !.pc = "left", !.stroke = Head(chip.fifo)]
      /\ chip' = [chip EXCEPT !.fifo = Tail(@)] /\ mapper' = mapper /\ inbox' = inbox
      /\ due' = due /\ trouble' = trouble
      BY DEF ReadStroke, TaskAt, Busy
<1>2. task.stroke = None /\ chip.fifo # <<>>
      BY <1>1 DEF IKeys, Orderly, Delivering
<1> DEFINE S == {chip.fifo[i] : i \in DOMAIN chip.fifo}
<1>3. chip.fifo \in Seq(S) /\ chip.fifo # <<>> /\ \A i \in DOMAIN chip.fifo : chip.fifo[i] # None
      BY <1>2 DEF IKeys, Orderly, IsSequence
<1> HIDE DEF S
<1>4. /\ Head(chip.fifo) # None /\ Tail(chip.fifo) \in Seq(S)
      /\ \A i \in DOMAIN Tail(chip.fifo) : Tail(chip.fifo)[i] # None
      /\ <<Head(chip.fifo)>> \o Tail(chip.fifo) = chip.fifo
      /\ <<>> \o chip.fifo = chip.fifo
      BY <1>3
<1>5. IsSequence(Tail(chip.fifo))
      BY <1>4, SequenceIs
<1>6. /\ task'.pc = "left" /\ task'.stroke = Head(chip.fifo)
      /\ {"pc", "stroke"} \subseteq DOMAIN task'
      /\ chip' = [on |-> chip.on, fifo |-> Tail(chip.fifo), int |-> chip.int]
      BY <1>1 DEF IKeys, Orderly
<1>7. Orderly'
      BY <1>1, <1>4, <1>5, <1>6 DEF IKeys, Orderly, Delivering
<1>8. Undelivered = chip.fifo /\ Undelivered' = chip.fifo
      BY <1>2, <1>4, <1>6 DEF Undelivered, Empty
<1>9. KeysTrue'
      BY <1>1, <1>8 DEF IKeys, KeysTrue
<1> QED BY <1>7, <1>9 DEF IKeys

(* No key of the key map is the panel's event. *)
LEMMA NotThePanels ==
    ASSUME NEW m, NEW stroke
    PROVE  Process(m, stroke).event # SpiEvent
<1>1. \A c : Char(c) # SpiEvent
      <2> TAKE c
      <2>1. DOMAIN Char(c) = {"key", "ch"} /\ DOMAIN SpiEvent = {"key"}
            BY DEF Char, SpiEvent
      <2> QED BY <2>1
<1>2. \A name : name # "Spi" => Special(name) # SpiEvent
      BY DEF Special, SpiEvent
<1>3. NoEvent # SpiEvent
      BY DEF NoEvent, SpiEvent
<1>4. \A k \in DOMAIN AltKeys : AltKeys[k] # "Spi"
      BY InputAssumption
<1>5. \A event, left : Yields(event, left).event = event
      BY DEF Yields
<1>6. ASSUME NEW k
      PROVE  Pressed(m, k).event # SpiEvent
      <2> DEFINE alt == [m EXCEPT !.alt = AltKeys[k] # "Lock"]
      <2>1. \E event, left :
               /\ Pressed(m, k) = Yields(event, left)
               /\ \/ event = NoEvent
                  \/ \E c : event = Char(c)
                  \/ \E name : name # "Spi" /\ event = Special(name)
            BY <1>4 DEF Pressed
      <2> QED BY <2>1, <1>1, <1>2, <1>3, <1>5
<1>7. Yields(NoEvent, m).event # SpiEvent
      BY <1>3, <1>5
<1> QED BY <1>6, <1>7 DEF Process

LEMMA PostGives ==
    ASSUME IKeys, Post
    PROVE  IKeys'
<1> DEFINE y == Process(mapper, task.stroke)
<1>1. /\ task.pc = "post" /\ mapper' = y.mapper
      /\ inbox' = IF y.event = NoEvent THEN inbox ELSE Append(inbox, y.event)
      /\ task' = [task EXCEPT !.pc = "count", !.stroke = None]
      /\ chip' = chip /\ due' = due /\ trouble' = trouble
      BY DEF Post, TaskAt
<1>2. task.stroke # None
      BY <1>1 DEF IKeys, Orderly, Delivering
<1>3. y.event # SpiEvent
      BY NotThePanels
<1> DEFINE so == [events |-> KeysIn(inbox), mapper |-> mapper]
<1>4. Gains(so, task.stroke) = [events |-> IF y.event = NoEvent THEN KeysIn(inbox)
                                           ELSE Append(KeysIn(inbox), y.event),
                                mapper |-> y.mapper]
      BY DEF Gains
<1> HIDE DEF y
<1>5. /\ IsSequence(inbox')
      /\ KeysIn(inbox') = IF y.event = NoEvent THEN KeysIn(inbox)
                          ELSE Append(KeysIn(inbox), y.event)
      BY <1>1, <1>3, KeysNext DEF IKeys, Orderly
<1>6. /\ task'.pc = "count" /\ task'.stroke = None /\ {"pc", "stroke"} \subseteq DOMAIN task'
      BY <1>1 DEF IKeys, Orderly
<1>7. Orderly'
      BY <1>1, <1>5, <1>6 DEF IKeys, Orderly, Delivering
<1>8. PICK S : chip.fifo \in Seq(S) /\ task.stroke \in S
      BY UndeliveredIs DEF IKeys
<1>9. Undelivered = <<task.stroke>> \o chip.fifo /\ Undelivered' = chip.fifo
      <2>1. <<>> \o chip.fifo = chip.fifo
            BY <1>8
      <2> QED BY <1>1, <1>2, <1>6, <2>1 DEF Undelivered, Empty
<1> HIDE DEF so
<1>10. Gives(so, Undelivered) = Gives(Gains(so, task.stroke), Undelivered')
      BY <1>8, <1>9, GivesFirst
<1>11. [events |-> KeysIn(inbox'), mapper |-> mapper'] = Gains(so, task.stroke)
      BY <1>1, <1>4, <1>5
<1>12. KeysTrue'
      BY <1>1, <1>10, <1>11 DEF IKeys, KeysTrue, so
<1> QED BY <1>7, <1>12 DEF IKeys

LEMMA InputGives ==
    ASSUME IKeys, InputNext
    PROVE  IKeys'
<1>1. CASE Isr \/ Wake \/ GaugeSettles \/ WatchdogExpires
      <2>1. Untouched /\ trouble' = trouble
            BY <1>1 DEF Isr, Wake, GaugeSettles, WatchdogExpires, Untouched
      <2> QED BY <2>1, UntouchedKeeps, LostBySame DEF IKeys
<1>2. CASE Setup
      <2>1. /\ task.pc = "setup" /\ mapper' = mapper /\ inbox' = inbox /\ due' = due
            /\ \E i, b : task' = SetupAt(i, b)
            BY <1>2, Zenon DEF Setup, TaskAt, Busy
      <2>2. task.stroke = None
            BY <2>1 DEF IKeys, Orderly, Delivering
      <2>3. /\ {"pc", "stroke"} \subseteq DOMAIN task' /\ task'.stroke = None
            /\ task'.pc \in {"count", "setup"}
            BY <2>1, <2>2 DEF SetupAt, IKeys, Orderly
      <2> DEFINE do == ThisSetup.do
      <2>4. /\ chip' = CASE do = "configure" -> [chip EXCEPT !.on = TRUE]
                         [] do = "flush" -> [chip EXCEPT !.fifo = Empty, !.int = FALSE]
                         [] OTHER -> chip
            /\ trouble' = [trouble EXCEPT !.lost = @ \/ (do = "flush" /\ chip.fifo # Empty)]
            BY <1>2, Zenon DEF Setup
      <2> HIDE DEF do
      <2>5. LostKept /\ (do = "flush" /\ chip.fifo # Empty => trouble'.lost)
            BY <2>4, LostByMark DEF IKeys
      <2>6. CASE do = "flush" /\ chip.fifo # Empty
            <3>1. chip' = [on |-> chip.on, fifo |-> <<>>, int |-> FALSE]
                  BY <2>4, <2>6 DEF IKeys, Orderly, Empty
            <3> QED BY <2>1, <2>3, <2>5, <2>6, <3>1, LosingKeeps DEF Delivering
      <2>7. CASE ~(do = "flush" /\ chip.fifo # Empty)
            <3>1. chip' = [on |-> chip'.on, fifo |-> chip.fifo, int |-> chip'.int]
                  BY <2>4, <2>7 DEF IKeys, Orderly
            <3> QED BY <2>1, <2>2, <2>3, <2>5, <3>1, SameStrokesKeep DEF Delivering
      <2> QED BY <2>6, <2>7
<1>3. CASE SetupFails
      <2>1. /\ task.pc = "setup" /\ chip' = chip
            /\ mapper' = mapper /\ inbox' = inbox /\ due' = due
            /\ \E i, b : task' = SetupAt(i, b)
            /\ \E what : Mishap(what)
            BY <1>3, Zenon DEF SetupFails, TaskAt, Busy
      <2>2. task.stroke = None
            BY <2>1 DEF IKeys, Orderly, Delivering
      <2>3. /\ {"pc", "stroke"} \subseteq DOMAIN task' /\ task'.stroke = None
            /\ task'.pc \in {"count", "setup"}
            BY <2>1, <2>2 DEF SetupAt, IKeys, Orderly
      <2>4. LostKept
            BY <2>1, LostByMishap DEF IKeys
      <2>5. chip' = [on |-> chip'.on, fifo |-> chip.fifo, int |-> chip'.int]
            BY <2>1 DEF IKeys, Orderly
      <2> QED BY <2>1, <2>2, <2>3, <2>4, <2>5, SameStrokesKeep DEF Delivering
<1>4. CASE Count \/ Left \/ ClearInt
      <2>1. /\ mapper' = mapper /\ inbox' = inbox /\ due' = due /\ trouble' = trouble
            /\ {"pc", "stroke"} \subseteq DOMAIN task' /\ task'.stroke = task.stroke
            /\ \/ task.pc = "count" /\ task'.pc = "serve"
               \/ task.pc = "count" /\ task'.pc = "read" /\ chip.fifo # Empty
               \/ task.pc \in {"left", "clear"} /\ task'.pc \in {"clear", "post"}
            BY <1>4 DEF Count, Left, ClearInt, TaskAt, Busy, IKeys, Orderly
      <2>2. chip' = [on |-> chip'.on, fifo |-> chip.fifo, int |-> chip'.int]
            BY <1>4 DEF Count, Left, ClearInt, IKeys, Orderly
      <2>3. LostKept
            BY <2>1, LostBySame DEF IKeys
      <2>4. task'.pc # "off" => (task.stroke # None <=> task'.pc \in Delivering)
            BY <2>1 DEF IKeys, Orderly, Delivering
      <2>5. task'.pc = "read" => chip.fifo # <<>>
            BY <2>1 DEF Empty
      <2> QED BY <2>1, <2>2, <2>3, <2>4, <2>5, SameStrokesKeep
<1>5. CASE ReadStroke \/ Post
      BY <1>5, ReadStrokeGives, PostGives
<1>6. CASE PollFails
      <2>1. /\ mapper' = mapper /\ inbox' = inbox /\ due' = due /\ chip' = chip
            /\ task' = [task EXCEPT !.pc = "serve", !.stroke = None]
            /\ Mishap(IF task.stroke = None THEN "nothing" ELSE "lost")
            BY <1>6 DEF PollFails, Faulty, Busy
      <2>2. LostKept /\ (task.stroke # None => trouble'.lost)
            BY <2>1, LostByMishap DEF IKeys
      <2>3. chip' = [on |-> chip'.on, fifo |-> chip'.fifo, int |-> chip'.int]
            BY <2>1 DEF IKeys, Orderly
      <2>4. /\ {"pc", "stroke"} \subseteq DOMAIN task' /\ task'.stroke = None
            /\ task'.pc = "serve"
            BY <2>1 DEF IKeys, Orderly
      <2>5. CASE task.stroke # None
            BY <2>1, <2>2, <2>3, <2>4, <2>5, LosingKeeps DEF Delivering
      <2>6. CASE task.stroke = None
            BY <2>1, <2>2, <2>3, <2>4, <2>6, SameStrokesKeep DEF Delivering
      <2> QED BY <2>5, <2>6
<1>7. CASE Serve \/ Work \/ WorkFails \/ Arm \/ Look \/ Notified
      <2>1. /\ mapper' = mapper /\ inbox' = inbox /\ due' = due /\ chip' = chip
            BY <1>7 DEF Serve, Work, WorkFails, Arm, Look, Notified, Busy
      <2>2. task.pc \in {"serve", "work", "arm", "look", "wait"}
            BY <1>7 DEF Serve, Work, WorkFails, Arm, Look, Notified, TaskAt
      <2>3. task.stroke = None
            BY <2>2 DEF IKeys, Orderly, Delivering
      <2>4. /\ {"pc", "stroke"} \subseteq DOMAIN task' /\ task'.stroke = None
            /\ task'.pc \in {"serve", "work", "arm", "look", "wait", "count"}
            <3>1. CASE Serve \/ Arm \/ Look \/ Notified
                  BY <2>3, <3>1 DEF Serve, Arm, Look, Notified, IKeys, Orderly
            <3>2. CASE WorkFails
                  <4>1. \E result : Answered(result)
                        BY <3>2, Zenon DEF WorkFails
                  <4> QED BY <2>3, <4>1 DEF Answered, IKeys, Orderly
            <3>3. CASE Work
                  <4>1. Stepped(task) \/ Stepped([task EXCEPT !.seen = charger])
                        BY <3>3, Zenon DEF Work
                  <4>2. task.pc = "work"
                        BY <3>3 DEF Work, TaskAt
                  <4> QED BY <2>3, <4>1, <4>2 DEF Stepped, Answered, IKeys, Orderly
            <3> QED BY <1>7, <3>1, <3>2, <3>3
      <2>5. LostKept
            <3>1. CASE WorkFails
                  BY <3>1, LostByMishap DEF WorkFails, IKeys
            <3>2. CASE Serve \/ Work \/ Arm \/ Look \/ Notified
                  <4>1. trouble' = trouble
                        BY <3>2 DEF Serve, Work, Arm, Look, Notified
                  <4> QED BY <4>1, LostBySame DEF IKeys
            <3> QED BY <1>7, <3>1, <3>2
      <2>6. chip' = [on |-> chip'.on, fifo |-> chip.fifo, int |-> chip'.int]
            BY <2>1 DEF IKeys, Orderly
      <2> QED BY <2>1, <2>3, <2>4, <2>5, <2>6, SameStrokesKeep DEF Delivering
<1> QED BY <1>1, <1>2, <1>3, <1>4, <1>5, <1>6, <1>7, Zenon DEF InputNext, TaskStep

----------------------------------------------------------------------------

LEMMA StartsGiving ==
    ASSUME HandsetInit
    PROVE  IKeys
<1>1. /\ chip = [on |-> FALSE, fifo |-> Empty, int |-> FALSE] /\ task = TaskInit
      /\ mapper = NoModifiers /\ inbox = Empty
      /\ due = [events |-> Empty, mapper |-> NoModifiers] /\ \E max : TroubleInit(max)
      BY Zenon DEF HandsetInit, InputInit
<1>2. IsSequence(<<>>) /\ DOMAIN <<>> = {}
      BY NoSteps
<1>3. Orderly
      BY <1>1, <1>2 DEF Orderly, TaskInit, Empty, TroubleInit, Delivering
<1>4. Undelivered = <<>>
      <2>1. task.stroke = None /\ chip.fifo = <<>>
            BY <1>1 DEF TaskInit, Empty
      <2>2. <<>> \o <<>> = <<>>
            OBVIOUS
      <2> QED BY <2>1, <2>2 DEF Undelivered, Empty
<1>5. KeysTrue
      BY <1>1, <1>4, KeysNone, GivesNone DEF KeysTrue, Empty
<1> QED BY <1>3, <1>5 DEF IKeys

LEMMA StillGiving ==
    ASSUME IKeys, [HandsetNext]_vars
    PROVE  IKeys'
<1>1. CASE UserTypes \/ ScreenDone \/ MainStep
      BY <1>1, UserTypesGives, ScreenDoneGives, MainStepGives
<1>2. CASE ModemStep \/ CallEnds \/ UNCHANGED vars
      <2>1. Untouched /\ trouble' = trouble
            BY <1>2 DEF ModemStep, CallEnds, vars, inputVars, mainVars, Untouched
      <2> QED BY <2>1, UntouchedKeeps, LostBySame DEF IKeys
<1>3. CASE ApLost /\ UNCHANGED <<inputVars, mainVars>>
      <2>1. Untouched
            BY <1>3 DEF inputVars, Untouched
      <2>2. Mishap("nothing")
            BY <1>3 DEF ApLost
      <2> QED BY <2>1, <2>2, UntouchedKeeps, LostByMishap DEF IKeys
<1>4. CASE InputNext
      BY <1>4, InputGives
<1> QED BY <1>1, <1>2, <1>3, <1>4, Zenon DEF HandsetNext

(* Whatever is typed, however fast, and whatever fails, every key reaches the
   kernel once, in the order typed and with the modifiers it was typed with,
   until a stroke is lost: the FIFO of the keyboard chip, Keyboard::poll() of
   device/src/keyboard.rs, KeyMapper::process() of core/src/keymap.rs and the
   inbox together are one queue. *)
THEOREM KeysNeverMixedUp == HandsetSpec => []KeysTrue
<1>1. HandsetInit => IKeys
      BY StartsGiving
<1>2. IKeys /\ [HandsetNext]_vars => IKeys'
      BY StillGiving
<1>3. IKeys => KeysTrue
      BY DEF IKeys
<1> QED BY <1>1, <1>2, <1>3, PTL DEF HandsetSpec
=============================================================================
