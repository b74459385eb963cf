---------------------------- MODULE CallsProofs ----------------------------
(***************************************************************************)
(* Proofs about Calls, for any numbers, keys and faults, any chunks on the *)
(* wire and any settings: the call service waits for an answer exactly as  *)
(* long as one is to come, and asks once.                                  *)
(*                                                                         *)
(* It remembers a request as long as the HAL has it queued or in flight, or *)
(* its answer is on the way up, and no longer: Serves says so. Keeps, Moves *)
(* and Serves follow a request down and its answer up: no turn of the HAL, *)
(* no flush and no read adds one or loses one without an answer, and the   *)
(* service forgets one with its answer only.                               *)
(***************************************************************************)
EXTENDS Calls, SequenceTheorems, FiniteSetTheorems, WellFoundedInduction, TLAPS

\* What requests are known by; of the first three there is one at a time.
Single == {"ListCalls", "Answer", "HangUp"}
Kinds == Single \cup Dialled

-----------------------------------------------------------------------------
(* Counting up. *)

LEMMA LeastNumber ==
    ASSUME NEW S \in SUBSET Nat, S # {}
    PROVE  \E n \in S : \A m \in S : ~(m < n)
<1> DEFINE R == {p \in Nat \X Nat : p[1] < p[2]}
<1>1. IsWellFoundedOn(R, Nat)
      BY NatLessThanWellFounded, SMT DEF OpToRel
<1> HIDE DEF R
<1>2. PICK n \in S : \A m \in S : ~ (<<m, n>> \in R)
      BY <1>1, WFMin, Zenon
<1>3. \A m \in S : ~(m < n)
      BY <1>2 DEF R
<1> QED BY <1>3

LEMMA CountUp ==
    ASSUME NEW S, 0 \in S, \A n \in Nat : n \in S => n + 1 \in S
    PROVE  \A n \in Nat : n \in S
<1> SUFFICES ASSUME NEW k \in Nat, k \notin S PROVE FALSE
    OBVIOUS
<1> DEFINE T == {n \in Nat : n \notin S}
<1>1. PICK n \in T : \A m \in T : ~(m < n)
      BY LeastNumber, T \in SUBSET Nat, T # {}
<1>2. n # 0 /\ n - 1 \in Nat /\ n - 1 \notin T
      BY <1>1
<1> QED BY <1>1, <1>2

LEMMA CountTo ==
    ASSUME NEW n \in Nat, NEW S, 0 \in S, \A i \in 1 .. n : i - 1 \in S => i \in S
    PROVE  \A i \in 0 .. n : i \in S
<1> DEFINE T == {i \in Nat : i <= n => i \in S}
<1>1. 0 \in T
      OBVIOUS
<1>2. \A k \in Nat : k \in T => k + 1 \in T
      <2> TAKE k \in Nat
      <2> HAVE k \in T
      <2>1. CASE k + 1 <= n
            <3>1. k + 1 \in 1 .. n /\ (k + 1) - 1 = k /\ k \in S
                  BY <2>1
            <3>2. k + 1 \in S
                  BY <3>1
            <3> QED BY <3>2
      <2>2. CASE ~(k + 1 <= n)
            BY <2>2
      <2> QED BY <2>1, <2>2
<1> HIDE DEF T
<1>3. \A i \in Nat : i \in T
      BY <1>1, <1>2, CountUp
<1> QED BY <1>3 DEF T

-----------------------------------------------------------------------------
(* What is left of Once, and of the functions that take one thing after     *)
(* the other.                                                               *)

LEMMA TheOnly ==
    ASSUME NEW S, NEW v, S = {v}
    PROVE  (CHOOSE r \in S : TRUE) = v
OBVIOUS

LEMMA OnceTurn ==
    ASSUME NEW v
    PROVE  Once(v, Turn) = Turn(v)
<1>1. {Turn(x) : x \in {v}} = {Turn(v)}
      OBVIOUS
<1> QED BY <1>1, TheOnly DEF Once

LEMMA RunTurns ==
    ASSUME NEW h, Turns(h) \in Nat
    PROVE  \E f : /\ f[0] = h /\ Run(h) = f[Turns(h)]
                  /\ \A i \in 1 .. Turns(h) : f[i] = Turn(f[i - 1])
<1> DEFINE N == Turns(h)
           IsIt(g, m) == g = [i \in 0 .. m |-> IF i = 0 THEN h ELSE Once(g[i - 1], Turn)]
           T == {m \in Nat : \E g : IsIt(g, m)}
<1>1. 0 \in T
      <2>1. IsIt([i \in 0 .. 0 |-> h], 0)
            OBVIOUS
      <2> QED BY <2>1
<1>2. \A m \in Nat : m \in T => m + 1 \in T
      <2> TAKE m \in Nat
      <2> HAVE m \in T
      <2>1. PICK g : IsIt(g, m)
            OBVIOUS
      <2> DEFINE e == [i \in 0 .. m + 1 |-> IF i = m + 1 THEN Once(g[m], Turn) ELSE g[i]]
      <2>2. ASSUME NEW i \in 0 .. m + 1
            PROVE  e[i] = IF i = 0 THEN h ELSE Once(e[i - 1], Turn)
            <3>1. CASE i = m + 1
                  BY <3>1
            <3>2. CASE i # m + 1
                  <4>1. i \in 0 .. m
                        BY <3>2
                  <4>2. e[i] = g[i] /\ g[i] = IF i = 0 THEN h ELSE Once(g[i - 1], Turn)
                        BY <4>1, <3>2, <2>1
                  <4>3. i # 0 => e[i - 1] = g[i - 1]
                        BY <4>1
                  <4> QED BY <4>2, <4>3
            <3> QED BY <3>1, <3>2
      <2>3. e = [i \in 0 .. m + 1 |-> e[i]]
            OBVIOUS
      <2> HIDE DEF e
      <2>4. IsIt(e, m + 1)
            BY <2>2, <2>3
      <2> QED BY <2>4
<1> HIDE DEF T
<1>3. N \in T
      BY <1>1, <1>2, CountUp
<1> DEFINE f == CHOOSE g : IsIt(g, N)
<1>4. IsIt(f, N)
      <2>1. \E g : IsIt(g, N)
            BY <1>3 DEF T
      <2> HIDE DEF IsIt
      <2> QED BY <2>1, Zenon
<1>5. Run(h) = f[N]
      BY Zenon DEF Run
<1> HIDE DEF f
<1>6. f[0] = h /\ \A i \in 1 .. N : f[i] = Once(f[i - 1], Turn)
      BY <1>4
<1>7. \A i \in 1 .. N : f[i] = Turn(f[i - 1])
      BY <1>6, OnceTurn
<1> QED BY <1>5, <1>6, <1>7

LEMMA LinesTaken ==
    ASSUME NEW h, NEW lines, Len(lines) \in Nat
    PROVE  \E f : /\ f[0] = h /\ OnLines(h, lines) = f[Len(lines)]
                  /\ \A i \in 1 .. Len(lines) : f[i] = OnLine(f[i - 1], lines[i])
<1> DEFINE N == Len(lines)
           NextOf(v, i) == OnLine(v, lines[i])
           IsIt(g, m) == g = [i \in 0 .. m |-> IF i = 0 THEN h ELSE NextOf(g[i - 1], i)]
           T == {m \in Nat : \E g : IsIt(g, m)}
<1> HIDE DEF NextOf
<1>1. 0 \in T
      <2>1. IsIt([i \in 0 .. 0 |-> h], 0)
            OBVIOUS
      <2> QED BY <2>1
<1>2. \A m \in Nat : m \in T => m + 1 \in T
      <2> TAKE m \in Nat
      <2> HAVE m \in T
      <2>1. PICK g : IsIt(g, m)
            OBVIOUS
      <2> DEFINE e == [i \in 0 .. m + 1 |-> IF i = m + 1 THEN NextOf(g[m], m + 1) ELSE g[i]]
      <2>2. ASSUME NEW i \in 0 .. m + 1
            PROVE  e[i] = IF i = 0 THEN h ELSE NextOf(e[i - 1], i)
            <3>1. CASE i = m + 1
                  BY <3>1
            <3>2. CASE i # m + 1
                  <4>1. i \in 0 .. m
                        BY <3>2
                  <4>2. e[i] = g[i] /\ g[i] = IF i = 0 THEN h ELSE NextOf(g[i - 1], i)
                        BY <4>1, <3>2, <2>1
                  <4>3. i # 0 => e[i - 1] = g[i - 1]
                        BY <4>1
                  <4> QED BY <4>2, <4>3
            <3> QED BY <3>1, <3>2
      <2>3. e = [i \in 0 .. m + 1 |-> e[i]]
            OBVIOUS
      <2> HIDE DEF e
      <2>4. IsIt(e, m + 1)
            BY <2>2, <2>3
      <2> HIDE DEF IsIt
      <2> QED BY <2>4
<1> HIDE DEF T
<1>3. N \in T
      BY <1>1, <1>2, CountUp
<1> DEFINE f == CHOOSE g : IsIt(g, N)
<1>4. IsIt(f, N)
      <2>1. \E g : IsIt(g, N)
            BY <1>3 DEF T
      <2> HIDE DEF IsIt
      <2> QED BY <2>1, Zenon
<1>5. OnLines(h, lines) = f[N]
      BY Zenon DEF OnLines, NextOf
<1> HIDE DEF f
<1>6. f[0] = h /\ \A i \in 1 .. N : f[i] = NextOf(f[i - 1], i)
      BY <1>4
<1>7. \A i \in 1 .. N : f[i] = OnLine(f[i - 1], lines[i])
      <2> TAKE i \in 1 .. N
      <2>1. NextOf(f[i - 1], i) = OnLine(f[i - 1], lines[i])
            BY DEF NextOf
      <2> QED BY <1>6, <2>1
<1> QED BY <1>5, <1>6, <1>7

LEMMA OncePassed ==
    ASSUME NEW v, NEW o
    PROVE  Once(v, LAMBDA s : Passed(s, o)) = Passed(v, o)
<1>1. {Passed(x, o) : x \in {v}} = {Passed(v, o)}
      OBVIOUS
<1> QED BY <1>1, TheOnly DEF Once

LEMMA OutputsPassed ==
    ASSUME NEW t, Len(t.hal.out) \in Nat
    PROVE  \E f : /\ f[0] = [t EXCEPT !.hal.out = <<>>] /\ Flushed(t) = f[Len(t.hal.out)]
                  /\ \A i \in 1 .. Len(t.hal.out) : f[i] = Passed(f[i - 1], t.hal.out[i])
<1> DEFINE N == Len(t.hal.out)
           NextOf(v, i) == Once(v, LAMBDA s : Passed(s, t.hal.out[i]))
           IsIt(g, m) == g = [i \in 0 .. m |-> IF i = 0 THEN [t EXCEPT !.hal.out = <<>>] ELSE NextOf(g[i - 1], i)]
           T == {m \in Nat : \E g : IsIt(g, m)}
<1> HIDE DEF NextOf
<1>1. 0 \in T
      <2>1. IsIt([i \in 0 .. 0 |-> [t EXCEPT !.hal.out = <<>>]], 0)
            OBVIOUS
      <2> QED BY <2>1
<1>2. \A m \in Nat : m \in T => m + 1 \in T
      <2> TAKE m \in Nat
      <2> HAVE m \in T
      <2>1. PICK g : IsIt(g, m)
            OBVIOUS
      <2> DEFINE e == [i \in 0 .. m + 1 |-> IF i = m + 1 THEN NextOf(g[m], m + 1) ELSE g[i]]
      <2>2. ASSUME NEW i \in 0 .. m + 1
            PROVE  e[i] = IF i = 0 THEN [t EXCEPT !.hal.out = <<>>] ELSE NextOf(e[i - 1], i)
            <3>1. CASE i = m + 1
                  BY <3>1
            <3>2. CASE i # m + 1
                  <4>1. i \in 0 .. m
                        BY <3>2
                  <4>2. e[i] = g[i] /\ g[i] = IF i = 0 THEN [t EXCEPT !.hal.out = <<>>] ELSE NextOf(g[i - 1], i)
                        BY <4>1, <3>2, <2>1
                  <4>3. i # 0 => e[i - 1] = g[i - 1]
                        BY <4>1
                  <4> QED BY <4>2, <4>3
            <3> QED BY <3>1, <3>2
      <2>3. e = [i \in 0 .. m + 1 |-> e[i]]
            OBVIOUS
      <2> HIDE DEF e
      <2>4. IsIt(e, m + 1)
            BY <2>2, <2>3
      <2> HIDE DEF IsIt
      <2> QED BY <2>4
<1> HIDE DEF T
<1>3. N \in T
      BY <1>1, <1>2, CountUp
<1> DEFINE f == CHOOSE g : IsIt(g, N)
<1>4. IsIt(f, N)
      <2>1. \E g : IsIt(g, N)
            BY <1>3 DEF T
      <2> HIDE DEF IsIt
      <2> QED BY <2>1, Zenon
<1>5. Flushed(t) = f[N]
      BY Zenon DEF Flushed, NextOf
<1> HIDE DEF f
<1>6. f[0] = [t EXCEPT !.hal.out = <<>>] /\ \A i \in 1 .. N : f[i] = NextOf(f[i - 1], i)
      BY <1>4
<1>7. \A i \in 1 .. N : f[i] = Passed(f[i - 1], t.hal.out[i])
      <2> TAKE i \in 1 .. N
      <2>1. NextOf(f[i - 1], i) = Passed(f[i - 1], t.hal.out[i])
            BY OncePassed, Zenon DEF NextOf
      <2> QED BY <1>6, <2>1
<1> QED BY <1>5, <1>6, <1>7

LEMMA OnceHandle ==
    ASSUME NEW v, NEW o
    PROVE  Once(v, LAMBDA s : Handle(s, o)) = Handle(v, o)
<1>1. {Handle(x, o) : x \in {v}} = {Handle(v, o)}
      OBVIOUS
<1> QED BY <1>1, TheOnly DEF Once

LEMMA NoticesHandled ==
    ASSUME NEW t, Len(t.notices) \in Nat
    PROVE  \E f : /\ f[0] = [t EXCEPT !.notices = <<>>] /\ HandleAll(t) = f[Len(t.notices)]
                  /\ \A i \in 1 .. Len(t.notices) : f[i] = Handle(f[i - 1], t.notices[i])
<1> DEFINE N == Len(t.notices)
           NextOf(v, i) == Once(v, LAMBDA s : Handle(s, t.notices[i]))
           IsIt(g, m) == g = [i \in 0 .. m |-> IF i = 0 THEN [t EXCEPT !.notices = <<>>] ELSE NextOf(g[i - 1], i)]
           T == {m \in Nat : \E g : IsIt(g, m)}
<1> HIDE DEF NextOf
<1>1. 0 \in T
      <2>1. IsIt([i \in 0 .. 0 |-> [t EXCEPT !.notices = <<>>]], 0)
            OBVIOUS
      <2> QED BY <2>1
<1>2. \A m \in Nat : m \in T => m + 1 \in T
      <2> TAKE m \in Nat
      <2> HAVE m \in T
      <2>1. PICK g : IsIt(g, m)
            OBVIOUS
      <2> DEFINE e == [i \in 0 .. m + 1 |-> IF i = m + 1 THEN NextOf(g[m], m + 1) ELSE g[i]]
      <2>2. ASSUME NEW i \in 0 .. m + 1
            PROVE  e[i] = IF i = 0 THEN [t EXCEPT !.notices = <<>>] ELSE NextOf(e[i - 1], i)
            <3>1. CASE i = m + 1
                  BY <3>1
            <3>2. CASE i # m + 1
                  <4>1. i \in 0 .. m
                        BY <3>2
                  <4>2. e[i] = g[i] /\ g[i] = IF i = 0 THEN [t EXCEPT !.notices = <<>>] ELSE NextOf(g[i - 1], i)
                        BY <4>1, <3>2, <2>1
                  <4>3. i # 0 => e[i - 1] = g[i - 1]
                        BY <4>1
                  <4> QED BY <4>2, <4>3
            <3> QED BY <3>1, <3>2
      <2>3. e = [i \in 0 .. m + 1 |-> e[i]]
            OBVIOUS
      <2> HIDE DEF e
      <2>4. IsIt(e, m + 1)
            BY <2>2, <2>3
      <2> HIDE DEF IsIt
      <2> QED BY <2>4
<1> HIDE DEF T
<1>3. N \in T
      BY <1>1, <1>2, CountUp
<1> DEFINE f == CHOOSE g : IsIt(g, N)
<1>4. IsIt(f, N)
      <2>1. \E g : IsIt(g, N)
            BY <1>3 DEF T
      <2> HIDE DEF IsIt
      <2> QED BY <2>1, Zenon
<1>5. HandleAll(t) = f[N]
      BY Zenon DEF HandleAll, NextOf
<1> HIDE DEF f
<1>6. f[0] = [t EXCEPT !.notices = <<>>] /\ \A i \in 1 .. N : f[i] = NextOf(f[i - 1], i)
      BY <1>4
<1>7. \A i \in 1 .. N : f[i] = Handle(f[i - 1], t.notices[i])
      <2> TAKE i \in 1 .. N
      <2>1. NextOf(f[i - 1], i) = Handle(f[i - 1], t.notices[i])
            BY OnceHandle, Zenon DEF NextOf
      <2> QED BY <1>6, <2>1
<1> QED BY <1>5, <1>6, <1>7

-----------------------------------------------------------------------------
(* Requests that wait, and answers on their way up.                         *)

IsSeq(s) == \E S : s \in Seq(S)

\* A request of kind k waits in a queue; an answer to one is in a list, from its
\* n-th element on; and neither twice.
Waits(queue, k) == \E i \in DOMAIN queue : IsFor(queue[i], k)
WaitsOnce(queue, k) == \A i, j \in DOMAIN queue : IsFor(queue[i], k) /\ IsFor(queue[j], k) => i = j

Answers(o, k) == o.o = "Done" /\ o.id = k
Tells(list, n, k) == \E i \in n + 1 .. Len(list) : Answers(list[i], k)
TellsOnce(list, n, k) ==
    \A i, j \in n + 1 .. Len(list) : Answers(list[i], k) /\ Answers(list[j], k) => i = j

LEMMA IsSeqParts ==
    ASSUME NEW s, IsSeq(s)
    PROVE  /\ Len(s) \in Nat /\ DOMAIN s = 1 .. Len(s)
           /\ \A x : /\ IsSeq(Append(s, x)) /\ Len(Append(s, x)) = Len(s) + 1
                     /\ Append(s, x)[Len(s) + 1] = x
                     /\ \A i \in 1 .. Len(s) : Append(s, x)[i] = s[i]
           /\ \A r : IsSeq(r) => IsSeq(s \o r)
           /\ s # <<>> => IsSeq(Tail(s))
<1>1. PICK S : s \in Seq(S)
      BY DEF IsSeq
<1>2. ASSUME NEW x
      PROVE  /\ IsSeq(Append(s, x)) /\ Len(Append(s, x)) = Len(s) + 1
             /\ Append(s, x)[Len(s) + 1] = x
             /\ \A i \in 1 .. Len(s) : Append(s, x)[i] = s[i]
      <2>1. s \in Seq(S \cup {x}) /\ x \in S \cup {x}
            BY <1>1
      <2>2. Append(s, x) \in Seq(S \cup {x})
            BY <2>1
      <2> QED BY <2>1, <2>2 DEF IsSeq
<1>3. ASSUME NEW r, IsSeq(r)
      PROVE  IsSeq(s \o r)
      <2>1. PICK R : r \in Seq(R)
            BY <1>3 DEF IsSeq
      <2>2. s \in Seq(S \cup R) /\ r \in Seq(S \cup R)
            BY <1>1, <2>1
      <2>3. s \o r \in Seq(S \cup R)
            BY <2>2
      <2> QED BY <2>3 DEF IsSeq
<1>4. s # <<>> => IsSeq(Tail(s))
      <2>1. s # <<>> => Tail(s) \in Seq(S)
            BY <1>1
      <2> QED BY <2>1 DEF IsSeq
<1>5. Len(s) \in Nat /\ DOMAIN s = 1 .. Len(s)
      BY <1>1
<1> QED BY <1>2, <1>3, <1>4, <1>5

LEMMA ShortSeqs ==
    /\ IsSeq(<<>>) /\ Len(<<>>) = 0
    /\ \A x : IsSeq(<<x>>)
    /\ \A x, y : IsSeq(<<x, y>>)
    /\ \A x, y, z : IsSeq(<<x, y, z>>)
    /\ \A x, y, z, w : IsSeq(<<x, y, z, w>>)
<1>1. <<>> \in Seq({}) /\ Len(<<>>) = 0
      OBVIOUS
<1>2. ASSUME NEW x, NEW y, NEW z, NEW w
      PROVE  /\ <<x>> \in Seq({x}) /\ <<x, y>> \in Seq({x, y}) /\ <<x, y, z>> \in Seq({x, y, z})
             /\ <<x, y, z, w>> \in Seq({x, y, z, w})
      OBVIOUS
<1>3. ASSUME NEW x, NEW y, NEW z, NEW w
      PROVE  IsSeq(<<x>>) /\ IsSeq(<<x, y>>) /\ IsSeq(<<x, y, z>>) /\ IsSeq(<<x, y, z, w>>)
      BY <1>2, Zenon DEF IsSeq
<1>4. IsSeq(<<>>)
      BY <1>1, Zenon DEF IsSeq
<1> QED BY <1>1, <1>3, <1>4

\* One more answer, and one taken.
LEMMA TellsMore ==
    ASSUME NEW list, IsSeq(list), NEW n \in 0 .. Len(list), NEW x, NEW k
    PROVE  /\ Tells(Append(list, x), n, k) <=> Tells(list, n, k) \/ Answers(x, k)
           /\ TellsOnce(list, n, k) /\ ~(Tells(list, n, k) /\ Answers(x, k))
                => TellsOnce(Append(list, x), n, k)
<1> DEFINE L == Len(list)  more == Append(list, x)
<1>1. /\ L \in Nat /\ Len(more) = L + 1 /\ more[L + 1] = x
      /\ \A i \in 1 .. L : more[i] = list[i]
      BY IsSeqParts
<1> HIDE DEF L, more
<1>2. Tells(more, n, k) <=> Tells(list, n, k) \/ Answers(x, k)
      BY <1>1 DEF Tells, L
<1>3. ASSUME TellsOnce(list, n, k), ~(Tells(list, n, k) /\ Answers(x, k))
      PROVE  TellsOnce(more, n, k)
      BY <1>1, <1>3 DEF Tells, TellsOnce, L
<1> QED BY <1>2, <1>3 DEF more

LEMMA TellsLess ==
    ASSUME NEW list, IsSeq(list), NEW n \in 1 .. Len(list), NEW k
    PROVE  /\ Tells(list, n - 1, k) <=> Tells(list, n, k) \/ Answers(list[n], k)
           /\ TellsOnce(list, n - 1, k) =>
                TellsOnce(list, n, k) /\ ~(Tells(list, n, k) /\ Answers(list[n], k))
<1>1. Len(list) \in Nat
      BY IsSeqParts
<1>2. n .. Len(list) = {n} \cup (n + 1 .. Len(list)) /\ n - 1 + 1 = n /\ n \notin n + 1 .. Len(list)
      BY <1>1
<1> QED BY <1>2 DEF Tells, TellsOnce

LEMMA TellsNone ==
    ASSUME NEW list, Len(list) \in Nat, NEW k
    PROVE  ~Tells(list, Len(list), k) /\ TellsOnce(list, Len(list), k)
BY DEF Tells, TellsOnce

\* One more request, and the first one taken.
LEMMA WaitsMore ==
    ASSUME NEW S, NEW queue \in Seq(S), NEW c, NEW k
    PROVE  /\ Waits(Append(queue, c), k) <=> Waits(queue, k) \/ IsFor(c, k)
           /\ WaitsOnce(queue, k) /\ ~(Waits(queue, k) /\ IsFor(c, k)) => WaitsOnce(Append(queue, c), k)
<1> DEFINE L == Len(queue)  more == Append(queue, c)
<1>1. /\ L \in Nat /\ DOMAIN queue = 1 .. L /\ DOMAIN more = 1 .. L + 1 /\ more[L + 1] = c
      /\ \A i \in 1 .. L : more[i] = queue[i]
      <2>1. IsSeq(queue)
            BY DEF IsSeq
      <2> QED BY <2>1, IsSeqParts
<1> HIDE DEF L, more
<1>2. Waits(more, k) <=> Waits(queue, k) \/ IsFor(c, k)
      BY <1>1 DEF Waits
<1>3. ASSUME WaitsOnce(queue, k), ~(Waits(queue, k) /\ IsFor(c, k))
      PROVE  WaitsOnce(more, k)
      BY <1>1, <1>3 DEF Waits, WaitsOnce
<1> QED BY <1>2, <1>3 DEF more

LEMMA WaitsLess ==
    ASSUME NEW S, NEW queue \in Seq(S), queue # <<>>, NEW k
    PROVE  /\ Tail(queue) \in Seq(S) /\ Head(queue) \in S
           /\ Waits(queue, k) <=> Waits(Tail(queue), k) \/ IsFor(Head(queue), k)
           /\ WaitsOnce(queue, k) =>
                WaitsOnce(Tail(queue), k) /\ ~(Waits(Tail(queue), k) /\ IsFor(Head(queue), k))
<1> DEFINE L == Len(queue)  less == Tail(queue)  c == Head(queue)
<1>1. /\ L \in Nat /\ L >= 1 /\ DOMAIN queue = 1 .. L /\ DOMAIN less = 1 .. L - 1 /\ queue[1] = c
      /\ \A i \in 1 .. L - 1 : less[i] = queue[i + 1]
      /\ less \in Seq(S) /\ c \in S
      OBVIOUS
<1> HIDE DEF L, less, c
<1>2. Waits(queue, k) <=> Waits(less, k) \/ IsFor(c, k)
      <2>1. ASSUME NEW i \in 1 .. L, IsFor(queue[i], k)
            PROVE  Waits(less, k) \/ IsFor(c, k)
            <3>1. CASE i = 1
                  BY <1>1, <2>1, <3>1
            <3>2. CASE i # 1
                  <4>1. i - 1 \in 1 .. L - 1 /\ less[i - 1] = queue[i]
                        BY <1>1, <3>2
                  <4> QED BY <1>1, <2>1, <4>1 DEF Waits
            <3> QED BY <3>1, <3>2
      <2>2. Waits(less, k) => Waits(queue, k)
            <3>1. \A i \in 1 .. L - 1 : i + 1 \in 1 .. L
                  BY <1>1
            <3> QED BY <1>1, <3>1 DEF Waits
      <2>3. IsFor(c, k) => Waits(queue, k)
            <3>1. 1 \in 1 .. L
                  BY <1>1
            <3> QED BY <1>1, <3>1 DEF Waits
      <2> QED BY <1>1, <2>1, <2>2, <2>3 DEF Waits
<1>3. ASSUME WaitsOnce(queue, k)
      PROVE  WaitsOnce(less, k) /\ ~(Waits(less, k) /\ IsFor(c, k))
      <2>1. \A i \in 1 .. L - 1 : i + 1 \in 1 .. L /\ i + 1 # 1
            BY <1>1
      <2>2. 1 \in 1 .. L
            BY <1>1
      <2>3. \A i, j \in 1 .. L - 1 : i + 1 = j + 1 => i = j
            BY <1>1
      <2> QED BY <1>1, <1>3, <2>1, <2>2, <2>3 DEF Waits, WaitsOnce
<1> QED BY <1>1, <1>2, <1>3 DEF less, c

-----------------------------------------------------------------------------
(* The HAL. *)

Asked == {ListCalls, Act("Answer"), Act("HangUp")} \cup {DialOf(number) : number \in Dialled}
OwnCommands == {Set(s) : s \in Settings} \cup {Query(s) : s \in Settings}

HalFields == {"phase", "step", "issues", "retry", "rerun", "pdu", "queue", "flight", "out",
              "engine", "nonce", "payloadSent", "absorbed", "said"}

HalOk(h) ==
    /\ DOMAIN h = HalFields
    /\ h.queue \in Seq(Asked)
    /\ h.flight \in Asked \cup OwnCommands \cup {Idle}
    /\ IsSeq(h.out) /\ IsSeq(h.said)
    /\ h.step \in Nat /\ (h.phase = "Configuring" => h.step # 0)

\* The HAL has a request of kind k, or its answer; in one place only.
Holds(h, k) == Waits(h.queue, k) \/ IsFor(h.flight, k) \/ Tells(h.out, 0, k)
HoldsOne(h, k) ==
    /\ WaitsOnce(h.queue, k) /\ TellsOnce(h.out, 0, k)
    /\ ~(Waits(h.queue, k) /\ IsFor(h.flight, k))
    /\ ~(Waits(h.queue, k) /\ Tells(h.out, 0, k))
    /\ ~(IsFor(h.flight, k) /\ Tells(h.out, 0, k))

\* From h to g no request was added, and none lost without an answer.
Keeps(h, g) == HalOk(g) /\ \A k \in Kinds : /\ Holds(g, k) <=> Holds(h, k)
                                            /\ HoldsOne(h, k) => HoldsOne(g, k)
Unmoved(h, g) == HalOk(g) /\ g.queue = h.queue /\ g.flight = h.flight /\ g.out = h.out

LEMMA UnmovedKeeps ==
    ASSUME NEW h, NEW g, Unmoved(h, g)
    PROVE  Keeps(h, g)
BY DEF Unmoved, Keeps, Holds, HoldsOne

LEMMA KeepsOn ==
    ASSUME NEW h, NEW g, NEW e, Keeps(h, g), Keeps(g, e)
    PROVE  Keeps(h, e)
BY DEF Keeps

\* Only the call service's requests have a number, and none of them a text.
LEMMA KindOfCommand ==
    /\ \A c \in Asked : IsUser(c) /\ ~HasPayload(c) /\ \A k : IsFor(c, k) <=> c.id = k
    /\ \A c \in OwnCommands \cup {Idle} : ~IsUser(c) /\ \A k : ~IsFor(c, k)
<1>1. ASSUME NEW c \in Asked
      PROVE  IsUser(c) /\ ~HasPayload(c)
      <2>1. CASE c \in {ListCalls, Act("Answer"), Act("HangUp")}
            BY <2>1 DEF ListCalls, Act, IsUser, HasPayload
      <2>2. CASE \E number \in Dialled : c = DialOf(number)
            BY <2>2 DEF DialOf, IsUser, HasPayload
      <2> QED BY <1>1, <2>1, <2>2 DEF Asked
<1>2. ASSUME NEW c \in OwnCommands \cup {Idle}
      PROVE  ~IsUser(c)
      BY DEF OwnCommands, Set, Query, Idle, IsUser
<1> QED BY <1>1, <1>2 DEF IsFor

LEMMA SaysUnmoved ==
    ASSUME NEW h, HalOk(h), NEW outputs, IsSeq(outputs)
    PROVE  Unmoved(h, Says(h, outputs))
<1>1. IsSeq(h.said \o outputs)
      BY IsSeqParts DEF HalOk
<1> QED BY <1>1 DEF HalOk, HalFields, Unmoved, Says

LEMMA StartProbeUnmoved ==
    ASSUME NEW h, HalOk(h)
    PROVE  Unmoved(h, StartProbe(h))
<1> DEFINE n == (h.nonce % PROBE_NONCES) + 1
           g == [h EXCEPT !.engine = "Syncing", !.nonce = n]
<1>1. Unmoved(h, g)
      BY DEF HalOk, HalFields, Unmoved
<1>2. IsSeq(<<Put(Probe(n))>>)
      BY ShortSeqs
<1> HIDE DEF g, n
<1>3. Unmoved(g, Says(g, <<Put(Probe(n))>>))
      BY <1>1, <1>2, SaysUnmoved DEF Unmoved
<1> QED BY <1>1, <1>3 DEF Unmoved, StartProbe, g, n

LEMMA UnsyncUnmoved ==
    ASSUME NEW h, HalOk(h), NEW reason
    PROVE  Unmoved(h, Unsync(h, reason))
<1> DEFINE cancel == IF HasPayload(h.flight) /\ ~h.payloadSent THEN <<Put(Esc)>> ELSE <<>>
           settle == IF h.flight = Idle THEN <<>> ELSE cancel \o <<Replied("Unknown", None)>>
           g == Says(h, settle \o <<Unsynced(reason)>>)
<1>1. IsSeq(cancel) /\ IsSeq(<<Replied("Unknown", None)>>) /\ IsSeq(<<Unsynced(reason)>>) /\ IsSeq(<<>>)
      BY ShortSeqs
<1> HIDE DEF cancel
<1>2. IsSeq(settle)
      BY <1>1, IsSeqParts
<1> HIDE DEF settle
<1>3. IsSeq(settle \o <<Unsynced(reason)>>)
      BY <1>1, <1>2, IsSeqParts
<1>4. Unmoved(h, g)
      BY <1>3, SaysUnmoved
<1> HIDE DEF g
<1>5. Unmoved(g, StartProbe(g))
      BY <1>4, StartProbeUnmoved DEF Unmoved
<1>6. Unmoved(h, StartProbe(g))
      BY <1>4, <1>5 DEF Unmoved
<1>7. Unsync(h, reason) = IF h.engine = "Off" /\ reason # "Reset" THEN h ELSE StartProbe(g)
      BY DEF Unsync, g, settle, cancel
<1> QED BY <1>6, <1>7 DEF Unmoved

\* What the engine makes of a chunk, or of a deadline that passes.
LEMMA OnFinalUnmoved ==
    ASSUME NEW h, HalOk(h), NEW ok, NEW info
    PROVE  Unmoved(h, OnFinal(h, ok, info))
<1>1. \A o : Unmoved(h, Says(h, <<o>>))
      BY SaysUnmoved, ShortSeqs
<1>2. Unmoved(h, Unsync(h, "StrayFinal")) /\ Unmoved(h, h)
      BY UnsyncUnmoved DEF Unmoved
<1> HIDE DEF Unmoved
<1> QED BY <1>1, <1>2 DEF OnFinal

LEMMA OnReadBackUnmoved ==
    ASSUME NEW h, HalOk(h), NEW n
    PROVE  Unmoved(h, OnReadBack(h, n))
<1> DEFINE g == [h EXCEPT !.engine = "Ready"]
<1>1. Unmoved(h, g)
      BY DEF HalOk, HalFields, Unmoved
<1> HIDE DEF g
<1>2. Unmoved(g, Says(g, <<Synced>>))
      BY <1>1, SaysUnmoved, ShortSeqs DEF Unmoved
<1>3. Unmoved(h, Says(g, <<Synced>>)) /\ Unmoved(h, h)
      BY <1>1, <1>2 DEF Unmoved
<1>4. Unmoved(h, OnFinal(h, TRUE, None))
      BY OnFinalUnmoved
<1> QED BY <1>3, <1>4 DEF OnReadBack, g

LEMMA OnPromptUnmoved ==
    ASSUME NEW h, HalOk(h)
    PROVE  Unmoved(h, OnPrompt(h))
<1> DEFINE g == [h EXCEPT !.payloadSent = TRUE]
<1>1. Unmoved(h, g)
      BY DEF HalOk, HalFields, Unmoved
<1> HIDE DEF g
<1>2. Unmoved(g, Says(g, <<Put(PayloadOf(h.flight))>>))
      BY <1>1, SaysUnmoved, ShortSeqs DEF Unmoved
<1>3. Unmoved(h, Says(g, <<Put(PayloadOf(h.flight))>>))
      BY <1>1, <1>2 DEF Unmoved
<1>4. Unmoved(h, Says(h, <<Put(Esc), UnexpectedPrompt>>))
      BY SaysUnmoved, ShortSeqs
<1> QED BY <1>3, <1>4 DEF OnPrompt, g

LEMMA OnLostUnmoved ==
    ASSUME NEW h, HalOk(h)
    PROVE  Unmoved(h, OnLost(h))
<1> DEFINE g == Says(h, <<BytesLost>>)
<1>1. Unmoved(h, g)
      BY SaysUnmoved, ShortSeqs
<1> HIDE DEF g
<1>2. Unmoved(g, Unsync(g, "BytesLost")) /\ Unmoved(g, StartProbe(g))
      BY <1>1, UnsyncUnmoved, StartProbeUnmoved DEF Unmoved
<1>3. Unmoved(h, Unsync(g, "BytesLost")) /\ Unmoved(h, StartProbe(g))
      BY <1>1, <1>2 DEF Unmoved
<1> QED BY <1>1, <1>3 DEF OnLost, g

LEMMA TimedOutUnmoved ==
    ASSUME NEW h, HalOk(h)
    PROVE  Unmoved(h, TimedOut(h))
<1>1. Unmoved(h, Unsync(h, "Timeout")) /\ Unmoved(h, StartProbe(h)) /\ Unmoved(h, h)
      BY UnsyncUnmoved, StartProbeUnmoved DEF Unmoved
<1> QED BY <1>1 DEF TimedOut

LEMMA OnLineUnmoved ==
    ASSUME NEW h, HalOk(h), NEW line
    PROVE  Unmoved(h, OnLine(h, line))
<1>1. Unmoved(h, [h EXCEPT !.absorbed = line.call])
      BY DEF HalOk, HalFields, Unmoved
<1>2. Unmoved(h, Says(h, <<Heard(line)>>))
      BY SaysUnmoved, ShortSeqs
<1> QED BY <1>1, <1>2 DEF OnLine

LEMMA OnLinesUnmoved ==
    ASSUME NEW h, HalOk(h), NEW lines, IsSeq(lines)
    PROVE  Unmoved(h, OnLines(h, lines))
<1> DEFINE N == Len(lines)
<1>1. N \in Nat
      BY IsSeqParts
<1>2. PICK f : /\ f[0] = h /\ OnLines(h, lines) = f[N]
               /\ \A i \in 1 .. N : f[i] = OnLine(f[i - 1], lines[i])
      BY <1>1, LinesTaken
<1> DEFINE T == {i \in 0 .. N : Unmoved(h, f[i])}
<1> HIDE DEF N
<1>3. 0 \in T
      BY <1>1, <1>2 DEF Unmoved
<1>4. ASSUME NEW i \in 1 .. N, i - 1 \in T
      PROVE  i \in T
      <2>1. Unmoved(h, f[i - 1])
            BY <1>4
      <2>2. Unmoved(f[i - 1], OnLine(f[i - 1], lines[i]))
            BY <2>1, OnLineUnmoved DEF Unmoved
      <2>3. Unmoved(h, f[i])
            BY <1>2, <2>1, <2>2 DEF Unmoved
      <2> QED BY <1>1, <2>3
<1> HIDE DEF T
<1>5. N \in T
      BY <1>1, <1>3, <1>4, CountTo
<1> QED BY <1>2, <1>5 DEF T

\* What goes up or to the modem is no answer, but for Done.
LEMMA OutKeeps ==
    ASSUME NEW h, HalOk(h), NEW o, o.o # "Done"
    PROVE  Keeps(h, Out(h, o)) /\ Out(h, o).phase = h.phase
<1> DEFINE g == Out(h, o)
<1>1. g.queue = h.queue /\ g.flight = h.flight /\ g.out = Append(h.out, o) /\ HalOk(g) /\ g.phase = h.phase
      <2>1. IsSeq(Append(h.out, o))
            BY IsSeqParts DEF HalOk
      <2> QED BY <2>1 DEF HalOk, HalFields, Out
<1> HIDE DEF g
<1>2. IsSeq(h.out) /\ Len(h.out) \in Nat /\ 0 \in 0 .. Len(h.out)
      <2>1. IsSeq(h.out)
            BY DEF HalOk
      <2>2. Len(h.out) \in Nat
            BY <2>1, IsSeqParts
      <2> QED BY <2>1, <2>2
<1>3. ASSUME NEW k
      PROVE  /\ Tells(g.out, 0, k) <=> Tells(h.out, 0, k)
             /\ TellsOnce(h.out, 0, k) => TellsOnce(g.out, 0, k)
      <2>1. ~Answers(o, k)
            BY DEF Answers
      <2> QED BY <1>1, <1>2, <2>1, TellsMore
<1>4. Keeps(h, g)
      BY <1>1, <1>3, Zenon DEF Keeps, Holds, HoldsOne
<1> QED BY <1>1, <1>4 DEF g

LEMMA EventKeeps ==
    ASSUME NEW h, HalOk(h), NEW e
    PROVE  Keeps(h, Out(h, Event(e))) /\ Out(h, Event(e)).phase = h.phase
BY OutKeeps DEF Event

LEMMA RestartUnmoved ==
    ASSUME NEW h, HalOk(h)
    PROVE  Unmoved(h, Restart(h)) /\ Unmoved(h, OnMilestone(h))
<1>1. Unmoved(h, Restart(h))
      BY DEF HalOk, HalFields, Unmoved, Restart
<1>2. Unmoved(h, [h EXCEPT !.rerun = TRUE]) /\ Unmoved(h, h)
      BY DEF HalOk, HalFields, Unmoved
<1> QED BY <1>1, <1>2 DEF OnMilestone

LEMMA SyncingUnmoved ==
    ASSUME NEW h, HalOk(h)
    PROVE  Unmoved(h, [h EXCEPT !.phase = "Syncing"])
BY DEF HalOk, HalFields, Unmoved

LEMMA OnUrcKeeps ==
    ASSUME NEW h, HalOk(h), NEW line
    PROVE  Keeps(h, OnUrc(h, line))
<1>1. CASE line.k = "ATREADY"
      <2> DEFINE g == Out(h, Event(Line("Restarted")))
                 e == [g EXCEPT !.phase = "Syncing"]
      <2>1. Keeps(h, g)
            BY EventKeeps
      <2> HIDE DEF g
      <2>2. Unmoved(g, e)
            BY <2>1, SyncingUnmoved DEF Keeps
      <2> HIDE DEF e
      <2>3. Unmoved(e, Unsync(e, "Reset"))
            BY <2>2, UnsyncUnmoved DEF Unmoved
      <2>4. Keeps(h, Unsync(e, "Reset"))
            BY <2>1, <2>2, <2>3, UnmovedKeeps, KeepsOn
      <2>5. OnUrc(h, line) = Unsync(e, "Reset")
            BY <1>1 DEF OnUrc, Milestones, g, e
      <2> QED BY <2>4, <2>5
<1>2. CASE line.k # "ATREADY" /\ line.k \in Milestones
      <2> DEFINE g == Out(h, Event(line))
      <2>1. Keeps(h, g)
            BY EventKeeps
      <2> HIDE DEF g
      <2>2. Unmoved(g, OnMilestone(g))
            BY <2>1, RestartUnmoved DEF Keeps
      <2>3. Keeps(h, OnMilestone(g))
            BY <2>1, <2>2, UnmovedKeeps, KeepsOn
      <2> QED BY <1>2, <2>3 DEF OnUrc, g
<1>3. CASE line.k # "ATREADY" /\ line.k \notin Milestones
      BY <1>3, EventKeeps DEF OnUrc
<1> QED BY <1>1, <1>2, <1>3

\* A configuration step is answered.
LEMMA ConfigReplyKeeps ==
    ASSUME NEW h, HalOk(h), ~IsUser(h.flight), NEW r
    PROVE  Keeps(h, ConfigReply(h, r))
<1> DEFINE g == ConfigReply(h, r)
<1>1. /\ HalOk(g) /\ g.queue = h.queue /\ g.flight = Idle /\ g.out = h.out
      BY DEF ConfigReply, HalOk, HalFields
<1> HIDE DEF g
<1>2. \A k \in Kinds : ~IsFor(Idle, k) /\ ~IsFor(h.flight, k)
      BY KindOfCommand DEF IsFor
<1>3. Keeps(h, g)
      BY <1>1, <1>2 DEF Keeps, Holds, HoldsOne
<1> QED BY <1>3 DEF g

\* A request is answered: it leaves the flight, its answer is on the way up.
LEMMA OnReplyKeeps ==
    ASSUME NEW h, HalOk(h), NEW r
    PROVE  Keeps(h, OnReply(h, r))
<1>1. CASE ~IsUser(h.flight)
      BY <1>1, ConfigReplyKeeps DEF OnReply
<1>2. CASE IsUser(h.flight)
      <2> DEFINE o == Done(h.flight.id, r.outcome, r.info)
                 g == Out([h EXCEPT !.flight = Idle], o)
      <2>1. h.flight \in Asked
            BY <1>2, KindOfCommand DEF HalOk
      <2>2. IsSeq(h.out) /\ IsSeq(Append(h.out, o)) /\ Len(h.out) \in Nat
            BY IsSeqParts DEF HalOk
      <2>3. HalOk(g) /\ g.queue = h.queue /\ g.flight = Idle /\ g.out = Append(h.out, o)
            BY <2>2 DEF HalOk, HalFields, Out
      <2>4. \A k \in Kinds : Answers(o, k) <=> IsFor(h.flight, k)
            BY <2>1, KindOfCommand DEF Answers, Done
      <2> HIDE DEF g, o
      <2>5. ASSUME NEW k \in Kinds
            PROVE  /\ Tells(g.out, 0, k) <=> Tells(h.out, 0, k) \/ IsFor(h.flight, k)
                   /\ TellsOnce(h.out, 0, k) /\ ~(Tells(h.out, 0, k) /\ IsFor(h.flight, k))
                        => TellsOnce(g.out, 0, k)
            <3>1. 0 \in 0 .. Len(h.out)
                  BY <2>2
            <3> QED BY <2>2, <2>3, <2>4, <3>1, TellsMore
      <2>6. \A k \in Kinds : ~IsFor(Idle, k)
            BY KindOfCommand
      <2>7. Keeps(h, g)
            BY <2>3, <2>5, <2>6, Zenon DEF Keeps, Holds, HoldsOne
      <2> QED BY <1>2, <2>7 DEF OnReply, g, o
<1> QED BY <1>1, <1>2

LEMMA OnEngineKeeps ==
    ASSUME NEW h, HalOk(h), NEW o
    PROVE  Keeps(h, OnEngine(h, o))
<1>1. CASE o.o = "Write"
      BY <1>1, OutKeeps DEF OnEngine
<1>2. CASE o.o = "Reply"
      BY <1>2, OnReplyKeeps DEF OnEngine
<1>3. CASE o.o = "Urc"
      BY <1>3, OnUrcKeeps DEF OnEngine
<1>4. Unmoved(h, h) /\ Keeps(h, h)
      BY UnmovedKeeps DEF Unmoved
<1>5. CASE o.o = "Synced"
      BY <1>4, <1>5, RestartUnmoved, UnmovedKeeps DEF OnEngine
<1>6. CASE o.o = "Unsynced"
      <2> DEFINE g == [h EXCEPT !.phase = "Syncing"]
                 e == Out(g, Event(Line("LinkLost")))
      <2>1. Unmoved(h, g)
            BY SyncingUnmoved
      <2> HIDE DEF g
      <2>2. Keeps(g, e)
            BY <2>1, EventKeeps DEF Unmoved
      <2>3. Keeps(h, e)
            BY <2>1, <2>2, UnmovedKeeps, KeepsOn
      <2>4. OnEngine(h, o) = h \/ OnEngine(h, o) = e
            BY <1>6 DEF OnEngine, e, g
      <2> QED BY <1>4, <2>3, <2>4
<1>7. CASE o.o \notin {"Write", "Reply", "Urc", "Synced", "Unsynced"}
      <2>1. OnEngine(h, o) = Out(h, Event(Line(o.o)))
            BY <1>7 DEF OnEngine
      <2> QED BY <2>1, EventKeeps
<1> QED BY <1>1, <1>2, <1>3, <1>5, <1>6, <1>7

\* A command goes to the engine, where there is none.
LEMMA Submit1Flies ==
    ASSUME NEW h, HalOk(h), NEW c \in Asked \cup OwnCommands
    PROVE  LET g == Submit1(h, c) IN HalOk(g) /\ g.queue = h.queue /\ g.flight = c /\ g.out = h.out
<1> DEFINE e == [h EXCEPT !.flight = c, !.payloadSent = FALSE, !.absorbed = None]
           w == IF h.engine = "Off" THEN <<Replied("NotSent", None)>> ELSE <<Put(c)>>
<1>1. HalOk(e) /\ e.queue = h.queue /\ e.flight = c /\ e.out = h.out
      BY DEF HalOk, HalFields
<1>2. IsSeq(w)
      BY ShortSeqs
<1> HIDE DEF e, w
<1>3. Unmoved(e, Says(e, w))
      BY <1>1, <1>2, SaysUnmoved
<1> QED BY <1>1, <1>3 DEF Unmoved, Submit1, e, w

LEMMA StepsAreOwn ==
    ASSUME NEW n \in 1 .. Len(config_steps)
    PROVE  config_steps[n] \in OwnCommands
<1>1. \A s \in Settings : StepsOf(s) \in Seq(OwnCommands)
      <2> TAKE s \in Settings
      <2>1. Set(s) \in OwnCommands /\ Query(s) \in OwnCommands
            BY DEF OwnCommands
      <2>2. <<Set(s), Query(s)>> \in Seq(OwnCommands) /\ <<>> \in Seq(OwnCommands)
            BY <2>1
      <2> QED BY <2>2 DEF StepsOf
<1>2. StepsOf("cvhu") \in Seq(OwnCommands) /\ StepsOf("clip") \in Seq(OwnCommands)
      /\ StepsOf("cmgf") \in Seq(OwnCommands)
      BY <1>1 DEF Settings, NoSave
<1>3. config_steps \in Seq(OwnCommands)
      BY <1>2 DEF config_steps
<1> QED BY <1>3

LEMMA PumpKeeps ==
    ASSUME NEW h, HalOk(h), CanPump(h)
    PROVE  Keeps(h, Pump(h))
<1>1. \A k \in Kinds : ~IsFor(h.flight, k)
      BY KindOfCommand DEF CanPump
<1>2. CASE h.phase = "Configuring" /\ h.step > Len(config_steps)
      <2> DEFINE ended == [h EXCEPT !.retry = h.issues, !.rerun = FALSE]
                 ready == [ended EXCEPT !.phase = "Ready"]
                 up == Out(ready, Event(Line("Configured")))
      <2>1. Unmoved(h, ended)
            BY DEF HalOk, HalFields, Unmoved
      <2> HIDE DEF ended
      <2>2. Unmoved(ended, Restart(ended))
            BY <2>1, RestartUnmoved DEF Unmoved
      <2>3. Unmoved(ended, ready)
            BY <2>1 DEF HalOk, HalFields, Unmoved
      <2> HIDE DEF ready
      <2>4. Keeps(ready, up)
            BY <2>3, EventKeeps DEF Unmoved
      <2>5. Keeps(h, up) /\ Keeps(h, Restart(ended))
            BY <2>1, <2>2, <2>3, <2>4, UnmovedKeeps, KeepsOn
      <2>6. Pump(h) \in {up, Restart(ended)}
            BY <1>2 DEF Pump, Configure, EndPass, ended, ready, up
      <2> QED BY <2>5, <2>6
<1>3. CASE h.phase = "Configuring" /\ ~(h.step > Len(config_steps))
      <2> DEFINE e == [h EXCEPT !.pdu = h.step # 1 /\ h.pdu]
                 c == config_steps[h.step]
                 g == Submit1(e, c)
      <2>1. Unmoved(h, e)
            BY DEF HalOk, HalFields, Unmoved
      <2>2. c \in OwnCommands
            <3>1. Len(config_steps) \in Nat
                  BY DEF config_steps, StepsOf
            <3>2. h.step \in 1 .. Len(config_steps)
                  BY <1>3, <3>1 DEF HalOk
            <3> QED BY <3>2, StepsAreOwn
      <2> HIDE DEF e, c
      <2>3. HalOk(g) /\ g.queue = e.queue /\ g.flight = c /\ g.out = e.out
            BY <2>1, <2>2, Submit1Flies DEF Unmoved
      <2> HIDE DEF g
      <2>4. \A k \in Kinds : ~IsFor(c, k)
            BY <2>2, KindOfCommand
      <2>5. Keeps(h, g)
            BY <1>1, <2>1, <2>3, <2>4 DEF Keeps, Holds, HoldsOne, Unmoved
      <2> QED BY <1>3, <2>5 DEF Pump, Configure, g, e, c
<1>4. CASE h.phase # "Configuring"
      <2> DEFINE c == Head(h.queue)
                 e == [h EXCEPT !.queue = Tail(@)]
                 g == Submit1(e, c)
      <2>1. h.queue # <<>> /\ h.queue \in Seq(Asked)
            BY <1>4 DEF CanPump, HalOk
      <2>2. c \in Asked /\ Tail(h.queue) \in Seq(Asked)
            BY <2>1
      <2>3. HalOk(e) /\ e.queue = Tail(h.queue) /\ e.flight = h.flight /\ e.out = h.out
            BY <2>2 DEF HalOk, HalFields
      <2>4. ~HasPayload(c)
            BY <2>2, KindOfCommand
      <2> HIDE DEF e, c
      <2>5. HalOk(g) /\ g.queue = e.queue /\ g.flight = c /\ g.out = e.out
            BY <2>2, <2>3, Submit1Flies
      <2> HIDE DEF g
      <2>6. \A k : /\ Waits(h.queue, k) <=> Waits(Tail(h.queue), k) \/ IsFor(c, k)
                   /\ WaitsOnce(h.queue, k) =>
                        WaitsOnce(Tail(h.queue), k) /\ ~(Waits(Tail(h.queue), k) /\ IsFor(c, k))
            BY <2>1, WaitsLess DEF c
      <2>7. ASSUME NEW k \in Kinds
            PROVE  (Holds(g, k) <=> Holds(h, k)) /\ (HoldsOne(h, k) => HoldsOne(g, k))
            BY <1>1, <2>3, <2>5, <2>6, Zenon DEF Holds, HoldsOne
      <2>8. Keeps(h, g)
            BY <2>5, <2>7 DEF Keeps
      <2> QED BY <1>4, <2>4, <2>8 DEF Pump, Serve, g, e, c
<1> QED BY <1>2, <1>3, <1>4

LEMMA TurnKeeps ==
    ASSUME NEW h, HalOk(h)
    PROVE  Keeps(h, Turn(h))
<1>1. CASE h.said # <<>>
      <2> DEFINE g == [h EXCEPT !.said = Tail(@)]
      <2>1. IsSeq(Tail(h.said))
            BY <1>1, IsSeqParts DEF HalOk
      <2>2. Unmoved(h, g)
            BY <2>1 DEF HalOk, HalFields, Unmoved
      <2> HIDE DEF g
      <2>3. Keeps(g, OnEngine(g, Head(h.said)))
            BY <2>2, OnEngineKeeps DEF Unmoved
      <2>4. Keeps(h, OnEngine(g, Head(h.said)))
            BY <2>2, <2>3, UnmovedKeeps, KeepsOn
      <2> QED BY <1>1, <2>4 DEF Turn, g
<1>2. CASE ~(h.said # <<>>)
      <2>1. Keeps(h, h)
            BY UnmovedKeeps DEF Unmoved
      <2> QED BY <1>2, <2>1, PumpKeeps DEF Turn
<1> QED BY <1>1, <1>2

\* However many turns a call takes, it keeps what the HAL has to answer.
LEMMA RunKeeps ==
    ASSUME NEW h, HalOk(h)
    PROVE  Keeps(h, Run(h))
<1> DEFINE N == Turns(h)
<1>1. N \in Nat
      <2>1. Len(h.said) \in Nat /\ Len(h.queue) \in Nat
            BY IsSeqParts DEF HalOk
      <2>2. \A a, b \in Nat : 5 * a + b + 6 \in Nat
            OBVIOUS
      <2>3. 5 * Len(h.said) + Len(h.queue) + 6 \in Nat
            BY <2>1, <2>2
      <2> QED BY <2>3, Zenon DEF Turns
<1>2. PICK f : /\ f[0] = h /\ Run(h) = f[N]
               /\ \A i \in 1 .. N : f[i] = Turn(f[i - 1])
      BY <1>1, RunTurns
<1> DEFINE T == {i \in 0 .. N : Keeps(h, f[i])}
<1> HIDE DEF N
<1>3. 0 \in T
      BY <1>1, <1>2, UnmovedKeeps DEF Unmoved
<1>4. ASSUME NEW i \in 1 .. N, i - 1 \in T
      PROVE  i \in T
      <2>1. Keeps(h, f[i - 1])
            BY <1>4
      <2>2. Keeps(f[i - 1], Turn(f[i - 1]))
            BY <2>1, TurnKeeps DEF Keeps
      <2>3. Keeps(h, f[i])
            BY <1>2, <2>1, <2>2, KeepsOn
      <2> QED BY <1>1, <2>3
<1> HIDE DEF T
<1>5. N \in T
      BY <1>1, <1>3, <1>4, CountTo
<1> QED BY <1>2, <1>5 DEF T

-----------------------------------------------------------------------------
(* Calls into the HAL. *)

LEMMA OnceRun ==
    ASSUME NEW v
    PROVE  Once(v, Run) = Run(v)
<1>1. {Run(x) : x \in {v}} = {Run(v)}
      OBVIOUS
<1> QED BY <1>1, TheOnly DEF Once

\* A request whose kind the HAL does not have may be submitted.
LEMMA SubmitHolds ==
    ASSUME NEW h, HalOk(h), NEW c \in Asked
    PROVE  LET g == HalSubmit(h, c)
           IN  HalOk(g) /\ \A k \in Kinds :
                    /\ Holds(g, k) <=> Holds(h, k) \/ IsFor(c, k)
                    /\ HoldsOne(h, k) /\ (IsFor(c, k) => ~Holds(h, k)) => HoldsOne(g, k)
<1> DEFINE o == Done(c.id, "NotSent", None)
           e == [h EXCEPT !.queue = Append(@, c)]
           up == Out(h, o)
<1>0. IsSeq(h.out) /\ Len(h.out) \in Nat /\ 0 \in 0 .. Len(h.out) /\ IsSeq(Append(h.out, o))
      <2>1. IsSeq(h.out)
            BY DEF HalOk
      <2>2. Len(h.out) \in Nat /\ IsSeq(Append(h.out, o))
            BY <2>1, IsSeqParts
      <2> QED BY <2>1, <2>2
<1>1. CASE h.phase = "Off"
      <2>1. HalOk(up) /\ up.queue = h.queue /\ up.flight = h.flight /\ up.out = Append(h.out, o)
            BY <1>0 DEF HalOk, HalFields, Out
      <2>2. \A k \in Kinds : Answers(o, k) <=> IsFor(c, k)
            BY KindOfCommand DEF Answers, Done
      <2> HIDE DEF up, o
      <2>3. ASSUME NEW k \in Kinds
            PROVE  /\ Tells(up.out, 0, k) <=> Tells(h.out, 0, k) \/ IsFor(c, k)
                   /\ TellsOnce(h.out, 0, k) /\ ~(Tells(h.out, 0, k) /\ IsFor(c, k))
                        => TellsOnce(up.out, 0, k)
            BY <1>0, <2>1, <2>2, TellsMore
      <2>4. ASSUME NEW k \in Kinds
            PROVE  /\ Holds(up, k) <=> Holds(h, k) \/ IsFor(c, k)
                   /\ HoldsOne(h, k) /\ (IsFor(c, k) => ~Holds(h, k)) => HoldsOne(up, k)
            BY <2>1, <2>3, Zenon DEF Holds, HoldsOne
      <2>5. HalSubmit(h, c) = up
            BY <1>1 DEF HalSubmit, up, o
      <2> QED BY <2>1, <2>4, <2>5
<1>2. CASE h.phase # "Off"
      <2>1. h.queue \in Seq(Asked) /\ Append(h.queue, c) \in Seq(Asked)
            BY DEF HalOk
      <2>2. HalOk(e) /\ e.queue = Append(h.queue, c) /\ e.flight = h.flight /\ e.out = h.out
            BY <2>1 DEF HalOk, HalFields
      <2> HIDE DEF e
      <2>3. ASSUME NEW k
            PROVE  /\ Waits(e.queue, k) <=> Waits(h.queue, k) \/ IsFor(c, k)
                   /\ WaitsOnce(h.queue, k) /\ ~(Waits(h.queue, k) /\ IsFor(c, k)) => WaitsOnce(e.queue, k)
            BY <2>1, <2>2, WaitsMore
      <2>4. ASSUME NEW k \in Kinds
            PROVE  /\ Holds(e, k) <=> Holds(h, k) \/ IsFor(c, k)
                   /\ HoldsOne(h, k) /\ (IsFor(c, k) => ~Holds(h, k)) => HoldsOne(e, k)
            BY <2>2, <2>3, Zenon DEF Holds, HoldsOne
      <2>5. HalSubmit(h, c) = Run(e)
            BY <1>2, OnceRun DEF HalSubmit, e
      <2>6. Keeps(e, Run(e))
            BY <2>2, RunKeeps
      <2> QED BY <2>4, <2>5, <2>6 DEF Keeps
<1> QED BY <1>1, <1>2

ChunkOk(chunk) == chunk.t = "Urc" => IsSeq(chunk.lines)

LEMMA OnRxKeeps ==
    ASSUME NEW h, HalOk(h), NEW chunk, ChunkOk(chunk)
    PROVE  Keeps(h, OnRx(h, chunk))
<1> DEFINE g == CASE chunk.t = "Urc" -> OnLines(h, chunk.lines)
                  [] chunk.t = "Final" -> OnFinal(h, chunk.ok, chunk.info)
                  [] chunk.t = "ReadBack" -> OnReadBack(h, chunk.n)
                  [] chunk.t = "Prompt" -> OnPrompt(h)
                  [] OTHER -> OnLost(h)
<1>1. Unmoved(h, g)
      <2>1. CASE chunk.t = "Urc"
            BY <2>1, OnLinesUnmoved DEF ChunkOk
      <2>2. CASE chunk.t = "Final"
            BY <2>2, OnFinalUnmoved
      <2>3. CASE chunk.t = "ReadBack"
            BY <2>3, OnReadBackUnmoved
      <2>4. CASE chunk.t = "Prompt"
            BY <2>4, OnPromptUnmoved
      <2>5. CASE chunk.t \notin {"Urc", "Final", "ReadBack", "Prompt"}
            BY <2>5, OnLostUnmoved
      <2> HIDE DEF g
      <2> QED BY <2>1, <2>2, <2>3, <2>4, <2>5
<1>2. OnRx(h, chunk) = Once(g, Run)
      BY Zenon DEF OnRx
<1> HIDE DEF g
<1>3. OnRx(h, chunk) = Run(g)
      BY <1>2, OnceRun
<1>4. Keeps(g, Run(g))
      BY <1>1, RunKeeps DEF Unmoved
<1> QED BY <1>1, <1>3, <1>4, UnmovedKeeps, KeepsOn

LEMMA OnDeadlineKeeps ==
    ASSUME NEW h, HalOk(h)
    PROVE  Keeps(h, OnDeadline(h))
<1>1. Unmoved(h, TimedOut(h))
      BY TimedOutUnmoved
<1>2. OnDeadline(h) = Run(TimedOut(h))
      BY OnceRun DEF OnDeadline
<1>3. Keeps(TimedOut(h), Run(TimedOut(h)))
      BY <1>1, RunKeeps DEF Unmoved
<1> QED BY <1>1, <1>2, <1>3, UnmovedKeeps, KeepsOn

-----------------------------------------------------------------------------
(* The modem: what it says, and what it has scheduled to say, is made of    *)
(* chunks.                                                                  *)

EffectOk(f) == (f.e = "Emit" => ChunkOk(f.chunk)) /\ (f.e = "CallGone" => IsSeq(f.lines))
Chunks(s) == \E S : s \in Seq(S) /\ \A x \in S : ChunkOk(x)
Effects(s) == \E S : s \in Seq(S) /\ \A x \in S : EffectOk(x)

SimFields == {"power", "tuned", "commands", "garbled", "lanes", "call", "simReady", "smsReady",
              "messages", "input", "sent", "rx"}

SimOk(s) ==
    /\ DOMAIN s = SimFields
    /\ Chunks(s.rx)
    /\ DOMAIN s.lanes = Lanes /\ \A lane \in Lanes : Effects(s.lanes[lane])

SameWire(s, r) == DOMAIN r = SimFields /\ r.lanes = s.lanes /\ r.rx = s.rx

LEMMA SameWireOk ==
    ASSUME NEW s, SimOk(s), NEW r, SameWire(s, r)
    PROVE  SimOk(r)
BY DEF SimOk, SameWire

LEMMA ChunksOf ==
    ASSUME NEW S, NEW s \in Seq(S), \A x \in S : ChunkOk(x)
    PROVE  Chunks(s)
BY DEF Chunks

LEMMA EffectsOf ==
    ASSUME NEW S, NEW s \in Seq(S), \A x \in S : EffectOk(x)
    PROVE  Effects(s)
BY DEF Effects

LEMMA ChunksParts ==
    /\ Chunks(<<>>)
    /\ \A s : Chunks(s) =>
              /\ \A c : ChunkOk(c) => Chunks(Append(s, c)) /\ (s # <<>> => Chunks([s EXCEPT ![1] = c]))
              /\ s # <<>> => Chunks(Tail(s)) /\ ChunkOk(Head(s))
<1>1. Chunks(<<>>)
      <2> DEFINE S == {}
      <2>1. <<>> \in Seq(S) /\ \A x \in S : ChunkOk(x)
            OBVIOUS
      <2> HIDE DEF S
      <2> QED BY <2>1, ChunksOf
<1>2. ASSUME NEW s, Chunks(s)
      PROVE  /\ \A c : ChunkOk(c) => Chunks(Append(s, c)) /\ (s # <<>> => Chunks([s EXCEPT ![1] = c]))
             /\ s # <<>> => Chunks(Tail(s)) /\ ChunkOk(Head(s))
      <2>1. PICK S : s \in Seq(S) /\ \A x \in S : ChunkOk(x)
            BY <1>2 DEF Chunks
      <2>2. ASSUME NEW c, ChunkOk(c)
            PROVE  Chunks(Append(s, c)) /\ (s # <<>> => Chunks([s EXCEPT ![1] = c]))
            <3> DEFINE T == S \cup {c}
            <3>1. s \in Seq(T) /\ c \in T /\ \A x \in T : ChunkOk(x)
                  BY <2>1, <2>2
            <3> HIDE DEF T
            <3>2. Append(s, c) \in Seq(T)
                  BY <3>1
            <3>3. s # <<>> => [s EXCEPT ![1] = c] \in Seq(T)
                  <4>1. s # <<>> => 1 \in 1 .. Len(s)
                        BY <3>1
                  <4> QED BY <3>1, <4>1, ExceptSeq
            <3> QED BY <3>1, <3>2, <3>3, Zenon DEF Chunks
      <2>3. ASSUME s # <<>>
            PROVE  Chunks(Tail(s)) /\ ChunkOk(Head(s))
            <3>1. Tail(s) \in Seq(S) /\ Head(s) \in S
                  BY <2>1, <2>3
            <3> QED BY <2>1, <3>1 DEF Chunks
      <2> QED BY <2>2, <2>3
<1> QED BY <1>1, <1>2

LEMMA EffectsParts ==
    /\ Effects(<<>>)
    /\ \A f : EffectOk(f) => Effects(<<f>>)
    /\ \A s : Effects(s) =>
              /\ \A r : Effects(r) => Effects(s \o r)
              /\ s # <<>> => Effects(Tail(s)) /\ EffectOk(Head(s))
<1>1. Effects(<<>>)
      <2> DEFINE S == {}
      <2>1. <<>> \in Seq(S) /\ \A x \in S : EffectOk(x)
            OBVIOUS
      <2> HIDE DEF S
      <2> QED BY <2>1, EffectsOf
<1>2. ASSUME NEW f, EffectOk(f)
      PROVE  Effects(<<f>>)
      <2> DEFINE S == {f}
      <2>1. <<f>> \in Seq(S) /\ \A x \in S : EffectOk(x)
            BY <1>2
      <2> HIDE DEF S
      <2> QED BY <2>1, EffectsOf
<1>3. ASSUME NEW s, Effects(s)
      PROVE  /\ \A r : Effects(r) => Effects(s \o r)
             /\ s # <<>> => Effects(Tail(s)) /\ EffectOk(Head(s))
      <2>1. PICK S : s \in Seq(S) /\ \A x \in S : EffectOk(x)
            BY <1>3 DEF Effects
      <2>2. ASSUME NEW r, Effects(r)
            PROVE  Effects(s \o r)
            <3>1. PICK R : r \in Seq(R) /\ \A x \in R : EffectOk(x)
                  BY <2>2 DEF Effects
            <3>2. s \in Seq(S \cup R) /\ r \in Seq(S \cup R) /\ \A x \in S \cup R : EffectOk(x)
                  BY <2>1, <3>1
            <3>3. s \o r \in Seq(S \cup R)
                  BY <3>2
            <3> QED BY <3>2, <3>3 DEF Effects
      <2>3. ASSUME s # <<>>
            PROVE  Effects(Tail(s)) /\ EffectOk(Head(s))
            <3>1. Tail(s) \in Seq(S) /\ Head(s) \in S
                  BY <2>1, <2>3
            <3> QED BY <2>1, <3>1 DEF Effects
      <2> QED BY <2>2, <2>3
<1> QED BY <1>1, <1>2, <1>3

LEMMA UrcOk ==
    ASSUME NEW lines, IsSeq(lines)
    PROVE  ChunkOk(Urc(lines)) /\ Effects(<<Emit(Urc(lines))>>) /\ Effects(<<CallGone(lines)>>)
<1>1. ChunkOk(Urc(lines)) /\ EffectOk(Emit(Urc(lines))) /\ EffectOk(CallGone(lines))
      BY DEF ChunkOk, EffectOk, Urc, Emit, CallGone
<1> QED BY <1>1, EffectsParts

\* What is neither an unsolicited line nor an effect that says one.
LEMMA OthersOk ==
    /\ \A cmd, ok, info : ChunkOk(Final(cmd, ok, info)) /\ Effects(<<Emit(Final(cmd, ok, info))>>)
    /\ \A cmd : Effects(<<Emit(PromptFor(cmd))>>)
    /\ \A n : Effects(<<Emit([t |-> "ReadBack", n |-> n])>>)
    /\ \A e \in {"Booted", "SimReady", "SmsReady", "Dialling", "Alerting", "Connected", "Ring"} :
            EffectOk(Effect(e)) /\ Effects(<<Effect(e)>>)
    /\ ChunkOk(Lost)
<1>1. ASSUME NEW cmd, NEW ok, NEW info
      PROVE  ChunkOk(Final(cmd, ok, info)) /\ EffectOk(Emit(Final(cmd, ok, info)))
      BY DEF ChunkOk, EffectOk, Final, Emit
<1>2. ASSUME NEW cmd
      PROVE  EffectOk(Emit(PromptFor(cmd))) /\ EffectOk(Emit([t |-> "ReadBack", n |-> cmd]))
      BY DEF ChunkOk, EffectOk, PromptFor, Emit
<1>3. ASSUME NEW e \in {"Booted", "SimReady", "SmsReady", "Dialling", "Alerting", "Connected", "Ring"}
      PROVE  EffectOk(Effect(e))
      BY DEF EffectOk, Effect
<1>4. ChunkOk(Lost)
      BY DEF ChunkOk, Lost
<1> QED BY <1>1, <1>2, <1>3, <1>4, EffectsParts

LEMMA AtOk ==
    ASSUME NEW s, SimOk(s), NEW lane \in Lanes, NEW effects, Effects(effects)
    PROVE  SimOk(At(s, lane, effects))
<1>1. Effects(s.lanes[lane] \o effects)
      BY EffectsParts DEF SimOk
<1> QED BY <1>1 DEF SimOk, SimFields, At

LEMMA SayOk ==
    ASSUME NEW s, SimOk(s), NEW chunk, ChunkOk(chunk)
    PROVE  SimOk(Say(s, chunk))
<1>1. Chunks(Append(s.rx, chunk))
      BY ChunksParts DEF SimOk
<1> QED BY <1>1 DEF SimOk, SimFields, Say

LEMMA NewSimOk ==
    /\ DOMAIN NewSim = SimFields /\ Chunks(NewSim.rx)
    /\ DOMAIN NewSim.lanes = Lanes /\ \A lane \in Lanes : Effects(NewSim.lanes[lane])
BY ChunksParts, EffectsParts DEF NewSim, SimFields

LEMMA ShutDownOk ==
    ASSUME NEW s, SimOk(s)
    PROVE  SimOk(ShutDown(s)) /\ SimOk(CutPower(s))
<1>1. SimOk(ShutDown(s))
      BY NewSimOk DEF ShutDown, SimOk, SimFields
<1>2. SimOk(CutPower(s))
      BY <1>1, ChunksParts DEF CutPower, SimOk, SimFields
<1> QED BY <1>1, <1>2

LEMMA PowerOnOk ==
    ASSUME NEW s, SimOk(s)
    PROVE  SimOk(PowerOn(s))
<1> DEFINE r == [s EXCEPT !.power = "Booting"]
<1>1. SimOk(r)
      BY SameWireOk DEF SameWire, SimOk, SimFields
<1>2. Effects(BOOT)
      <2>1. EffectOk(Emit(Urc(<<Line("PB DONE")>>)))
            BY ShortSeqs DEF EffectOk, ChunkOk, Emit, Urc
      <2>2. EffectOk(Effect("Booted")) /\ EffectOk(Effect("SimReady")) /\ EffectOk(Effect("SmsReady"))
            BY OthersOk
      <2> DEFINE S == {Effect("Booted"), Effect("SimReady"), Effect("SmsReady"), Emit(Urc(<<Line("PB DONE")>>))}
      <2>3. \A x \in S : EffectOk(x)
            BY <2>1, <2>2
      <2>4. BOOT \in Seq(S)
            <3>1. ASSUME NEW x, NEW y, NEW z, NEW w
                  PROVE  <<x>> \in Seq({x, y, z, w}) /\ <<x, y, z, w>> \in Seq({x, y, z, w})
                  OBVIOUS
            <3> QED BY <3>1, Zenon DEF BOOT
      <2> HIDE DEF S
      <2> QED BY <2>3, <2>4 DEF Effects
<1> HIDE DEF r
<1>3. SimOk(At(r, "boot", BOOT))
      BY <1>1, <1>2, AtOk DEF Lanes
<1> QED BY <1>3 DEF PowerOn, r

LEMMA EffectsPair ==
    ASSUME NEW f, NEW g, EffectOk(f), EffectOk(g)
    PROVE  Effects(<<f, g>>)
<1> DEFINE S == {f, g}  pair == <<f, g>>
<1>1. pair \in Seq(S) /\ \A x \in S : EffectOk(x)
      OBVIOUS
<1> HIDE DEF S, pair
<1>2. Effects(pair)
      BY <1>1 DEF Effects
<1> QED BY <1>2 DEF pair

LEMMA EndLinesSeq == IsSeq(EndLines)
BY ShortSeqs DEF EndLines

LEMMA EndingOk ==
    ASSUME NEW call
    PROVE  Effects(Ending(call))
<1> DEFINE gone == <<Clcc(Gone(call))>>
<1>1. IsSeq(gone) /\ IsSeq(EndLines)
      BY ShortSeqs, EndLinesSeq
<1> HIDE DEF gone
<1>2. IsSeq(gone \o EndLines)
      BY <1>1, IsSeqParts
<1>3. Effects(<<CallGone(gone \o EndLines)>>)
      BY <1>2, UrcOk
<1>4. EffectOk(CallGone(gone)) /\ EffectOk(Emit(Urc(EndLines)))
      BY <1>1 DEF EffectOk, ChunkOk, CallGone, Emit, Urc
<1>5. Effects(<<CallGone(gone), Emit(Urc(EndLines))>>)
      BY <1>4, EffectsPair
<1> QED BY <1>3, <1>5 DEF Ending, Missed, EndCall, gone

\* What the far end and the network do.
LEMMA FarEndOk ==
    ASSUME NEW s, SimOk(s)
    PROVE  SimOk(RemoteAnswer(s)) /\ SimOk(RemoteHangUp(s))
<1>1. SimOk(RemoteAnswer(s))
      <2> DEFINE c == [s.call EXCEPT !.state = "Active"]
                 r == [s EXCEPT !.call = c]
      <2>1. SimOk(r)
            BY SameWireOk DEF SameWire, SimOk, SimFields
      <2> HIDE DEF r, c
      <2>2. Effects(<<Emit(Urc(<<Line("BEGIN"), Clcc(c)>>))>>)
            BY UrcOk, ShortSeqs
      <2>3. SimOk(At(r, "ending", <<Emit(Urc(<<Line("BEGIN"), Clcc(c)>>))>>))
            BY <2>1, <2>2, AtOk DEF Lanes
      <2> QED BY <2>3 DEF RemoteAnswer, r, c
<1>2. SimOk(At(s, "ending", Ending(s.call)))
      BY EndingOk, AtOk DEF Lanes
<1> QED BY <1>1, <1>2 DEF RemoteHangUp

LEMMA IncomingCallOk ==
    ASSUME NEW s, SimOk(s), NEW call
    PROVE  SimOk(IncomingCall(s, call))
<1> DEFINE r == [s EXCEPT !.call = call]
           chunk == Urc(<<[k |-> "RING", number |-> call.number]>>)
           rings == [i \in 1 .. MaxRings |-> Effect("Ring")]
           first == <<Emit(Urc(<<Clcc(call)>>))>>
<1>1. SimOk(r)
      BY SameWireOk DEF SameWire, SimOk, SimFields
<1>2. ChunkOk(chunk) /\ Effects(first)
      BY UrcOk, ShortSeqs
<1>3. Effects(rings)
      <2>1. rings \in Seq({Effect("Ring")})
            BY SimAssumption
      <2>2. EffectOk(Effect("Ring"))
            BY OthersOk
      <2> HIDE DEF rings
      <2> QED BY <2>1, <2>2 DEF Effects
<1> HIDE DEF r, chunk, rings, first
<1>4. SimOk(Say(r, chunk)) /\ Effects(first \o rings)
      BY <1>1, <1>2, <1>3, SayOk, EffectsParts
<1>5. SimOk(At(Say(r, chunk), "ring", first \o rings))
      BY <1>4, AtOk DEF Lanes
<1> QED BY <1>5 DEF IncomingCall, r, chunk, rings, first

\* Commands.
LEMMA ReplyOk ==
    ASSUME NEW s, SimOk(s)
    PROVE  /\ \A effects : Effects(effects) => SimOk(Reply(s, effects))
           /\ \A cmd, ok, info : SimOk(Answering(s, Final(cmd, ok, info)))
           /\ \A cmd : SimOk(Answering(s, Ok(cmd))) /\ SimOk(Answering(s, Error(cmd)))
           /\ SimOk(Answering(s, Urc(<<Line("NO CARRIER")>>)))
<1>1. ASSUME NEW effects, Effects(effects)
      PROVE  SimOk(Reply(s, effects))
      BY <1>1, AtOk DEF Reply, Lanes
<1>2. \A cmd, ok, info : Effects(<<Emit(Final(cmd, ok, info))>>)
      BY OthersOk
<1>3. Effects(<<Emit(Urc(<<Line("NO CARRIER")>>))>>)
      BY UrcOk, ShortSeqs
<1> QED BY <1>1, <1>2, <1>3 DEF Answering, Ok, Error

LEMMA SmsCommandOk ==
    ASSUME NEW s, SimOk(s), NEW cmd
    PROVE  SimOk(SmsCommand(s, cmd))
<1>1. \A m : SameWire(s, [s EXCEPT !.messages = m])
      BY DEF SameWire, SimOk, SimFields
<1>2. \A m : SimOk([s EXCEPT !.messages = m])
      BY <1>1, SameWireOk
<1>3. SimOk([s EXCEPT !.input = [of |-> cmd, spoilt |-> FALSE]])
      BY SameWireOk DEF SameWire, SimOk, SimFields
<1>4. \A m : /\ SimOk(Answering([s EXCEPT !.messages = m], Ok(cmd)))
             /\ \A info : SimOk(Answering([s EXCEPT !.messages = m], Final(cmd, TRUE, info)))
      BY <1>2, ReplyOk
<1>5. \A info : SimOk(Answering(s, Final(cmd, TRUE, info)))
      BY ReplyOk
<1>6. SimOk(Answering(s, Error(cmd)))
      BY ReplyOk
<1>7. SimOk(Reply([s EXCEPT !.input = [of |-> cmd, spoilt |-> FALSE]], <<Emit(PromptFor(cmd))>>))
      BY <1>3, ReplyOk, OthersOk
<1> HIDE DEF SimOk
<1> QED BY <1>4, <1>5, <1>6, <1>7 DEF SmsCommand

LEMMA ExecuteOk ==
    ASSUME NEW s, SimOk(s), NEW cmd
    PROVE  SimOk(Execute(s, cmd))
<1>1. SimOk(Dial(s, cmd))
      <2> DEFINE c == [dir |-> "Outgoing", state |-> "Dialling", number |-> cmd.number]
                 r == [s EXCEPT !.call = c]
                 effects == <<Effect("Dialling"), Effect("Alerting")>>
      <2>1. SimOk(r)
            BY SameWireOk DEF SameWire, SimOk, SimFields
      <2>2. Effects(effects)
            BY OthersOk, EffectsPair
      <2> HIDE DEF r, c, effects
      <2>3. SimOk(Answering(r, Ok(cmd)))
            BY <2>1, ReplyOk
      <2>4. SimOk(At(Answering(r, Ok(cmd)), "network", effects))
            BY <2>2, <2>3, AtOk DEF Lanes
      <2>5. SimOk(Answering(s, Error(cmd)))
            BY ReplyOk
      <2> QED BY <2>4, <2>5 DEF Dial, r, c, effects
<1>2. SimOk(Answer(s, cmd))
      <2>1. EffectOk(Effect("Connected")) /\ EffectOk(Emit(Ok(cmd)))
            BY OthersOk DEF EffectOk, Emit, Ok
      <2>2. Effects(<<Effect("Connected"), Emit(Ok(cmd))>>)
            BY <2>1, EffectsPair
      <2>3. SimOk(Reply(s, <<Effect("Connected"), Emit(Ok(cmd))>>))
            BY <2>2, ReplyOk
      <2> QED BY <2>3, ReplyOk DEF Answer
<1>3. SimOk(HangUp(s, cmd))
      <2>1. Effects(<<Emit(Ok(cmd))>>) /\ Effects(<<>>) /\ Effects(Ending(s.call))
            BY OthersOk, EffectsParts, EndingOk DEF Ok
      <2>2. Effects((IF s.call = None THEN <<>> ELSE Ending(s.call)) \o <<Emit(Ok(cmd))>>)
            <3>1. Effects(<<>> \o <<Emit(Ok(cmd))>>) /\ Effects(Ending(s.call) \o <<Emit(Ok(cmd))>>)
                  BY <2>1, EffectsParts
            <3> QED BY <3>1
      <2> QED BY <2>2, ReplyOk DEF HangUp
<1>4. SimOk(Reply(s, <<Emit([t |-> "ReadBack", n |-> cmd.n])>>))
      BY ReplyOk, OthersOk
<1>5. \A c : SimOk(Answering(s, Ok(c))) /\ SimOk(Answering(s, Error(c)))
      BY ReplyOk
<1>6. SimOk(Answering([s EXCEPT !.tuned = @ \cup {cmd.s}], Ok(cmd)))
      <2>1. SimOk([s EXCEPT !.tuned = @ \cup {cmd.s}])
            BY SameWireOk DEF SameWire, SimOk, SimFields
      <2> QED BY <2>1, ReplyOk
<1>7. \A ok, info : SimOk(Answering(s, Final(cmd, ok, info)))
      BY ReplyOk
<1>8. SimOk(SmsCommand(s, cmd))
      BY SmsCommandOk
<1>9. SimOk(Answering(s, IF Needs(s, cmd.s) THEN Final(cmd, TRUE, cmd.s \in s.tuned) ELSE Error(cmd)))
      BY <1>5, <1>7
<1>10. SimOk(IF Needs(s, cmd.s) THEN Answering([s EXCEPT !.tuned = @ \cup {cmd.s}], Ok(cmd))
             ELSE Answering(s, Error(cmd)))
      BY <1>5, <1>6
<1> HIDE DEF SimOk
<1> QED BY <1>1, <1>2, <1>3, <1>4, <1>5, <1>7, <1>8, <1>9, <1>10 DEF Execute

LEMMA NextCommandOk ==
    ASSUME NEW s, SimOk(s)
    PROVE  SimOk(NextCommand(s))
<1> DEFINE r == [s EXCEPT !.commands = Tail(@)]
<1>1. SimOk(r)
      BY SameWireOk DEF SameWire, SimOk, SimFields
<1> HIDE DEF r
<1>2. SimOk(Execute(r, Head(s.commands)))
      BY <1>1, ExecuteOk
<1> QED BY <1>2 DEF NextCommand, r

LEMMA SmsInputOk ==
    ASSUME NEW s, SimOk(s), NEW w
    PROVE  SimOk(SmsInput(s, w))
<1> DEFINE done == [s EXCEPT !.input = None]
           sent == [done EXCEPT !.sent = Append(@, [of |-> w.of, pdu |-> "cmgf" \in s.tuned])]
<1>1. SimOk(done)
      BY SameWireOk DEF SameWire, SimOk, SimFields
<1>2. SimOk(sent)
      BY <1>1, SameWireOk DEF SameWire, SimOk, SimFields
<1>3. SimOk([s EXCEPT !.input.spoilt = TRUE])
      BY SameWireOk DEF SameWire, SimOk, SimFields
<1> HIDE DEF done, sent
<1>4. \A c : SimOk(Answering(done, Ok(c))) /\ SimOk(Answering(done, Error(c))) /\ SimOk(Answering(sent, Ok(c)))
      BY <1>1, <1>2, ReplyOk
<1> HIDE DEF SimOk
<1> QED BY <1>3, <1>4 DEF SmsInput, done, sent

LEMMA WriteOk ==
    ASSUME NEW s, SimOk(s), NEW w
    PROVE  SimOk(Write(s, w))
<1> DEFINE r == [s EXCEPT !.garbled = FALSE, !.commands = Append(@, IF s.garbled THEN Garbage ELSE w)]
<1>1. SimOk(r) /\ SimOk([s EXCEPT !.garbled = TRUE])
      BY SameWireOk DEF SameWire, SimOk, SimFields
<1> HIDE DEF r
<1>2. SimOk(NextCommand(r)) /\ SimOk(SmsInput(s, w))
      BY <1>1, NextCommandOk, SmsInputOk
<1> QED BY <1>1, <1>2 DEF Write, r

LEMMA ApplyOk ==
    ASSUME NEW s, SimOk(s), NEW f, EffectOk(f)
    PROVE  SimOk(Apply(s, f))
<1>1. ASSUME NEW lines, IsSeq(lines), NEW r, SimOk(r)
      PROVE  SimOk(Say(r, Urc(lines)))
      BY <1>1, SayOk, UrcOk
<1>2. \A x, y : IsSeq(<<x>>) /\ IsSeq(<<x, y>>)
      BY ShortSeqs
<1>3. \A c : SameWire(s, [s EXCEPT !.call = c])
      BY DEF SameWire, SimOk, SimFields
<1>4. \A c : SimOk([s EXCEPT !.call = c])
      BY <1>3, SameWireOk
<1>5. SimOk([s EXCEPT !.power = "On", !.tuned = @ \ NoSave]) /\ SimOk([s EXCEPT !.simReady = TRUE])
      /\ SimOk([s EXCEPT !.smsReady = TRUE])
      BY SameWireOk DEF SameWire, SimOk, SimFields
<1>6. CASE f.e = "Emit"
      BY <1>6, SayOk DEF Apply, EffectOk
<1>7. CASE f.e = "CallGone"
      <2>1. SimOk(Say([s EXCEPT !.call = None], Urc(f.lines)))
            BY <1>1, <1>4, <1>7 DEF EffectOk
      <2> QED BY <1>7, <2>1 DEF Apply
<1>8. CASE f.e = "Booted"
      <2>1. SimOk(Say([s EXCEPT !.power = "On", !.tuned = @ \ NoSave], Urc(<<Line("ATREADY")>>)))
            BY <1>1, <1>2, <1>5
      <2> QED BY <1>8, <2>1 DEF Apply
<1>9. CASE f.e = "SimReady"
      <2>1. SimOk(Say([s EXCEPT !.simReady = TRUE], Urc(<<Line("SIM READY")>>)))
            BY <1>1, <1>2, <1>5
      <2> QED BY <1>9, <2>1 DEF Apply
<1>10. CASE f.e = "SmsReady"
      <2>1. SimOk(Say([s EXCEPT !.smsReady = TRUE], Urc(<<Line("SMS DONE")>>)))
            BY <1>1, <1>2, <1>5
      <2> QED BY <1>10, <2>1 DEF Apply
<1>11. CASE f.e \in {"Dialling", "Alerting"}
      <2>1. SimOk(Say([s EXCEPT !.call = Now(s, f.e)], Urc(<<Clcc(Now(s, f.e))>>)))
            BY <1>1, <1>2, <1>4
      <2> QED BY <1>11, <2>1 DEF Apply
<1>12. CASE f.e = "Connected"
      <2>1. SimOk(Say([s EXCEPT !.call = Now(s, "Active")], Urc(<<Line("BEGIN"), Clcc(Now(s, "Active"))>>)))
            BY <1>1, <1>2, <1>4
      <2> QED BY <1>12, <2>1 DEF Apply
<1>13. CASE f.e \notin {"Emit", "CallGone", "Booted", "SimReady", "SmsReady", "Dialling", "Alerting", "Connected"}
      <2>1. SimOk(Say(s, Urc(<<[k |-> "RING", number |-> s.call.number]>>)))
            BY <1>1, <1>2
      <2> QED BY <1>13, <2>1 DEF Apply
<1> QED BY <1>6, <1>7, <1>8, <1>9, <1>10, <1>11, <1>12, <1>13

LEMMA AdvanceOk ==
    ASSUME NEW s, SimOk(s), NEW lane \in Lanes, s.lanes[lane] # <<>>
    PROVE  SimOk(Advance(s, lane))
<1> DEFINE r == [s EXCEPT !.lanes[lane] = Tail(@)]
<1>1. Effects(Tail(s.lanes[lane])) /\ EffectOk(Head(s.lanes[lane]))
      BY EffectsParts DEF SimOk
<1>2. SimOk(r)
      BY <1>1 DEF SimOk, SimFields
<1> HIDE DEF r
<1>3. SimOk(Apply(r, Head(s.lanes[lane])))
      BY <1>1, <1>2, ApplyOk
<1>4. SimOk(NextCommand(Apply(r, Head(s.lanes[lane]))))
      BY <1>3, NextCommandOk
<1> QED BY <1>4 DEF Advance, r

-----------------------------------------------------------------------------
(* The driver: the answers it passes up, and what it reads. *)

StructOk(t) ==
    /\ DOMAIN t = {"cm", "hal", "sim", "notices"}
    /\ HalOk(t.hal) /\ SimOk(t.sim) /\ IsSeq(t.notices)

\* A request, or its answer, below the call service; in one place only.
Pends(t, k) == Holds(t.hal, k) \/ Tells(t.notices, 0, k)
PendsOne(t, k) ==
    HoldsOne(t.hal, k) /\ TellsOnce(t.notices, 0, k) /\ ~(Holds(t.hal, k) /\ Tells(t.notices, 0, k))

Moves(t, u) ==
    /\ StructOk(u) /\ u.cm = t.cm
    /\ \A k \in Kinds : (Pends(u, k) <=> Pends(t, k)) /\ (PendsOne(t, k) => PendsOne(u, k))

\* An answer passed up, or left in the HAL's outputs after the n-th.
SomeAt(notices, out, n, k) == Tells(notices, 0, k) \/ Tells(out, n, k)
OneAt(notices, out, n, k) ==
    TellsOnce(notices, 0, k) /\ TellsOnce(out, n, k) /\ ~(Tells(notices, 0, k) /\ Tells(out, n, k))

LEMMA FlushedMoves ==
    ASSUME NEW t, StructOk(t)
    PROVE  Moves(t, Flushed(t)) /\ Flushed(t).hal.out = <<>>
<1> DEFINE out == t.hal.out  N == Len(out)  h == [t.hal EXCEPT !.out = <<>>]
           Carries(u, n) ==
               /\ DOMAIN u = {"cm", "hal", "sim", "notices"}
               /\ u.cm = t.cm /\ u.hal = h /\ SimOk(u.sim) /\ IsSeq(u.notices)
               /\ \A k : /\ SomeAt(u.notices, out, n, k) <=> SomeAt(t.notices, out, 0, k)
                         /\ OneAt(t.notices, out, 0, k) => OneAt(u.notices, out, n, k)
<1>1. N \in Nat /\ IsSeq(out)
      BY IsSeqParts DEF StructOk, HalOk
<1>2. PICK f : /\ f[0] = [t EXCEPT !.hal.out = <<>>] /\ Flushed(t) = f[N]
               /\ \A i \in 1 .. N : f[i] = Passed(f[i - 1], out[i])
      BY <1>1, OutputsPassed, Zenon
<1>3. /\ HalOk(h) /\ h.queue = t.hal.queue /\ h.flight = t.hal.flight /\ h.out = <<>>
      BY ShortSeqs DEF StructOk, HalOk, HalFields
<1>4. f[0] = [t EXCEPT !.hal = h]
      BY <1>2 DEF StructOk
<1> DEFINE T == {i \in 0 .. N : Carries(f[i], i)}
<1> HIDE DEF out, N, h
<1>5. Carries(f[0], 0)
      BY <1>4 DEF StructOk
<1>6. ASSUME NEW i \in 1 .. N, Carries(f[i - 1], i - 1)
      PROVE  Carries(f[i], i)
      <2> DEFINE u == f[i - 1]  o == out[i]  v == Passed(u, o)
      <2>1. /\ DOMAIN v = DOMAIN u /\ v.cm = u.cm /\ v.hal = u.hal
            /\ v.sim = IF o.o = "Write" THEN Write(u.sim, o.w) ELSE u.sim
            /\ v.notices = IF o.o = "Write" THEN u.notices ELSE Append(u.notices, o)
            BY <1>6 DEF Passed
      <2>2. SimOk(u.sim) /\ IsSeq(u.notices)
            BY <1>6
      <2>3. f[i] = v
            BY <1>2 DEF v, N
      <2>4. \A k : SomeAt(u.notices, out, i - 1, k) <=> SomeAt(t.notices, out, 0, k)
            BY <1>6
      <2>5. \A k : OneAt(t.notices, out, 0, k) => OneAt(u.notices, out, i - 1, k)
            BY <1>6
      <2>6. DOMAIN u = {"cm", "hal", "sim", "notices"} /\ u.cm = t.cm /\ u.hal = h
            BY <1>6
      <2> HIDE DEF v, u, o
      <2>7. SimOk(v.sim)
            BY <2>1, <2>2, WriteOk
      <2>8. IsSeq(v.notices) /\ Len(u.notices) \in Nat /\ 0 \in 0 .. Len(u.notices)
            BY <2>1, <2>2, IsSeqParts
      <2>9. ASSUME NEW k
            PROVE  /\ SomeAt(v.notices, out, i, k) <=> SomeAt(u.notices, out, i - 1, k)
                   /\ OneAt(u.notices, out, i - 1, k) => OneAt(v.notices, out, i, k)
            <3>1. /\ Tells(out, i - 1, k) <=> Tells(out, i, k) \/ Answers(o, k)
                  /\ TellsOnce(out, i - 1, k) =>
                       TellsOnce(out, i, k) /\ ~(Tells(out, i, k) /\ Answers(o, k))
                  BY <1>1, TellsLess DEF N, o
            <3>2. CASE o.o = "Write"
                  <4>1. v.notices = u.notices
                        BY <2>1, <3>2
                  <4>2. ~Answers(o, k)
                        BY <3>2 DEF Answers
                  <4> QED BY <3>1, <4>1, <4>2, Zenon DEF SomeAt, OneAt
            <3>3. CASE o.o # "Write"
                  <4>1. v.notices = Append(u.notices, o)
                        BY <2>1, <3>3
                  <4>2. /\ Tells(v.notices, 0, k) <=> Tells(u.notices, 0, k) \/ Answers(o, k)
                        /\ TellsOnce(u.notices, 0, k) /\ ~(Tells(u.notices, 0, k) /\ Answers(o, k))
                             => TellsOnce(v.notices, 0, k)
                        BY <2>2, <2>8, <4>1, TellsMore
                  <4> QED BY <3>1, <4>2, Zenon DEF SomeAt, OneAt
            <3> QED BY <3>2, <3>3
      <2>10. Carries(v, i)
            BY <2>1, <2>4, <2>5, <2>6, <2>7, <2>8, <2>9
      <2> QED BY <2>3, <2>10
<1> HIDE DEF Carries
<1>7. 0 \in T /\ \A i \in 1 .. N : i - 1 \in T => i \in T
      BY <1>1, <1>5, <1>6 DEF N
<1> HIDE DEF T
<1>8. N \in T
      BY <1>1, <1>7, CountTo
<1> DEFINE u == f[N]
<1>9. Carries(u, N)
      BY <1>8 DEF T
<1> HIDE DEF u
<1>10. StructOk(u) /\ u.cm = t.cm /\ u.hal = h
      BY <1>3, <1>9 DEF Carries, StructOk
<1>11. ASSUME NEW k \in Kinds
       PROVE  (Pends(u, k) <=> Pends(t, k)) /\ (PendsOne(t, k) => PendsOne(u, k))
       <2>1. ~Tells(out, N, k) /\ ~Tells(<<>>, 0, k) /\ TellsOnce(<<>>, 0, k)
             BY <1>1, TellsNone, ShortSeqs DEF N
       <2>2. /\ SomeAt(u.notices, out, N, k) <=> SomeAt(t.notices, out, 0, k)
             /\ OneAt(t.notices, out, 0, k) => OneAt(u.notices, out, N, k)
             BY <1>9 DEF Carries
       <2>3. Pends(t, k) <=> Waits(h.queue, k) \/ IsFor(h.flight, k) \/ SomeAt(t.notices, out, 0, k)
             BY <1>3 DEF Pends, Holds, SomeAt, out
       <2>4. Pends(u, k) <=> Waits(h.queue, k) \/ IsFor(h.flight, k) \/ SomeAt(u.notices, out, N, k)
             BY <1>3, <1>10, <2>1, Zenon DEF Pends, Holds, SomeAt
       <2>5. PendsOne(t, k) => /\ OneAt(t.notices, out, 0, k)
                               /\ WaitsOnce(h.queue, k) /\ ~(Waits(h.queue, k) /\ IsFor(h.flight, k))
                               /\ ~(Waits(h.queue, k) /\ SomeAt(t.notices, out, 0, k))
                               /\ ~(IsFor(h.flight, k) /\ SomeAt(t.notices, out, 0, k))
             BY <1>3 DEF PendsOne, HoldsOne, Holds, OneAt, SomeAt, out
       <2>6. ASSUME /\ OneAt(u.notices, out, N, k)
                    /\ WaitsOnce(h.queue, k) /\ ~(Waits(h.queue, k) /\ IsFor(h.flight, k))
                    /\ ~(Waits(h.queue, k) /\ SomeAt(u.notices, out, N, k))
                    /\ ~(IsFor(h.flight, k) /\ SomeAt(u.notices, out, N, k))
             PROVE  PendsOne(u, k)
             BY <1>3, <1>10, <2>1, <2>6, Zenon DEF PendsOne, HoldsOne, Holds, OneAt, SomeAt
       <2> QED BY <2>2, <2>3, <2>4, <2>5, <2>6
<1> QED BY <1>2, <1>3, <1>10, <1>11 DEF Moves, u

LEMMA FedMoves ==
    ASSUME NEW t, StructOk(t), NEW late
    PROVE  Moves(t, Fed(t, late))
<1>1. ASSUME NEW g, Keeps(t.hal, g), NEW s, SimOk(s)
      PROVE  Moves(t, [t EXCEPT !.hal = g, !.sim = s])
      <2> DEFINE u == [t EXCEPT !.hal = g, !.sim = s]
      <2>1. StructOk(u) /\ u.hal = g /\ u.notices = t.notices /\ u.cm = t.cm
            BY <1>1 DEF StructOk, Keeps
      <2> HIDE DEF u
      <2>2. Moves(t, u)
            BY <1>1, <2>1, Zenon DEF Moves, Pends, PendsOne, Keeps
      <2> QED BY <2>2 DEF u
<1>2. CASE t.sim.rx # <<>>
      <2> DEFINE g == OnRx(t.hal, Head(t.sim.rx))
                 s == [t.sim EXCEPT !.rx = Tail(@)]
      <2>1. Chunks(Tail(t.sim.rx)) /\ ChunkOk(Head(t.sim.rx))
            BY <1>2, ChunksParts DEF StructOk, SimOk
      <2>2. Keeps(t.hal, g)
            BY <2>1, OnRxKeeps DEF StructOk
      <2>3. SimOk(s)
            BY <2>1 DEF StructOk, SimOk, SimFields
      <2>4. Fed(t, late) = [t EXCEPT !.hal = g, !.sim = s]
            BY <1>2 DEF Fed, StructOk
      <2> HIDE DEF g, s
      <2>5. Moves(t, [t EXCEPT !.hal = g, !.sim = s])
            BY <1>1, <2>2, <2>3, Zenon
      <2> QED BY <2>4, <2>5, Zenon
<1>3. CASE t.sim.rx = <<>> /\ (late \/ Silent(t.sim))
      <2>1. Keeps(t.hal, OnDeadline(t.hal)) /\ SimOk(t.sim)
            BY OnDeadlineKeeps DEF StructOk
      <2>2. Fed(t, late) = [t EXCEPT !.hal = OnDeadline(t.hal), !.sim = t.sim]
            BY <1>3 DEF Fed, StructOk
      <2>3. Moves(t, [t EXCEPT !.hal = OnDeadline(t.hal), !.sim = t.sim])
            BY <1>1, <2>1, Zenon
      <2> QED BY <2>2, <2>3, Zenon
<1>4. CASE ~(t.sim.rx # <<>>) /\ ~(t.sim.rx = <<>> /\ (late \/ Silent(t.sim)))
      BY <1>4 DEF Fed, Moves
<1> QED BY <1>2, <1>3, <1>4

LEMMA SteppedIs ==
    ASSUME NEW t, NEW late
    PROVE  Stepped(t, late) = Flushed(Fed(Flushed(t), late))
<1>1. ASSUME NEW v
      PROVE  Once(v, LAMBDA flushed : Fed(flushed, late)) = Fed(v, late) /\ Once(v, Flushed) = Flushed(v)
      <2>1. {Fed(x, late) : x \in {v}} = {Fed(v, late)} /\ {Flushed(x) : x \in {v}} = {Flushed(v)}
            OBVIOUS
      <2> QED BY <2>1, TheOnly DEF Once
<1> QED BY <1>1, Zenon DEF Stepped

LEMMA SteppedMoves ==
    ASSUME NEW t, StructOk(t), NEW late
    PROVE  Moves(t, Stepped(t, late))
<1> DEFINE u == Flushed(t)  v == Fed(u, late)  w == Flushed(v)
<1>1. Moves(t, u)
      BY FlushedMoves
<1>2. Moves(u, v)
      BY <1>1, FedMoves DEF Moves
<1>3. Moves(v, w)
      BY <1>2, FlushedMoves DEF Moves
<1> HIDE DEF u, v, w
<1>4. Moves(t, w)
      BY <1>1, <1>2, <1>3 DEF Moves
<1> QED BY <1>4, SteppedIs DEF u, v, w

-----------------------------------------------------------------------------
(* The call service: what it remembers. *)

CmFields == {"calls", "tracked", "dial", "query", "requery", "synced", "actions", "linkUp"}
CmOk(c) ==
    /\ DOMAIN c = CmFields /\ c.query \in BOOLEAN /\ c.actions \subseteq {"Answer", "HangUp"}
    /\ c.dial \in {None, Settled} \cup {Sent(number) : number \in Dialled}
    /\ c.tracked # None => DOMAIN c.tracked = {"seen", "dir", "number"} /\ c.tracked.seen \in BOOLEAN

\* A call that no list has shown yet has its dial.
Backed(c) == c.tracked # None /\ ~c.tracked.seen => c.dial # None

\* It remembers the request known by k.
Wants(c, k) ==
    IF k = "ListCalls" THEN c.query ELSE IF k \in Single THEN k \in c.actions ELSE c.dial = Sent(k)

\* What it remembers is below it, or among the answers it has yet to handle
\* (those in rest); and of the single ones, in one place only, nothing else is.
Serves(s, rest) ==
    /\ StructOk(s) /\ s.notices = <<>> /\ CmOk(s.cm) /\ Backed(s.cm)
    /\ \A k \in Kinds : Wants(s.cm, k) => Holds(s.hal, k) \/ k \in rest
    /\ \A k \in Single : /\ HoldsOne(s.hal, k) /\ ~(Holds(s.hal, k) /\ k \in rest)
                         /\ Holds(s.hal, k) \/ k \in rest => Wants(s.cm, k)

LEMMA SomeSent ==
    /\ \A n, m : Sent(n) = Sent(m) => n = m
    /\ \A n : Sent(n) \notin {None, Settled}
    /\ Settled # None
<1>1. \A n : Sent(n).number = n
      BY DEF Sent
<1>2. \A n : Sent(n).k = "Sent" /\ None.k = "None" /\ Settled.k = "Settled"
      BY DEF Sent, None, Settled
<1> QED BY <1>1, <1>2

\* Its memory changes: of what was answered, and of that only, it goes.
LEMMA Remembers ==
    ASSUME NEW rest, NEW answered, NEW s, Serves(s, rest \cup answered),
           rest \cap answered \cap Single = {}, NEW c, CmOk(c), Backed(c),
           \A k \in Single : Wants(s.cm, k) /\ k \notin answered => Wants(c, k),
           \A k \in Kinds : Wants(c, k) => Wants(s.cm, k) /\ k \notin answered
    PROVE  Serves([s EXCEPT !.cm = c], rest)
<1> DEFINE r == [s EXCEPT !.cm = c]
<1>1. StructOk(r) /\ r.hal = s.hal /\ r.notices = s.notices /\ r.cm = c
      BY DEF Serves, StructOk
<1> HIDE DEF r
<1>2. ASSUME NEW k \in Kinds, Wants(c, k)
      PROVE  Holds(s.hal, k) \/ k \in rest
      BY <1>2 DEF Serves
<1>3. ASSUME NEW k \in Single
      PROVE  /\ HoldsOne(s.hal, k) /\ ~(Holds(s.hal, k) /\ k \in rest)
             /\ Holds(s.hal, k) \/ k \in rest => Wants(c, k)
      <2>1. /\ HoldsOne(s.hal, k) /\ ~(Holds(s.hal, k) /\ (k \in rest \/ k \in answered))
            /\ Holds(s.hal, k) \/ k \in rest => Wants(s.cm, k)
            BY DEF Serves
      <2> QED BY <2>1
<1>4. s.notices = <<>>
      BY DEF Serves
<1>5. Serves(r, rest)
      BY <1>1, <1>2, <1>3, <1>4 DEF Serves
<1> QED BY <1>5 DEF r

\* It sends a request. Of a single kind, there must be none; one whose answer it
\* is handling (gone) is the one it replaces.
LEMMA Sends ==
    ASSUME NEW rest, NEW gone, NEW s, Serves(s, rest \cup gone), NEW d \in Asked,
           NEW c, CmOk(c), Backed(c), \A k \in gone : IsFor(d, k),
           \A k \in Single : Wants(s.cm, k) \/ IsFor(d, k) => Wants(c, k),
           \A k \in Kinds : Wants(c, k) => Wants(s.cm, k) \/ IsFor(d, k),
           \A k \in Single : IsFor(d, k) => ~Holds(s.hal, k) /\ k \notin rest
    PROVE  Serves([s EXCEPT !.cm = c, !.hal = HalSubmit(@, d)], rest)
<1> DEFINE g == HalSubmit(s.hal, d)
           r == [s EXCEPT !.cm = c, !.hal = g]
<1>1. HalOk(g) /\ \A k \in Kinds : /\ Holds(g, k) <=> Holds(s.hal, k) \/ IsFor(d, k)
                                   /\ HoldsOne(s.hal, k) /\ (IsFor(d, k) => ~Holds(s.hal, k)) => HoldsOne(g, k)
      BY SubmitHolds DEF Serves, StructOk
<1>2. [s EXCEPT !.cm = c, !.hal = HalSubmit(@, d)] = r
      BY DEF Serves, StructOk
<1> HIDE DEF g
<1>3. StructOk(r) /\ r.hal = g /\ r.notices = <<>> /\ r.cm = c
      BY <1>1 DEF Serves, StructOk
<1> HIDE DEF r
<1>4. ASSUME NEW k \in Kinds, Wants(c, k)
      PROVE  Holds(g, k) \/ k \in rest
      <2>1. IsFor(d, k) \/ Holds(s.hal, k) \/ k \in rest
            BY <1>4 DEF Serves
      <2> QED BY <1>1, <2>1
<1>5. ASSUME NEW k \in Single
      PROVE  /\ HoldsOne(g, k) /\ ~(Holds(g, k) /\ k \in rest)
             /\ Holds(g, k) \/ k \in rest => Wants(c, k)
      <2>1. /\ HoldsOne(s.hal, k) /\ ~(Holds(s.hal, k) /\ k \in rest)
            /\ Holds(s.hal, k) \/ k \in rest => Wants(s.cm, k)
            BY DEF Serves
      <2>2. k \in Kinds
            BY DEF Kinds
      <2> QED BY <1>1, <2>1, <2>2
<1>6. Serves(r, rest)
      BY <1>3, <1>4, <1>5 DEF Serves, StructOk
<1> QED BY <1>2, <1>6

\* What changes neither the query nor the actions, and adds no dial.
Calm(c, d) ==
    /\ CmOk(d) /\ d.query = c.query /\ d.actions = c.actions
    /\ d.dial \in {c.dial, None, Settled}
Quiet(c, d) == Calm(c, d) /\ Backed(d)

LEMMA QuietWants ==
    ASSUME NEW c, NEW d, Calm(c, d)
    PROVE  /\ \A k \in Single : Wants(c, k) => Wants(d, k)
           /\ \A k \in Kinds : Wants(d, k) => Wants(c, k)
BY SomeSent, Zenon DEF Calm, Wants

LEMMA QuietServes ==
    ASSUME NEW rest, NEW s, Serves(s, rest), NEW c, Quiet(s.cm, c)
    PROVE  Serves([s EXCEPT !.cm = c], rest)
<1>1. Serves(s, rest \cup {}) /\ rest \cap {} \cap Single = {}
      BY rest \cup {} = rest
<1>2. /\ CmOk(c) /\ Backed(c) /\ \A k \in Single : Wants(s.cm, k) /\ k \notin {} => Wants(c, k)
      /\ \A k \in Kinds : Wants(c, k) => Wants(s.cm, k) /\ k \notin {}
      BY QuietWants DEF Quiet, Calm
<1> QED BY <1>1, <1>2, Remembers, Zenon

\* A list leaves no call without its dial.
LEMMA ReconcileQuiet ==
    ASSUME NEW c, CmOk(c), NEW fromQuery
    PROVE  Calm(c, Reconcile(c, fromQuery)) /\ Backed(Reconcile(c, fromQuery))
<1> DEFINE d == Settle(c, fromQuery)  e == PickUp(d)  f == Refresh(e)
           adopted == [c EXCEPT !.tracked.seen = TRUE, !.dial = None]
<1>1. /\ Calm(c, c) /\ Calm(c, End(c)) /\ Backed(End(c))
      /\ c.tracked # None => Calm(c, adopted) /\ Backed(adopted)
      <2>1. Calm(c, c) /\ Calm(c, End(c)) /\ Backed(End(c))
            BY DEF CmOk, CmFields, Calm, Backed, End
      <2>2. ASSUME c.tracked # None
            PROVE  Calm(c, adopted) /\ Backed(adopted)
            <3> DEFINE t == [c.tracked EXCEPT !.seen = TRUE]
            <3>1. DOMAIN t = {"seen", "dir", "number"} /\ t.seen = TRUE
                  BY <2>2 DEF CmOk
            <3>2. adopted = [c EXCEPT !.tracked = t, !.dial = None]
                  BY DEF CmOk, CmFields
            <3> HIDE DEF t, adopted
            <3> QED BY <3>1, <3>2 DEF CmOk, CmFields, Calm, Backed
      <2> QED BY <2>1, <2>2
<1> HIDE DEF adopted
<1>2. Calm(c, d) /\ Backed(d)
      <2>1. CASE c.tracked # None /\ ~c.tracked.seen /\ c.calls # None /\ c.calls.dir = "Outgoing"
            <3>1. d = adopted
                  BY <2>1 DEF Settle, adopted
            <3> QED BY <1>1, <2>1, <3>1
      <2>2. CASE c.tracked # None /\ ~c.tracked.seen /\ ~(c.calls # None /\ c.calls.dir = "Outgoing")
            <3>1. d = IF c.dial = None \/ (fromQuery /\ c.dial = Settled) THEN End(c) ELSE c
                  BY <2>2 DEF Settle
            <3>2. c.dial # None => Backed(c)
                  BY DEF Backed
            <3> QED BY <1>1, <3>1, <3>2
      <2>3. CASE ~(c.tracked # None /\ ~c.tracked.seen)
            <3>1. d = IF c.tracked # None /\ c.calls = None THEN End(c) ELSE c
                  BY <2>3 DEF Settle
            <3>2. Backed(c)
                  BY <2>3 DEF Backed
            <3> QED BY <1>1, <3>1, <3>2
      <2> QED BY <2>1, <2>2, <2>3
<1> HIDE DEF d
<1>3. Calm(d, e) /\ Backed(e)
      <2>1. CASE d.tracked # None \/ d.calls = None
            BY <1>2, <2>1 DEF Calm, PickUp
      <2>2. CASE ~(d.tracked # None \/ d.calls = None)
            <3> DEFINE t == [seen |-> TRUE, dir |-> d.calls.dir, number |-> d.calls.number]
            <3>1. DOMAIN t = {"seen", "dir", "number"} /\ t.seen = TRUE
                  OBVIOUS
            <3>2. e = [d EXCEPT !.tracked = t]
                  BY <2>2 DEF PickUp
            <3> HIDE DEF t, e
            <3> QED BY <1>2, <3>1, <3>2 DEF CmOk, CmFields, Calm, Backed
      <2> QED BY <2>1, <2>2
<1> HIDE DEF e
<1>4. Calm(e, f) /\ Backed(f)
      <2>1. CASE e.tracked = None \/ e.calls = None \/ ~e.tracked.seen
            BY <1>3, <2>1 DEF Calm, Refresh
      <2>2. CASE ~(e.tracked = None \/ e.calls = None \/ ~e.tracked.seen)
            <3> DEFINE t == [e.tracked EXCEPT !.number = e.calls.number]
            <3>1. DOMAIN t = {"seen", "dir", "number"} /\ t.seen = e.tracked.seen
                  BY <1>3, <2>2 DEF Calm, CmOk
            <3>2. f = [e EXCEPT !.tracked = t]
                  BY <1>3, <2>2 DEF Refresh, Calm, CmOk, CmFields
            <3>3. e.tracked # None /\ e.tracked.seen
                  BY <2>2
            <3> HIDE DEF t, f
            <3> QED BY <1>3, <3>1, <3>2, <3>3 DEF CmOk, CmFields, Calm, Backed
      <2> QED BY <2>1, <2>2
<1> HIDE DEF f
<1>5. Calm(c, f)
      BY <1>2, <1>3, <1>4 DEF Calm
<1> QED BY <1>4, <1>5 DEF Reconcile, d, e, f

LEMMA AskIs ==
    ASSUME NEW rest, NEW s, Serves(s, rest), NEW c, NEW d
    PROVE  Ask([s EXCEPT !.cm = c], d) = [s EXCEPT !.cm = c, !.hal = HalSubmit(@, d)]
BY DEF Ask, Serves, StructOk

\* A query goes out where there is none, or where the one there was is answered.
LEMMA SubmitQueryServes ==
    ASSUME NEW rest, NEW gone, gone \subseteq {"ListCalls"}, NEW s, Serves(s, rest \cup gone),
           ~Holds(s.hal, "ListCalls") /\ "ListCalls" \notin rest
    PROVE  Serves(SubmitQuery(s), rest)
<1> DEFINE d == [s.cm EXCEPT !.query = TRUE]
<1>1. CmOk(d) /\ Backed(d) /\ d.query = TRUE /\ d.actions = s.cm.actions /\ d.dial = s.cm.dial
      BY DEF Serves, CmOk, CmFields, Backed
<1>2. SubmitQuery(s) = Ask([s EXCEPT !.cm = d], ListCalls)
      BY DEF SubmitQuery, Serves, StructOk
<1> HIDE DEF d
<1>3. ListCalls \in Asked /\ \A k : IsFor(ListCalls, k) <=> k = "ListCalls"
      BY DEF Asked, ListCalls, IsFor, IsUser
<1>4. \A k \in Single : Wants(s.cm, k) \/ IsFor(ListCalls, k) => Wants(d, k)
      BY <1>1, <1>3 DEF Wants
<1>5. \A k \in Kinds : Wants(d, k) => Wants(s.cm, k) \/ IsFor(ListCalls, k)
      BY <1>1, <1>3 DEF Wants
<1>6. \A k \in Single : IsFor(ListCalls, k) => ~Holds(s.hal, k) /\ k \notin rest
      BY <1>3
<1>7. \A k \in gone : IsFor(ListCalls, k)
      BY <1>3
<1> HIDE DEF Serves
<1>8. Serves([s EXCEPT !.cm = d, !.hal = HalSubmit(@, ListCalls)], rest)
      BY <1>1, <1>3, <1>4, <1>5, <1>6, <1>7, Sends, Zenon
<1> QED BY <1>2, <1>8, AskIs, Zenon

LEMMA WantQueryServes ==
    ASSUME NEW rest, NEW s, Serves(s, rest)
    PROVE  Serves(WantQuery(s), rest)
<1>1. CASE s.cm.query
      <2> DEFINE c == [s.cm EXCEPT !.requery = TRUE]
      <2>1. Quiet(s.cm, c)
            BY DEF Serves, CmOk, CmFields, Quiet, Calm, Backed
      <2>2. WantQuery(s) = [s EXCEPT !.cm = c]
            BY <1>1 DEF WantQuery, Serves, StructOk
      <2> HIDE DEF c
      <2> QED BY <2>1, <2>2, QuietServes, Zenon
<1>2. CASE ~s.cm.query
      <2>1. ~Wants(s.cm, "ListCalls") /\ "ListCalls" \in Single
            BY <1>2 DEF Wants, Single
      <2>2. ~Holds(s.hal, "ListCalls") /\ "ListCalls" \notin rest
            BY <2>1 DEF Serves
      <2>3. Serves(s, rest \cup {})
            BY rest \cup {} = rest
      <2> QED BY <1>2, <2>2, <2>3, SubmitQueryServes DEF WantQuery
<1> QED BY <1>1, <1>2

\* Answers.
LEMMA OnListServes ==
    ASSUME NEW rest, "ListCalls" \notin rest, NEW s, Serves(s, rest \cup {"ListCalls"}),
           NEW outcome, NEW call
    PROVE  Serves(OnList(s, outcome, call), rest)
<1>1. rest \cap {"ListCalls"} \cap Single = {}
      OBVIOUS
<1>2. ~Holds(s.hal, "ListCalls")
      BY DEF Serves, Single
<1>3. ASSUME NEW c, c.actions = s.cm.actions, c.dial \in {s.cm.dial, None, Settled}, c.query = FALSE
      PROVE  /\ \A k \in Single : Wants(s.cm, k) /\ k \notin {"ListCalls"} => Wants(c, k)
             /\ \A k \in Kinds : Wants(c, k) => Wants(s.cm, k) /\ k \notin {"ListCalls"}
      BY <1>3, SomeSent, Zenon DEF Wants
<1>4. CASE s.cm.requery
      <2> DEFINE c == [s.cm EXCEPT !.requery = FALSE]
      <2>1. Quiet(s.cm, c)
            BY DEF Serves, CmOk, CmFields, Quiet, Calm, Backed
      <2>2. OnList(s, outcome, call) = SubmitQuery([s EXCEPT !.cm = c])
            BY <1>4 DEF OnList, Serves, StructOk
      <2> DEFINE r == [s EXCEPT !.cm = c]
      <2>3. r.hal = s.hal
            BY DEF Serves, StructOk
      <2> HIDE DEF c
      <2>4. Serves(r, rest \cup {"ListCalls"})
            BY <2>1, QuietServes, Zenon
      <2> HIDE DEF r
      <2>5. Serves(SubmitQuery(r), rest)
            BY <1>2, <2>3, <2>4, SubmitQueryServes
      <2> QED BY <2>2, <2>5 DEF r
<1>5. CASE ~s.cm.requery /\ outcome # "Ok"
      <2> DEFINE c == [s.cm EXCEPT !.query = FALSE, !.synced = FALSE]
      <2>1. CmOk(c) /\ Backed(c) /\ c.actions = s.cm.actions /\ c.dial = s.cm.dial /\ c.query = FALSE
            BY DEF Serves, CmOk, CmFields, Backed
      <2>2. OnList(s, outcome, call) = [s EXCEPT !.cm = c]
            BY <1>5 DEF OnList, Serves, StructOk
      <2> HIDE DEF c
      <2>3. /\ \A k \in Single : Wants(s.cm, k) /\ k \notin {"ListCalls"} => Wants(c, k)
            /\ \A k \in Kinds : Wants(c, k) => Wants(s.cm, k) /\ k \notin {"ListCalls"}
            BY <1>3, <2>1
      <2>4. Serves([s EXCEPT !.cm = c], rest)
            BY <1>1, <2>1, <2>3, Remembers, Zenon
      <2> QED BY <2>2, <2>4
<1>6. CASE ~s.cm.requery /\ outcome = "Ok"
      <2> DEFINE b == [s.cm EXCEPT !.query = FALSE, !.synced = TRUE, !.calls = Live(call)]
                 c == Reconcile(b, TRUE)
      <2>1. CmOk(b) /\ b.actions = s.cm.actions /\ b.dial = s.cm.dial /\ b.query = FALSE
            BY DEF Serves, CmOk, CmFields, Backed
      <2>2. OnList(s, outcome, call) = [s EXCEPT !.cm = c]
            BY <1>6 DEF OnList, Serves, StructOk
      <2> HIDE DEF b
      <2>3. CmOk(c) /\ Backed(c) /\ c.actions = s.cm.actions /\ c.dial \in {s.cm.dial, None, Settled} /\ c.query = FALSE
            BY <2>1, ReconcileQuiet DEF Calm
      <2> HIDE DEF c
      <2>4. /\ \A k \in Single : Wants(s.cm, k) /\ k \notin {"ListCalls"} => Wants(c, k)
            /\ \A k \in Kinds : Wants(c, k) => Wants(s.cm, k) /\ k \notin {"ListCalls"}
            BY <1>3, <2>3
      <2>5. Serves([s EXCEPT !.cm = c], rest)
            BY <1>1, <2>3, <2>4, Remembers, Zenon
      <2> QED BY <2>2, <2>5
<1> QED BY <1>4, <1>5, <1>6

LEMMA OnDialledServes ==
    ASSUME NEW number \in Dialled, NEW rest, NEW s, Serves(s, rest \cup {number}),
           s.cm.dial = Sent(number), NEW outcome
    PROVE  Serves(OnDialled(s, outcome), rest)
<1>0. number \notin Single
      BY NumbersAssumption DEF Single
<1>1. ASSUME NEW c, Quiet(s.cm, c), c.dial \in {None, Settled}
      PROVE  Serves([s EXCEPT !.cm = c], rest)
      <2>1. rest \cap {number} \cap Single = {} /\ CmOk(c) /\ Backed(c) /\ Calm(s.cm, c)
            BY <1>0, <1>1 DEF Quiet, Calm
      <2>2. \A k \in Single : Wants(s.cm, k) /\ k \notin {number} => Wants(c, k)
            BY <2>1, QuietWants
      <2>3. \A k \in Kinds : Wants(c, k) => Wants(s.cm, k) /\ k \notin {number}
            <3>1. ~Wants(c, number)
                  BY <1>0, <1>1, SomeSent DEF Wants, Single
            <3> QED BY <2>1, <3>1, QuietWants
      <2> QED BY <2>1, <2>2, <2>3, Remembers, Zenon
<1>2. CASE outcome \in {"Ok", "Unknown"}
      <2> DEFINE c == [s.cm EXCEPT !.dial = Settled]  r == [s EXCEPT !.cm = c]
      <2>1. Quiet(s.cm, c) /\ c.dial = Settled
            BY SomeSent DEF Serves, CmOk, CmFields, Quiet, Calm, Backed
      <2>2. OnDialled(s, outcome) = WantQuery(r)
            BY <1>2 DEF OnDialled, Serves, StructOk
      <2> HIDE DEF c
      <2>3. Serves(r, rest)
            BY <1>1, <2>1
      <2> QED BY <2>2, <2>3, WantQueryServes
<1>3. CASE outcome \notin {"Ok", "Unknown"}
      <2> DEFINE b == [s.cm EXCEPT !.dial = None]  c == Reconcile(b, FALSE)
      <2>1. Calm(s.cm, b) /\ b.dial = None
            BY DEF Serves, CmOk, CmFields, Quiet, Calm, Backed
      <2>2. OnDialled(s, outcome) = [s EXCEPT !.cm = c]
            BY <1>3 DEF OnDialled, Serves, StructOk
      <2> HIDE DEF b
      <2>3. Quiet(s.cm, c) /\ c.dial \in {None, Settled}
            BY <2>1, ReconcileQuiet DEF Quiet, Calm
      <2> HIDE DEF c
      <2> QED BY <1>1, <2>2, <2>3
<1> QED BY <1>2, <1>3

LEMMA OnActedServes ==
    ASSUME NEW action \in {"Answer", "HangUp"}, NEW rest, action \notin rest,
           NEW s, Serves(s, rest \cup {action}), NEW outcome
    PROVE  Serves(OnActed(s, action, outcome), rest)
<1> DEFINE c == [s.cm EXCEPT !.actions = @ \ {action}]  r == [s EXCEPT !.cm = c]
<1>1. CmOk(c) /\ Backed(c) /\ c.query = s.cm.query /\ c.actions = s.cm.actions \ {action} /\ c.dial = s.cm.dial
      BY DEF Serves, CmOk, CmFields, Backed
<1>2. /\ \A k \in Single : Wants(s.cm, k) /\ k \notin {action} => Wants(c, k)
      /\ \A k \in Kinds : Wants(c, k) => Wants(s.cm, k) /\ k \notin {action}
      <2>1. action \in Single /\ action # "ListCalls"
            BY DEF Single
      <2> QED BY <1>1, <2>1 DEF Wants
<1>3. rest \cap {action} \cap Single = {}
      OBVIOUS
<1>4. [s EXCEPT !.cm.actions = @ \ {action}] = r
      BY DEF Serves, StructOk
<1> HIDE DEF c
<1>5. Serves(r, rest)
      BY <1>1, <1>2, <1>3, Remembers, Zenon
<1> HIDE DEF r
<1>6. Serves(WantQuery(r), rest)
      BY <1>5, WantQueryServes
<1> DEFINE P == action = "HangUp" \/ outcome # "Ok"
           F(done) == IF P THEN WantQuery(done) ELSE done
<1>7. {F(x) : x \in {r}} = {F(r)}
      OBVIOUS
<1>8. OnActed(s, action, outcome) = F(r)
      BY <1>4, <1>7, TheOnly, Zenon DEF OnActed, Once
<1> QED BY <1>5, <1>6, <1>8

\* What an answer is to.
AnswerOf(n) == {k \in Kinds : Answers(n, k)}

LEMMA OnDoneServes ==
    ASSUME NEW n, n.o = "Done", NEW rest, rest \cap AnswerOf(n) \cap Single = {},
           NEW s, Serves(s, rest \cup AnswerOf(n))
    PROVE  Serves(OnDone(s, n), rest)
<1>kinds. /\ s.cm.dial = Sent(n.id) => n.id \in Dialled /\ n.id \notin Single
          /\ s.cm.actions \subseteq {"Answer", "HangUp"}
      <2>1. ASSUME s.cm.dial = Sent(n.id)
            PROVE  n.id \in Dialled
            <3>1. PICK number \in Dialled : Sent(n.id) = Sent(number)
                  BY <2>1, SomeSent DEF Serves, CmOk
            <3> QED BY <3>1, SomeSent
      <2> QED BY <2>1, NumbersAssumption DEF Single, Serves, CmOk
<1>id. \A k : Answers(n, k) <=> k = n.id
      BY DEF Answers
<1>1. CASE n.id = "ListCalls"
      <2>1. AnswerOf(n) = {"ListCalls"} /\ "ListCalls" \notin rest
            BY <1>1 DEF AnswerOf, Answers, Kinds, Single
      <2>2. Serves(OnList(s, n.outcome, n.info), rest)
            BY <2>1, OnListServes
      <2>3. s.cm.dial # Sent(n.id) /\ n.id \notin s.cm.actions
            BY <1>1, <1>kinds DEF Single
      <2>4. OnDone(s, n) = OnList(s, n.outcome, n.info)
            BY <1>1, <2>3 DEF OnDone
      <2> QED BY <2>2, <2>4
<1>2. CASE n.id # "ListCalls" /\ s.cm.dial = Sent(n.id)
      <2>1. n.id \in Dialled /\ n.id \notin s.cm.actions
            BY <1>2, <1>kinds DEF Single
      <2>2. OnDone(s, n) = OnDialled(s, n.outcome)
            BY <1>2, <2>1 DEF OnDone
      <2>3. AnswerOf(n) = {n.id}
            BY <1>id, <2>1 DEF AnswerOf, Kinds
      <2> QED BY <1>2, <2>1, <2>2, <2>3, OnDialledServes
<1>3. CASE n.id # "ListCalls" /\ s.cm.dial # Sent(n.id) /\ n.id \in s.cm.actions
      <2>1. n.id \in {"Answer", "HangUp"}
            BY <1>3, <1>kinds
      <2>2. AnswerOf(n) = {n.id} /\ n.id \in Single
            BY <2>1 DEF AnswerOf, Answers, Kinds, Single
      <2>3. n.id \notin rest /\ Serves(s, rest \cup {n.id})
            BY <2>2
      <2>4. Serves(OnActed(s, n.id, n.outcome), rest)
            BY <2>1, <2>3, OnActedServes
      <2>5. OnDone(s, n) = OnActed(s, n.id, n.outcome)
            BY <1>3 DEF OnDone
      <2> QED BY <2>4, <2>5
<1>4. CASE n.id # "ListCalls" /\ s.cm.dial # Sent(n.id) /\ n.id \notin s.cm.actions
      <2>1. \A k \in AnswerOf(n) : ~Wants(s.cm, k)
            BY <1>4, <1>id DEF AnswerOf, Wants
      <2>2. Serves(s, rest)
            BY <2>1 DEF Serves
      <2>3. OnDone(s, n) = s
            BY <1>4 DEF OnDone
      <2> QED BY <2>2, <2>3
<1> QED BY <1>1, <1>2, <1>3, <1>4

\* News.
LEMMA OnEventServes ==
    ASSUME NEW rest, NEW s, Serves(s, rest), NEW e
    PROVE  Serves(OnEvent(s, e), rest)
<1>1. ASSUME NEW c, Calm(s.cm, c)
      PROVE  /\ Backed(c) => Serves(WantQuery([s EXCEPT !.cm = c]), rest)
             /\ \A b : Serves([s EXCEPT !.cm = Reconcile(c, b)], rest)
                       /\ Serves(WantQuery([s EXCEPT !.cm = Reconcile(c, b)]), rest)
      <2>1. ASSUME NEW d, Quiet(s.cm, d)
            PROVE  Serves([s EXCEPT !.cm = d], rest) /\ Serves(WantQuery([s EXCEPT !.cm = d]), rest)
            <3>1. Serves([s EXCEPT !.cm = d], rest)
                  BY <2>1, QuietServes, Zenon
            <3> QED BY <3>1, WantQueryServes, Zenon
      <2>2. \A b : Quiet(s.cm, Reconcile(c, b))
            BY <1>1, ReconcileQuiet DEF Quiet, Calm
      <2>3. Backed(c) => Quiet(s.cm, c)
            BY <1>1 DEF Quiet
      <2> QED BY <2>1, <2>2, <2>3, Zenon
<1>2. CASE e.k = "CLCC"
      <2> DEFINE c == [s.cm EXCEPT !.requery = @ \/ s.cm.query, !.calls = Live(e.call)]
      <2>1. Calm(s.cm, c)
            BY DEF Serves, CmOk, CmFields, Quiet, Calm, Backed
      <2>2. OnEvent(s, e) = [s EXCEPT !.cm = Reconcile(c, FALSE)]
            BY <1>2 DEF OnEvent, Hints, Serves, StructOk
      <2> HIDE DEF c
      <2>3. Serves([s EXCEPT !.cm = Reconcile(c, FALSE)], rest)
            BY <1>1, <2>1, Zenon
      <2> QED BY <2>2, <2>3
<1>3. CASE e.k \in Hints
      <2>1. OnEvent(s, e) = WantQuery(s)
            BY <1>3 DEF OnEvent, Hints
      <2> QED BY <2>1, WantQueryServes
<1>4. CASE e.k \in {"LinkLost", "Configured"}
      <2> DEFINE c == [s.cm EXCEPT !.linkUp = (e.k = "Configured")]
      <2>1. Calm(s.cm, c) /\ Backed(c)
            BY DEF Serves, CmOk, CmFields, Quiet, Calm, Backed
      <2>2. OnEvent(s, e) = WantQuery([s EXCEPT !.cm = c])
            BY <1>4 DEF OnEvent, Hints, Serves, StructOk
      <2> HIDE DEF c
      <2> QED BY <1>1, <2>1, <2>2, Zenon
<1>5. CASE e.k = "Restarted"
      <2> DEFINE c == [s.cm EXCEPT !.linkUp = FALSE, !.calls = None, !.dial = None]
      <2>1. Calm(s.cm, c)
            BY DEF Serves, CmOk, CmFields, Quiet, Calm, Backed
      <2>2. OnEvent(s, e) = WantQuery([s EXCEPT !.cm = Reconcile(c, FALSE)])
            BY <1>5 DEF OnEvent, Hints, Serves, StructOk
      <2> HIDE DEF c
      <2> QED BY <1>1, <2>1, <2>2, Zenon
<1>6. CASE e.k \notin {"CLCC", "LinkLost", "Configured", "Restarted"} \cup Hints
      <2>1. OnEvent(s, e) = s
            BY <1>6 DEF OnEvent
      <2> QED BY <2>1
<1> QED BY <1>2, <1>3, <1>4, <1>5, <1>6

LEMMA HandleServes ==
    ASSUME NEW n, NEW rest, rest \cap AnswerOf(n) \cap Single = {},
           NEW s, Serves(s, rest \cup AnswerOf(n))
    PROVE  Serves(Handle(s, n), rest)
<1>1. CASE n.o = "Done"
      BY <1>1, OnDoneServes DEF Handle
<1>2. CASE n.o # "Done"
      <2>1. AnswerOf(n) = {}
            BY <1>2 DEF AnswerOf, Answers
      <2>2. Serves(s, rest)
            BY <2>1
      <2> QED BY <1>2, <2>2, OnEventServes DEF Handle
<1> QED BY <1>1, <1>2

\* The owner hands over all that came up.
LEMMA HandleAllServes ==
    ASSUME NEW t, StructOk(t), CmOk(t.cm), Backed(t.cm),
           \A k \in Single : PendsOne(t, k) /\ (Pends(t, k) => Wants(t.cm, k)),
           \A k \in Kinds : Wants(t.cm, k) => Pends(t, k)
    PROVE  Serves(HandleAll(t), {})
<1> DEFINE list == t.notices  N == Len(list)
           Rest(n) == {k \in Kinds : Tells(list, n, k)}
<1>1. N \in Nat /\ IsSeq(list)
      BY IsSeqParts DEF StructOk
<1>2. PICK f : /\ f[0] = [t EXCEPT !.notices = <<>>] /\ HandleAll(t) = f[N]
               /\ \A i \in 1 .. N : f[i] = Handle(f[i - 1], list[i])
      BY <1>1, NoticesHandled, Zenon
<1> DEFINE T == {i \in 0 .. N : Serves(f[i], Rest(i)) /\ \A k \in Single : TellsOnce(list, i, k)}
<1>3. 0 \in T
      <2> DEFINE s == [t EXCEPT !.notices = <<>>]
      <2>1. StructOk(s) /\ s.notices = <<>> /\ s.cm = t.cm /\ s.hal = t.hal
            BY ShortSeqs DEF StructOk
      <2> HIDE DEF s
      <2>2. ASSUME NEW k \in Single
            PROVE  /\ HoldsOne(s.hal, k) /\ ~(Holds(s.hal, k) /\ Tells(list, 0, k))
                   /\ Holds(s.hal, k) \/ Tells(list, 0, k) => Wants(s.cm, k)
                   /\ TellsOnce(list, 0, k) /\ k \in Kinds
            BY <2>1 DEF Pends, PendsOne, Kinds
      <2>3. \A k \in Kinds : Wants(s.cm, k) => Holds(s.hal, k) \/ Tells(list, 0, k)
            BY <2>1 DEF Pends
      <2>4. Serves(s, Rest(0))
            BY <2>1, <2>2, <2>3 DEF Serves
      <2>5. f[0] = s
            BY <1>2 DEF s
      <2> QED BY <1>1, <2>2, <2>4, <2>5
<1> HIDE DEF list, N
<1>4. ASSUME NEW i \in 1 .. N, i - 1 \in T
      PROVE  i \in T
      <2>1. Serves(f[i - 1], Rest(i - 1)) /\ \A k \in Single : TellsOnce(list, i - 1, k)
            BY <1>4
      <2>2. ASSUME NEW k
            PROVE  /\ Tells(list, i - 1, k) <=> Tells(list, i, k) \/ Answers(list[i], k)
                   /\ k \in Single => TellsOnce(list, i, k) /\ ~(Tells(list, i, k) /\ Answers(list[i], k))
            BY <1>1, <2>1, TellsLess DEF N
      <2>3. Rest(i - 1) = Rest(i) \cup AnswerOf(list[i]) /\ Rest(i) \cap AnswerOf(list[i]) \cap Single = {}
            BY <2>2 DEF AnswerOf
      <2>4. f[i] = Handle(f[i - 1], list[i])
            BY <1>2
      <2> HIDE DEF Rest
      <2>5. Serves(f[i - 1], Rest(i) \cup AnswerOf(list[i]))
            BY <2>1, <2>3
      <2>6. Serves(f[i], Rest(i))
            BY <2>3, <2>4, <2>5, HandleServes
      <2> QED BY <1>1, <2>2, <2>6
<1> HIDE DEF T
<1>5. N \in T
      BY <1>1, <1>3, <1>4, CountTo
<1>6. Rest(N) = {}
      BY <1>1, TellsNone DEF N
<1> QED BY <1>2, <1>5, <1>6 DEF T

\* The user: a call is dialled, an action asked for where it is not already.
LEMMA DialServes ==
    ASSUME NEW rest, rest = {}, NEW s, Serves(s, rest), NEW number \in Dialled
    PROVE  Serves(DialIt(s, number), rest)
<1> DEFINE c == [s.cm EXCEPT !.dial = Sent(number),
                             !.tracked = [seen |-> FALSE, dir |-> "Outgoing", number |-> number]]
           d == DialOf(number)
<1>1. CmOk(c) /\ Backed(c) /\ c.query = s.cm.query /\ c.actions = s.cm.actions /\ c.dial = Sent(number)
      BY SomeSent DEF Serves, CmOk, CmFields, Backed
<1>2. DialIt(s, number) = Ask([s EXCEPT !.cm = c], d)
      BY DEF DialIt, Serves, StructOk
<1> HIDE DEF c
<1>3. d \in Asked /\ (\A k : IsFor(d, k) <=> k = number) /\ number \notin Single
      BY NumbersAssumption DEF Asked, DialOf, IsFor, IsUser, Single
<1> HIDE DEF d
<1>4. \A k \in Single : Wants(s.cm, k) \/ IsFor(d, k) => Wants(c, k)
      BY <1>1, <1>3 DEF Wants, Single
<1>5. \A k \in Kinds : Wants(c, k) => Wants(s.cm, k) \/ IsFor(d, k)
      BY <1>1, <1>3, SomeSent DEF Wants
<1>6. \A k \in Single : IsFor(d, k) => ~Holds(s.hal, k) /\ k \notin rest
      BY <1>3
<1>7. Serves(s, rest \cup {}) /\ \A k \in {} : IsFor(d, k)
      BY rest \cup {} = rest
<1>8. Serves([s EXCEPT !.cm = c, !.hal = HalSubmit(@, d)], rest)
      BY <1>1, <1>3, <1>4, <1>5, <1>6, <1>7, Sends, Zenon
<1> QED BY <1>2, <1>8, AskIs, Zenon

LEMMA ActsServes ==
    ASSUME NEW rest, rest = {}, NEW s, Serves(s, rest), NEW action \in {"Answer", "HangUp"}
    PROVE  Serves(Acts(s, action), rest)
<1>1. CASE action \in s.cm.actions
      BY <1>1 DEF Acts
<1>2. ASSUME action \notin s.cm.actions
      PROVE  Serves(Acts(s, action), rest)
      <2> DEFINE c == [s.cm EXCEPT !.actions = @ \cup {action}]  d == Act(action)
      <2>1. /\ CmOk(c) /\ Backed(c) /\ c.query = s.cm.query /\ c.actions = s.cm.actions \cup {action}
            /\ c.dial = s.cm.dial
            BY DEF Serves, CmOk, CmFields, Backed
      <2>2. Acts(s, action) = Ask([s EXCEPT !.cm = c], d)
            BY <1>2 DEF Acts, Serves, StructOk
      <2> HIDE DEF c
      <2>3. d \in Asked /\ \A k : IsFor(d, k) <=> k = action
            BY DEF Asked, Act, IsFor, IsUser
      <2> HIDE DEF d
      <2>4. ~Wants(s.cm, action) /\ action \in Single /\ action # "ListCalls"
            BY <1>2 DEF Wants, Single
      <2>5. ~Holds(s.hal, action)
            BY <2>4 DEF Serves
      <2>6. \A k \in Single : Wants(s.cm, k) \/ IsFor(d, k) => Wants(c, k)
            BY <2>1, <2>3, <2>4 DEF Wants
      <2>7. \A k \in Kinds : Wants(c, k) => Wants(s.cm, k) \/ IsFor(d, k)
            BY <2>1, <2>3, <2>4 DEF Wants
      <2>8. \A k \in Single : IsFor(d, k) => ~Holds(s.hal, k) /\ k \notin rest
            BY <2>3, <2>5
      <2>9. Serves(s, rest \cup {}) /\ \A k \in {} : IsFor(d, k)
            BY rest \cup {} = rest
      <2>10. Serves([s EXCEPT !.cm = c, !.hal = HalSubmit(@, d)], rest)
            BY <2>1, <2>3, <2>6, <2>7, <2>8, <2>9, Sends, Zenon
      <2> QED BY <2>2, <2>10, AskIs, Zenon
<1> QED BY <1>1, <1>2

-----------------------------------------------------------------------------
(* The system. *)

Inv == Serves(Current, {})

LEMMA InvParts ==
    /\ Inv <=> /\ HalOk(hal) /\ SimOk(sim) /\ CmOk(cm) /\ Backed(cm)
               /\ \A k \in Kinds : Wants(cm, k) => Holds(hal, k)
               /\ \A k \in Single : HoldsOne(hal, k) /\ (Holds(hal, k) => Wants(cm, k))
    /\ Inv' <=> /\ HalOk(hal') /\ SimOk(sim') /\ CmOk(cm') /\ Backed(cm')
                /\ \A k \in Kinds : Wants(cm', k) => Holds(hal', k)
                /\ \A k \in Single : HoldsOne(hal', k) /\ (Holds(hal', k) => Wants(cm', k))
<1>1. \A c, h, s :
        LET t == [cm |-> c, hal |-> h, sim |-> s, notices |-> <<>>]
        IN  Serves(t, {}) <=> /\ HalOk(h) /\ SimOk(s) /\ CmOk(c) /\ Backed(c)
                              /\ \A k \in Kinds : Wants(c, k) => Holds(h, k)
                              /\ \A k \in Single : HoldsOne(h, k) /\ (Holds(h, k) => Wants(c, k))
      BY ShortSeqs DEF Serves, StructOk
<1> QED BY <1>1, Zenon DEF Inv, Current

LEMMA BecomesServes ==
    ASSUME NEW t, Serves(t, {}), Becomes(t)
    PROVE  Inv'
<1>1. cm' = t.cm /\ hal' = t.hal /\ sim' = t.sim
      BY DEF Becomes
<1> QED BY <1>1, InvParts DEF Serves, StructOk

LEMMA InitInv == Init => Inv
<1> SUFFICES ASSUME Init PROVE Inv
    OBVIOUS
<1>1. CmOk(cm) /\ Backed(cm)
      BY DEF Init, NewCm, CmOk, CmFields, Backed
<1>2. HalOk(hal) /\ hal.queue = <<>> /\ hal.flight = Idle /\ hal.out = <<>>
      BY ShortSeqs DEF Init, NewHal, HalOk, HalFields
<1>3. SimOk(sim)
      BY NewSimOk DEF Init, SimOk, SimFields
<1>4. ASSUME NEW k
      PROVE  HoldsOne(hal, k) /\ ~Holds(hal, k)
      <2>1. ~Tells(<<>>, 0, k) /\ TellsOnce(<<>>, 0, k)
            BY ShortSeqs, TellsNone
      <2>2. ~Waits(<<>>, k) /\ WaitsOnce(<<>>, k)
            BY DEF Waits, WaitsOnce
      <2>3. ~IsFor(Idle, k)
            BY KindOfCommand
      <2> QED BY <1>2, <2>1, <2>2, <2>3 DEF HoldsOne, Holds
<1>5. ASSUME NEW k
      PROVE  ~Wants(cm, k)
      BY SomeSent DEF Init, NewCm, Wants
<1> QED BY <1>1, <1>2, <1>3, <1>4, <1>5, InvParts

LEMMA OwnerSteps ==
    ASSUME Inv
    PROVE  /\ Step => Inv'
           /\ Tick => Inv'
           /\ \A number \in Dialled : DialNumber(number) => Inv'
           /\ AnswerKey \/ HangUpKey => Inv'
<1>1. Serves(Current, {}) /\ StructOk(Current)
      BY DEF Inv, Serves
<1>2. ASSUME Step
      PROVE  Inv'
      <2> DEFINE t == Stepped(Current, FALSE)
      <2>1. Moves(Current, t)
            BY <1>1, SteppedMoves
      <2>2. ASSUME NEW k \in Kinds
            PROVE  /\ k \in Single => PendsOne(Current, k) /\ (Pends(Current, k) => Wants(cm, k))
                   /\ Wants(cm, k) => Pends(Current, k)
            <3>1. Current.notices = <<>> /\ Current.hal = hal /\ Current.cm = cm
                  BY DEF Current
            <3>2. ~Tells(<<>>, 0, k) /\ TellsOnce(<<>>, 0, k)
                  BY ShortSeqs, TellsNone
            <3>3. /\ k \in Single => HoldsOne(hal, k) /\ (Holds(hal, k) => Wants(cm, k))
                  /\ Wants(cm, k) => Holds(hal, k)
                  BY InvParts
            <3> QED BY <3>1, <3>2, <3>3 DEF Pends, PendsOne
      <2>3. Current.cm = cm /\ CmOk(cm) /\ Backed(cm)
            BY InvParts DEF Current
      <2> HIDE DEF t
      <2>4. /\ StructOk(t) /\ CmOk(t.cm) /\ Backed(t.cm)
            /\ \A k \in Single : PendsOne(t, k) /\ (Pends(t, k) => Wants(t.cm, k))
            /\ \A k \in Kinds : Wants(t.cm, k) => Pends(t, k)
            BY <2>1, <2>2, <2>3 DEF Moves, Kinds
      <2>5. Serves(HandleAll(t), {})
            BY <2>4, HandleAllServes
      <2>6. Once(t, HandleAll) = HandleAll(t)
            <3>1. {HandleAll(x) : x \in {t}} = {HandleAll(t)}
                  OBVIOUS
            <3> QED BY <3>1, TheOnly DEF Once
      <2>7. Becomes(Once(t, HandleAll))
            BY <1>2 DEF Step, t
      <2>8. Becomes(HandleAll(t))
            BY <2>6, <2>7
      <2> QED BY <2>5, <2>8, BecomesServes
<1>3. ASSUME Tick
      PROVE  Inv'
      <2>1. ~cm.query
            BY <1>3 DEF Tick, Polls
      <2>2. ~Wants(cm, "ListCalls") /\ "ListCalls" \in Single
            BY <2>1 DEF Wants, Single
      <2>3. ~Holds(Current.hal, "ListCalls")
            BY <2>2, InvParts DEF Current
      <2>4. Serves(Current, {} \cup {})
            BY <1>1, {} \cup {} = {}
      <2>5. Serves(SubmitQuery(Current), {})
            BY <2>3, <2>4, SubmitQueryServes
      <2> QED BY <1>3, <2>5, BecomesServes DEF Tick
<1>4. ASSUME NEW number \in Dialled, DialNumber(number)
      PROVE  Inv'
      BY <1>1, <1>4, DialServes, BecomesServes DEF DialNumber
<1>5. ASSUME AnswerKey \/ HangUpKey
      PROVE  Inv'
      <2>1. Becomes(Acts(Current, "Answer")) \/ Becomes(Acts(Current, "HangUp"))
            BY <1>5 DEF AnswerKey, HangUpKey
      <2>2. Serves(Acts(Current, "Answer"), {}) /\ Serves(Acts(Current, "HangUp"), {})
            BY <1>1, ActsServes
      <2> QED BY <2>1, <2>2, BecomesServes
<1> QED BY <1>2, <1>3, <1>4, <1>5

LEMMA WorldSteps ==
    ASSUME Inv
    PROVE  /\ \A lane \in Lanes : ModemSteps(lane) => Inv'
           /\ \A number \in Callers : Rings(number) => Inv'
           /\ FarEnd \/ Drop \/ PowerCut \/ PowerBack => Inv'
<1>1. SimOk(sim)
      BY InvParts
<1>2. ASSUME cm' = cm, hal' = hal, SimOk(sim')
      PROVE  Inv'
      BY <1>2, InvParts
<1>3. ASSUME NEW lane \in Lanes, ModemSteps(lane)
      PROVE  Inv'
      BY <1>1, <1>2, <1>3, AdvanceOk DEF ModemSteps
<1>4. ASSUME NEW number \in Callers, Rings(number)
      PROVE  Inv'
      <2>1. SimOk(sim')
            BY <1>1, <1>4, IncomingCallOk DEF Rings
      <2> QED BY <1>2, <1>4, <2>1 DEF Rings
<1>5. ASSUME FarEnd
      PROVE  Inv'
      BY <1>1, <1>2, <1>5, FarEndOk DEF FarEnd
<1>6. ASSUME Drop
      PROVE  Inv'
      <2>1. Chunks([sim.rx EXCEPT ![1] = Lost])
            BY <1>1, <1>6, ChunksParts, OthersOk DEF SimOk, Drop
      <2>2. sim' = [sim EXCEPT !.rx = [sim.rx EXCEPT ![1] = Lost]]
            BY <1>6 DEF Drop
      <2>3. SimOk(sim')
            BY <1>1, <2>1, <2>2 DEF SimOk, SimFields
      <2> QED BY <1>2, <1>6, <2>3 DEF Drop
<1>7. ASSUME PowerCut
      PROVE  Inv'
      BY <1>1, <1>2, <1>7, ShutDownOk DEF PowerCut
<1>8. ASSUME PowerBack
      PROVE  Inv'
      BY <1>1, <1>2, <1>8, PowerOnOk DEF PowerBack
<1> QED BY <1>3, <1>4, <1>5, <1>6, <1>7, <1>8

LEMMA StepInv == Inv /\ [Next]_vars => Inv'
<1> SUFFICES ASSUME Inv, [Next]_vars PROVE Inv'
    OBVIOUS
<1>1. CASE Next
      BY <1>1, OwnerSteps, WorldSteps DEF Next
<1>2. CASE UNCHANGED vars
      BY <1>2, InvParts DEF vars
<1> QED BY <1>1, <1>2

\* What is in one place of the three counts once, what is in none not at all.
LEMMA OneInPlace ==
    ASSUME HalOk(hal), NEW k
    PROVE  /\ HoldsOne(hal, k) => Underway(k) = IF Holds(hal, k) THEN 1 ELSE 0
           /\ Holds(hal, k) => Underway(k) > 0
<1> DEFINE Q == {i \in DOMAIN hal.queue : IsFor(hal.queue[i], k)}
           A == {i \in DOMAIN hal.out : hal.out[i].o = "Done" /\ hal.out[i].id = k}
           f == IF IsFor(hal.flight, k) THEN 1 ELSE 0
<1>1. /\ Len(hal.queue) \in Nat /\ DOMAIN hal.queue = 1 .. Len(hal.queue)
      /\ Len(hal.out) \in Nat /\ DOMAIN hal.out = 1 .. Len(hal.out)
      BY IsSeqParts DEF HalOk
<1>2. IsFiniteSet(Q) /\ IsFiniteSet(A)
      <2>1. IsFiniteSet(1 .. Len(hal.queue)) /\ IsFiniteSet(1 .. Len(hal.out))
            BY <1>1, FS_Interval
      <2> QED BY <1>1, <2>1, FS_Subset
<1>3. Underway(k) = Cardinality(Q) + f + Cardinality(A)
      BY DEF Underway
<1>4. /\ Waits(hal.queue, k) <=> Q # {}
      /\ Tells(hal.out, 0, k) <=> A # {}
      BY <1>1 DEF Waits, Tells, Answers
<1>5. ASSUME HoldsOne(hal, k)
      PROVE  (\A i, j \in Q : i = j) /\ (\A i, j \in A : i = j)
      BY <1>1, <1>5 DEF HoldsOne, WaitsOnce, TellsOnce, Answers
<1>6. /\ Holds(hal, k) <=> Q # {} \/ f = 1 \/ A # {}
      /\ HoldsOne(hal, k) => ~(Q # {} /\ f = 1) /\ ~(Q # {} /\ A # {}) /\ ~(f = 1 /\ A # {})
      BY <1>4 DEF Holds, HoldsOne
<1>7. f \in {0, 1}
      OBVIOUS
<1> HIDE DEF Q, A, f
<1>8. ASSUME NEW S, IsFiniteSet(S)
      PROVE  /\ Cardinality(S) \in Nat /\ (Cardinality(S) = 0 <=> S = {})
             /\ S # {} /\ (\A i, j \in S : i = j) => Cardinality(S) = 1
      <2>1. ASSUME S # {}, \A i, j \in S : i = j
            PROVE  Cardinality(S) = 1
            <3>1. PICK i : S = {i}
                  BY <2>1
            <3> QED BY <3>1, FS_Singleton
      <2> QED BY <1>8, <2>1, FS_CardinalityType, FS_EmptySet
<1>9. Cardinality(Q) \in Nat /\ Cardinality(A) \in Nat
      BY <1>2, <1>8
<1>10. (Cardinality(Q) = 0 <=> Q = {}) /\ (Cardinality(A) = 0 <=> A = {})
      BY <1>2, <1>8
<1>11. ASSUME HoldsOne(hal, k)
       PROVE  (Q # {} => Cardinality(Q) = 1) /\ (A # {} => Cardinality(A) = 1)
       BY <1>2, <1>5, <1>8, <1>11
<1> QED BY <1>3, <1>6, <1>7, <1>9, <1>10, <1>11

LEMMA InvAwaited == Inv => Awaited
<1> SUFFICES ASSUME Inv PROVE Awaited
    OBVIOUS
<1>1. /\ HalOk(hal) /\ CmOk(cm) /\ Backed(cm)
      /\ \A k \in Kinds : Wants(cm, k) => Holds(hal, k)
      /\ \A k \in Single : HoldsOne(hal, k) /\ (Holds(hal, k) => Wants(cm, k))
      BY InvParts
<1>2. ASSUME NEW k \in Single
      PROVE  Underway(k) = IF Wants(cm, k) THEN 1 ELSE 0
      <2>1. k \in Kinds
            BY DEF Kinds
      <2> QED BY <1>1, <2>1, OneInPlace
<1>3. Underway("ListCalls") = IF cm.query THEN 1 ELSE 0
      BY <1>2 DEF Single, Wants
<1>4. ASSUME NEW action \in {"Answer", "HangUp"}
      PROVE  Underway(action) = IF action \in cm.actions THEN 1 ELSE 0
      BY <1>2 DEF Single, Wants
<1>5. ASSUME NEW number \in Dialled, cm.dial = Sent(number)
      PROVE  Underway(number) > 0
      <2>1. number \in Kinds /\ Wants(cm, number)
            BY <1>5, NumbersAssumption DEF Kinds, Single, Wants
      <2> QED BY <1>1, <2>1, OneInPlace
<1> QED BY <1>1, <1>3, <1>4, <1>5 DEF Awaited, Backed

\* The service waits for an answer exactly as long as one is to come, and has
\* asked once, whatever the network does, whatever is lost and whenever the
\* modem's power is cut.
THEOREM EveryAnswerAwaited == Spec => []Awaited
<1>1. Init => Inv
      BY InitInv
<1>2. Inv /\ [Next]_vars => Inv'
      BY StepInv
<1>3. Inv => Awaited
      BY InvAwaited
<1> QED BY <1>1, <1>2, <1>3, PTL DEF Spec
=============================================================================
