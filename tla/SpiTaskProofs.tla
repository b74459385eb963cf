--------------------------- MODULE SpiTaskProofs ---------------------------
(***************************************************************************)
(* The spi task never breaks the rules of the wire and the controller, and *)
(* keeps every device's turn, whatever is asked and whatever fails.        *)
(* First, what the plan of a request does to the panel when its steps are  *)
(* carried out, for every screen, region, image and chunk size.            *)
(***************************************************************************)
EXTENDS SpiTask, FiniteSetTheorems, SequenceTheorems, TLAPS

-----------------------------------------------------------------------------
(* Regions: their bytes, row by row *)

\* The position of a cell in a region
Place(b, c) == (c[2] - b.y0) * (b.x1 - b.x0) + (c[1] - b.x0)

LEMMA Quotients ==
    ASSUME NEW w \in Nat \ {0}, NEW d \in Nat
    PROVE  /\ d \div w \in Nat /\ d % w \in 0 .. w - 1
           /\ d = (d \div w) * w + (d % w)
OBVIOUS

LEMMA Remainders ==
    ASSUME NEW w \in Nat \ {0}, NEW q \in Nat, NEW r \in 0 .. w - 1
    PROVE  (q * w + r) \div w = q /\ (q * w + r) % w = r
OBVIOUS

\* Rows of w places: those of a place in h rows, and of an edge of them
LEMMA Rows ==
    ASSUME NEW w \in Nat \ {0}, NEW h \in Nat \ {0}, NEW q \in Nat, NEW r \in 0 .. w - 1
    PROVE  /\ q < h => q * w + r \in 0 .. w * h - 1
           /\ q * w + r < w * h => q < h
<1>1. q * w \in Nat /\ h * w \in Nat /\ w * h = h * w
      OBVIOUS
<1>2. ASSUME q < h PROVE q * w + w <= h * w
      BY <1>2
<1>3. ASSUME h <= q PROVE h * w <= q * w
      BY <1>3
<1> QED BY <1>1, <1>2, <1>3

LEMMA RegionSize ==
    ASSUME NEW b \in Region
    PROVE  /\ b.x1 - b.x0 \in Nat \ {0} /\ b.y1 - b.y0 \in Nat \ {0}
           /\ b.x0 \in Nat /\ b.y0 \in Nat /\ b.x1 \in Nat /\ b.y1 \in Nat
           /\ b.x1 <= BYTES_PER_ROW /\ b.y1 <= HEIGHT
           /\ Area(b) \in Nat \ {0}
<1>1. /\ b.x1 - b.x0 \in Nat \ {0} /\ b.y1 - b.y0 \in Nat \ {0}
      /\ b.x0 \in Nat /\ b.y0 \in Nat /\ b.x1 \in Nat /\ b.y1 \in Nat
      /\ b.x1 <= BYTES_PER_ROW /\ b.y1 <= HEIGHT
      BY SizeAssumption DEF Region, Box
<1>2. \A v, w \in Nat \ {0} : v * w \in Nat \ {0}
      OBVIOUS
<1> QED BY <1>1, <1>2 DEF Area

\* Places and cells of a region correspond.
LEMMA PlaceOfCell ==
    ASSUME NEW b \in Region, NEW i \in 0 .. Area(b) - 1
    PROVE  CellAt(b, i) \in Inside(b) /\ Place(b, CellAt(b, i)) = i
<1> DEFINE w == b.x1 - b.x0
           h == b.y1 - b.y0
<1>1. /\ w \in Nat \ {0} /\ h \in Nat \ {0} /\ i \in Nat /\ i < w * h
      /\ b.x0 \in Nat /\ b.y0 \in Nat /\ b.x1 \in Nat /\ b.y1 \in Nat
      /\ b.x1 <= BYTES_PER_ROW /\ b.y1 <= HEIGHT
      BY RegionSize DEF Area
<1>2. b.x0 + w = b.x1 /\ b.y0 + h = b.y1
      BY <1>1
<1>3. CellAt(b, i) = <<b.x0 + (i % w), b.y0 + (i \div w)>>
      BY DEF CellAt
<1> HIDE DEF w, h
<1> DEFINE q == i \div w
           r == i % w
<1>4. q \in Nat /\ r \in 0 .. w - 1 /\ i = q * w + r
      BY <1>1, Quotients
<1>5. CellAt(b, i) = <<b.x0 + r, b.y0 + q>>
      BY <1>3
<1> HIDE DEF q, r
<1>6. q < h
      BY <1>1, <1>4, Rows
<1>7. CellAt(b, i) \in Inside(b)
      BY <1>1, <1>2, <1>4, <1>5, <1>6, SizeAssumption DEF Inside, Cells
<1>8. Place(b, CellAt(b, i)) = ((b.y0 + q) - b.y0) * w + ((b.x0 + r) - b.x0)
      BY <1>5 DEF Place, w
<1>9. (b.y0 + q) - b.y0 = q /\ (b.x0 + r) - b.x0 = r
      BY <1>1, <1>4
<1> QED BY <1>4, <1>7, <1>8, <1>9

LEMMA CellOfPlace ==
    ASSUME NEW b \in Region, NEW c \in Inside(b)
    PROVE  Place(b, c) \in 0 .. Area(b) - 1 /\ CellAt(b, Place(b, c)) = c
<1> DEFINE w == b.x1 - b.x0
           h == b.y1 - b.y0
           q == c[2] - b.y0
           r == c[1] - b.x0
<1>1. /\ w \in Nat \ {0} /\ h \in Nat \ {0}
      /\ b.x0 \in Nat /\ b.y0 \in Nat /\ b.x1 \in Nat /\ b.y1 \in Nat
      BY RegionSize
<1>2. c[1] \in Nat /\ c[2] \in Nat /\ c = <<c[1], c[2]>>
      BY SizeAssumption DEF Inside, Cells
<1>3. q \in 0 .. h - 1 /\ r \in 0 .. w - 1 /\ b.x0 + r = c[1] /\ b.y0 + q = c[2]
      <2>1. b.x0 <= c[1] /\ c[1] < b.x1 /\ b.y0 <= c[2] /\ c[2] < b.y1
            BY DEF Inside
      <2>2. b.x1 \in Nat /\ b.y1 \in Nat
            BY RegionSize
      <2> QED BY <1>1, <1>2, <2>1, <2>2
<1>4. Place(b, c) = q * w + r /\ Area(b) = w * h
      BY DEF Place, Area
<1> HIDE DEF q, r
<1>5. CellAt(b, Place(b, c)) = <<b.x0 + ((q * w + r) % w), b.y0 + ((q * w + r) \div w)>>
      BY <1>4 DEF CellAt
<1> HIDE DEF w, h
<1>6. (q * w + r) \div w = q /\ (q * w + r) % w = r
      <2>1. q \in Nat /\ r \in 0 .. w - 1 /\ w \in Nat \ {0}
            BY <1>1, <1>3
      <2> QED BY <2>1, Remainders
<1>7. q * w + r \in 0 .. w * h - 1
      BY <1>1, <1>3, Rows
<1> QED BY <1>2, <1>3, <1>4, <1>5, <1>6, <1>7

-----------------------------------------------------------------------------
(* The controller and the steps of a plan *)

Command ==
    {"Psr", "Window", "Cascade", "Temperature", "Vcom", "Old", "New",
     "PowerOn", "PowerOff", "Refresh", "PartialIn", "PartialOut"}
StepType ==
    {Busy} \cup [t : {"Set"}, flag : {"init", "power", "known"}, on : BOOLEAN]
    \cup [t : {"Cmd"}, c : Command]
    \cup [t : {"Params"}, reset : BOOLEAN, window : Box \cup {NoBox}]
    \cup [t : {"Data"}, bytes : Seq(Ink)]

PanelType ==
    [cmd : WithArguments \cup {"None"}, powered : BOOLEAN, partial : BOOLEAN,
     window : Box \cup {NoBox}, pos : Nat, old : Image, new : Image, screen : Image,
     busy : {"No", "Lag", "Low"}]

LEMMA BytesType ==
    ASSUME NEW b \in Region, NEW image \in Image
    PROVE  /\ Bytes(b, image) \in Seq(Ink) /\ Len(Bytes(b, image)) = Area(b)
           /\ \A i \in 1 .. Area(b) : Bytes(b, image)[i] = image[CellAt(b, i - 1)]
<1>1. Area(b) \in Nat
      BY RegionSize
<1>2. \A i \in 1 .. Area(b) : image[CellAt(b, i - 1)] \in Ink
      <2> SUFFICES ASSUME NEW i \in 1 .. Area(b) PROVE image[CellAt(b, i - 1)] \in Ink
          OBVIOUS
      <2>1. i - 1 \in 0 .. Area(b) - 1
            BY <1>1
      <2>2. CellAt(b, i - 1) \in Cells
            BY <2>1, PlaceOfCell DEF Inside
      <2> QED BY <2>2 DEF Image
<1> QED BY <1>1, <1>2 DEF Bytes

\* A part of a region's bytes
LEMMA PartType ==
    ASSUME NEW b \in Region, NEW image \in Image,
           NEW lo \in Nat, NEW hi \in Nat, lo < hi, hi <= Area(b)
    PROVE  /\ SubSeq(Bytes(b, image), lo + 1, hi) \in Seq(Ink)
           /\ Len(SubSeq(Bytes(b, image), lo + 1, hi)) = hi - lo
           /\ \A j \in 1 .. hi - lo :
                 SubSeq(Bytes(b, image), lo + 1, hi)[j] = image[CellAt(b, lo + j - 1)]
<1> DEFINE s == Bytes(b, image)
<1>1. s \in Seq(Ink) /\ Len(s) = Area(b) /\ Area(b) \in Nat
      BY BytesType, RegionSize
<1>2. \A j \in 1 .. hi - lo : lo + j \in 1 .. Area(b) /\ (lo + j) - 1 = lo + j - 1
      BY <1>1
<1>3. \A j \in 1 .. hi - lo : s[lo + j] = image[CellAt(b, lo + j - 1)]
      <2> SUFFICES ASSUME NEW j \in 1 .. hi - lo PROVE s[lo + j] = image[CellAt(b, lo + j - 1)]
          OBVIOUS
      <2>1. s[lo + j] = image[CellAt(b, (lo + j) - 1)]
            BY <1>2, BytesType
      <2> QED BY <1>2, <2>1
<1> HIDE DEF s
<1>4. /\ SubSeq(s, lo + 1, hi) \in Seq(Ink) /\ Len(SubSeq(s, lo + 1, hi)) = hi - lo
      /\ \A j \in 1 .. hi - lo : SubSeq(s, lo + 1, hi)[j] = s[lo + j]
      BY <1>1, SMTT(30)
<1>5. \A j \in 1 .. hi - lo : SubSeq(s, lo + 1, hi)[j] = image[CellAt(b, lo + j - 1)]
      BY <1>3, <1>4
<1> QED BY <1>4, <1>5 DEF s

\* `image` over `under` in region b from place lo to before place hi
Painted(under, b, image, lo, hi) ==
    [c \in Cells |-> IF c \in Inside(b) /\ lo <= Place(b, c) /\ Place(b, c) < hi
                       THEN image[c] ELSE under[c]]

\* Bytes lo + 1 to hi of a region
IsPart(part, b, image, lo, hi) ==
    /\ lo \in Nat /\ hi \in Nat /\ lo < hi /\ hi <= Area(b)
    /\ part = SubSeq(Bytes(b, image), lo + 1, hi)
PartStored(p, b, image, lo, hi) ==
    [p EXCEPT !.pos = hi,
              !.old = IF p.cmd = "Old" THEN Painted(@, b, image, lo, hi) ELSE @,
              !.new = IF p.cmd = "New" THEN Painted(@, b, image, lo, hi) ELSE @]

\* A part stored goes to its place.
LEMMA StoredPart ==
    ASSUME NEW p \in PanelType, NEW b \in Region, NEW image \in Image, Target(p) = b,
           NEW lo, NEW hi, p.pos = lo, NEW part, IsPart(part, b, image, lo, hi)
    PROVE  Stored(p, part) = PartStored(p, b, image, lo, hi)
<1>0. lo \in Nat /\ hi \in Nat /\ lo < hi /\ hi <= Area(b) /\ part = SubSeq(Bytes(b, image), lo + 1, hi)
      BY DEF IsPart
<1>1. /\ Len(part) = hi - lo
      /\ \A j \in 1 .. hi - lo : part[j] = image[CellAt(b, lo + j - 1)]
      <2>1. lo \in Nat /\ hi \in Nat /\ lo < hi /\ hi <= Area(b)
            BY <1>0
      <2>2. Len(SubSeq(Bytes(b, image), lo + 1, hi)) = hi - lo
            BY <2>1, PartType
      <2>3. \A j \in 1 .. hi - lo : SubSeq(Bytes(b, image), lo + 1, hi)[j] = image[CellAt(b, lo + j - 1)]
            BY <2>1, PartType, SMTT(30)
      <2> QED BY <1>0, <2>2, <2>3
<1> DEFINE there == [d \in 1 .. Len(part) |-> CellAt(Target(p), p.pos + d - 1)]
           Over(img) == [c \in Cells |->
               IF \E d \in DOMAIN there : there[d] = c
                 THEN part[CHOOSE d \in DOMAIN there : there[d] = c] ELSE img[c]]
<1>2. DOMAIN there = 1 .. hi - lo /\ \A d \in 1 .. hi - lo : there[d] = CellAt(b, lo + d - 1)
      BY <1>1
<1> HIDE DEF there
<1>3. ASSUME NEW c \in Cells, c \in Inside(b), lo <= Place(b, c), Place(b, c) < hi
      PROVE  /\ \E d \in DOMAIN there : there[d] = c
             /\ part[CHOOSE d \in DOMAIN there : there[d] = c] = image[c]
      <2> DEFINE j == Place(b, c) - lo + 1
      <2>1. Place(b, c) \in Nat /\ CellAt(b, Place(b, c)) = c
            BY <1>0, <1>3, CellOfPlace, RegionSize
      <2>2. j \in 1 .. hi - lo /\ lo + j - 1 = Place(b, c)
            BY <1>0, <1>3, <2>1
      <2>3. j \in DOMAIN there /\ there[j] = c
            BY <1>2, <2>1, <2>2
      <2> HIDE DEF j
      <2>4. \A d \in DOMAIN there : there[d] = c => part[d] = image[c]
            BY <1>1, <1>2
      <2> QED BY <2>3, <2>4
<1>4. ASSUME NEW c \in Cells, NEW d \in DOMAIN there, there[d] = c
      PROVE  c \in Inside(b) /\ lo <= Place(b, c) /\ Place(b, c) < hi
      <2>1. lo + d - 1 \in 0 .. Area(b) - 1 /\ lo + d - 1 < hi /\ lo <= lo + d - 1
            BY <1>0, <1>2, RegionSize
      <2>2. c \in Inside(b) /\ Place(b, c) = lo + d - 1
            BY <1>2, <1>4, <2>1, PlaceOfCell
      <2> QED BY <2>1, <2>2
<1>5. \A img : Over(img) = Painted(img, b, image, lo, hi)
      <2> SUFFICES ASSUME NEW img PROVE Over(img) = Painted(img, b, image, lo, hi)
          OBVIOUS
      <2>1. \A c \in Cells : Over(img)[c] = Painted(img, b, image, lo, hi)[c]
            BY <1>3, <1>4 DEF Painted
      <2> QED BY <2>1 DEF Painted
<1>6. p.pos + Len(part) = hi
      BY <1>0, <1>1
<1>7. Stored(p, part) = [p EXCEPT !.pos = @ + Len(part),
                                  !.old = IF p.cmd = "Old" THEN Over(@) ELSE @,
                                  !.new = IF p.cmd = "New" THEN Over(@) ELSE @]
      BY DEF Stored, there
<1> HIDE DEF Over
<1> QED BY <1>5, <1>6, <1>7 DEF PartStored

-----------------------------------------------------------------------------
(* One step: the controller and what the protocol believes of it *)

Machine == [p : PanelType, init : BOOLEAN, power : BOOLEAN, known : BOOLEAN]

\* What the end of a step leaves
Effect(m, s) ==
    CASE IsTx(s) -> [m EXCEPT !.p = Took(m.p, s)]
      [] s.t = "Busy" -> [m EXCEPT !.p = [m.p EXCEPT !.busy = "No"]]
      [] s.t = "Set" -> [m EXCEPT ![s.flag] = s.on]

\* What a step of request q demands: nothing is misused, power-on and refresh
\* are for draws, a refresh is for the region of the draw.
Allowed(q, m, s) ==
    /\ s.t # "Busy" => m.p.busy = "No"
    /\ IsTx(s) => Misuse(m.p, s) = {}
    /\ s = Cmd("PowerOn") => q.op = "Draw"
    /\ s = Cmd("Refresh") => q.op = "Draw" /\ Inside(Target(m.p)) \subseteq Inside(q.flush.box)

LEMMA CommandedType ==
    ASSUME NEW p \in PanelType, NEW c \in Command
    PROVE  Commanded(p, c) \in PanelType
<1> DEFINE q == [p EXCEPT !.cmd = IF c \in WithArguments THEN c ELSE "None"]
<1>1. q \in PanelType
      BY DEF PanelType
<1>2. Refreshed(q) \in PanelType
      <2>1. \A x \in Ink : Ghost(x) \in Ink
            BY DEF Ghost, Ink
      <2>2. q.old \in Image /\ q.new \in Image /\ q.screen \in Image
            BY <1>1 DEF PanelType
      <2> HIDE DEF q
      <2>3. [x \in Cells |->
                  IF x \notin Inside(Target(q)) THEN q.screen[x]
                    ELSE IF q.partial /\ q.old[x] # q.screen[x] THEN Ghost(q.new[x])
                    ELSE q.new[x]] \in Image
            BY <2>1, <2>2 DEF Image
      <2> QED BY <1>1, <2>3 DEF Refreshed, PanelType
<1> HIDE DEF q
<1>3. /\ [q EXCEPT !.pos = 0] \in PanelType
      /\ [q EXCEPT !.powered = (c = "PowerOn"), !.busy = "Lag"] \in PanelType
      /\ [q EXCEPT !.partial = (c = "PartialIn")] \in PanelType
      BY <1>1 DEF PanelType
<1> QED BY <1>1, <1>2, <1>3 DEF Commanded, q

LEMMA ExecutedType ==
    ASSUME NEW p \in PanelType, NEW s \in [t : {"Params"}, reset : BOOLEAN, window : Box \cup {NoBox}]
    PROVE  Executed(p, s) \in PanelType
BY DEF Executed, PanelType

LEMMA StoredType ==
    ASSUME NEW p \in PanelType, NEW bytes \in Seq(Ink)
    PROVE  /\ Stored(p, bytes) \in PanelType
           /\ Stored(p, bytes).screen = p.screen /\ Stored(p, bytes).powered = p.powered
           /\ Stored(p, bytes).busy = p.busy
<1> DEFINE there == [d \in 1 .. Len(bytes) |-> CellAt(Target(p), p.pos + d - 1)]
           Over(img) == [c \in Cells |->
               IF \E d \in DOMAIN there : there[d] = c
                 THEN bytes[CHOOSE d \in DOMAIN there : there[d] = c] ELSE img[c]]
<1>1. Len(bytes) \in Nat /\ DOMAIN there = 1 .. Len(bytes) /\ \A d \in 1 .. Len(bytes) : bytes[d] \in Ink
      OBVIOUS
<1>2. Stored(p, bytes) = [p EXCEPT !.pos = @ + Len(bytes),
                                   !.old = IF p.cmd = "Old" THEN Over(@) ELSE @,
                                   !.new = IF p.cmd = "New" THEN Over(@) ELSE @]
      BY DEF Stored
<1> HIDE DEF there
<1>3. \A img \in Image : Over(img) \in Image
      <2> SUFFICES ASSUME NEW img \in Image, NEW c \in Cells
                   PROVE  (IF \E d \in DOMAIN there : there[d] = c
                             THEN bytes[CHOOSE d \in DOMAIN there : there[d] = c] ELSE img[c]) \in Ink
          BY DEF Image
      <2>1. img[c] \in Ink
            BY DEF Image
      <2>2. ASSUME \E d \in DOMAIN there : there[d] = c
            PROVE  (CHOOSE d \in DOMAIN there : there[d] = c) \in 1 .. Len(bytes)
            BY <1>1, <2>2
      <2> QED BY <1>1, <2>1, <2>2
<1> HIDE DEF Over
<1> DEFINE old == IF p.cmd = "Old" THEN Over(p.old) ELSE p.old
           new == IF p.cmd = "New" THEN Over(p.new) ELSE p.new
           pos == p.pos + Len(bytes)
<1>4. old \in Image /\ new \in Image /\ pos \in Nat
      BY <1>1, <1>3 DEF PanelType
<1>5. Stored(p, bytes) = [p EXCEPT !.pos = pos, !.old = old, !.new = new]
      BY <1>2
<1> HIDE DEF old, new, pos
<1> QED BY <1>4, <1>5 DEF PanelType

LEMMA EffectType ==
    ASSUME NEW m \in Machine, NEW s \in StepType
    PROVE  Effect(m, s) \in Machine
<1>1. CASE s.t = "Cmd"
      <2>1. s.c \in Command /\ Took(m.p, s) = Commanded(m.p, s.c)
            BY <1>1 DEF StepType, Busy, Took
      <2> QED BY <1>1, <2>1, CommandedType DEF Effect, IsTx, Machine
<1>2. CASE s.t = "Params"
      <2>1. s \in [t : {"Params"}, reset : BOOLEAN, window : Box \cup {NoBox}]
            BY <1>2 DEF StepType, Busy
      <2>2. Took(m.p, s) = Executed(m.p, s)
            BY <1>2 DEF Took
      <2> QED BY <1>2, <2>1, <2>2, ExecutedType DEF Effect, IsTx, Machine
<1>3. CASE s.t = "Data"
      <2>1. s.bytes \in Seq(Ink) /\ Took(m.p, s) = Stored(m.p, s.bytes)
            BY <1>3 DEF StepType, Busy, Took
      <2> QED BY <1>3, <2>1, StoredType DEF Effect, IsTx, Machine
<1>4. CASE s.t = "Busy"
      BY <1>4 DEF Effect, IsTx, Machine, PanelType
<1>5. CASE s.t = "Set"
      <2>1. s.flag \in {"init", "power", "known"} /\ s.on \in BOOLEAN
            BY <1>5 DEF StepType, Busy
      <2> QED BY <1>5, <2>1 DEF Effect, IsTx, Machine
<1>6. s.t \in {"Busy", "Set", "Cmd", "Params", "Data"}
      BY DEF StepType, Busy
<1> QED BY <1>1, <1>2, <1>3, <1>4, <1>5, <1>6

-----------------------------------------------------------------------------
(* Steps one after the other *)

\* r is what there is before, between and after the steps of s.
Traces(q, s, r) ==
    /\ r \in [0 .. Len(s) -> Machine]
    /\ \A i \in 1 .. Len(s) : Allowed(q, r[i - 1], s[i]) /\ r[i] = Effect(r[i - 1], s[i])

\* The steps s may be taken one after the other from m, and lead to n.
Runs(q, m, s, n) ==
    /\ s \in Seq(StepType)
    /\ \E r : Traces(q, s, r) /\ r[0] = m /\ r[Len(s)] = n

LEMMA RunsType ==
    ASSUME NEW q, NEW m, NEW s, NEW n, Runs(q, m, s, n)
    PROVE  m \in Machine /\ n \in Machine /\ s \in Seq(StepType) /\ Len(s) \in Nat
<1>1. PICK r : Traces(q, s, r) /\ r[0] = m /\ r[Len(s)] = n
      BY DEF Runs
<1>2. Len(s) \in Nat /\ s \in Seq(StepType)
      BY DEF Runs
<1> QED BY <1>1, <1>2 DEF Traces

LEMMA RunsNone ==
    ASSUME NEW q, NEW m \in Machine
    PROVE  Runs(q, m, <<>>, m)
<1> DEFINE r == [i \in 0 .. 0 |-> m]
<1>1. Traces(q, <<>>, r) /\ r[0] = m
      BY DEF Traces
<1> QED BY <1>1 DEF Runs

LEMMA RunsOne ==
    ASSUME NEW q, NEW m \in Machine, NEW x \in StepType, Allowed(q, m, x)
    PROVE  Runs(q, m, <<x>>, Effect(m, x))
<1> DEFINE r == [i \in 0 .. 1 |-> IF i = 0 THEN m ELSE Effect(m, x)]
<1>1. Effect(m, x) \in Machine
      BY EffectType
<1>2. r \in [0 .. 1 -> Machine] /\ r[0] = m /\ r[1] = Effect(m, x)
      BY <1>1
<1> HIDE DEF r
<1>3. \A i \in 1 .. 1 : i = 1 /\ i - 1 = 0
      OBVIOUS
<1>4. Len(<<x>>) = 1 /\ <<x>>[1] = x /\ <<x>> \in Seq(StepType)
      OBVIOUS
<1>5. Traces(q, <<x>>, r)
      BY <1>2, <1>3, <1>4 DEF Traces
<1> QED BY <1>2, <1>4, <1>5 DEF Runs

LEMMA RunsThen ==
    ASSUME NEW q, NEW m, NEW a, NEW n, NEW b, NEW o, Runs(q, m, a, n), Runs(q, n, b, o)
    PROVE  Runs(q, m, a \o b, o)
<1>1. PICK r : Traces(q, a, r) /\ r[0] = m /\ r[Len(a)] = n
      BY DEF Runs
<1>2. PICK t : Traces(q, b, t) /\ t[0] = n /\ t[Len(b)] = o
      BY DEF Runs
<1>3. a \in Seq(StepType) /\ b \in Seq(StepType) /\ Len(a) \in Nat /\ Len(b) \in Nat
      BY DEF Runs
<1> DEFINE ab == a \o b
           d == Len(a)
           l == Len(b)
           u == [i \in 0 .. d + l |-> IF i <= d THEN r[i] ELSE t[i - d]]
<1>4. /\ ab \in Seq(StepType) /\ Len(ab) = d + l
      /\ \A i \in 1 .. d : ab[i] = a[i]
      /\ \A i \in d + 1 .. d + l : ab[i] = b[i - d]
      BY <1>3
<1>5. /\ r \in [0 .. d -> Machine] /\ t \in [0 .. l -> Machine]
      /\ \A i \in 1 .. d : Allowed(q, r[i - 1], a[i]) /\ r[i] = Effect(r[i - 1], a[i])
      /\ \A i \in 1 .. l : Allowed(q, t[i - 1], b[i]) /\ t[i] = Effect(t[i - 1], b[i])
      BY <1>1, <1>2 DEF Traces
<1> HIDE DEF ab
<1>6. d \in Nat /\ l \in Nat /\ r[d] = n /\ t[0] = n /\ t[l] = o /\ r[0] = m
      BY <1>1, <1>2, <1>3
<1> HIDE DEF d, l
<1>7. u \in [0 .. d + l -> Machine] /\ u[0] = m /\ u[d + l] = o
      <2>1. \A i \in 0 .. d + l : i <= d \/ i - d \in 0 .. l
            BY <1>6
      <2>2. \A i \in 0 .. d + l : i <= d => i \in 0 .. d
            BY <1>6
      <2>3. u \in [0 .. d + l -> Machine]
            BY <1>5, <2>1, <2>2
      <2>4. u[0] = m /\ u[d + l] = o
            <3>1. 0 \in 0 .. d + l /\ d + l \in 0 .. d + l /\ 0 <= d
                  BY <1>6
            <3>2. u[0] = r[0] /\ u[d + l] = IF d + l <= d THEN r[d + l] ELSE t[(d + l) - d]
                  BY <3>1
            <3>3. (d + l) - d = l /\ (d + l <= d => l = 0 /\ d + l = d)
                  BY <1>6
            <3> HIDE DEF u
            <3> QED BY <1>6, <3>2, <3>3
      <2> QED BY <2>3, <2>4
<1>8. ASSUME NEW i \in 1 .. d + l
      PROVE  Allowed(q, u[i - 1], ab[i]) /\ u[i] = Effect(u[i - 1], ab[i])
      <2>1. CASE i <= d
            <3>1. i \in 1 .. d /\ i - 1 \in 0 .. d /\ i \in 0 .. d + l /\ i - 1 \in 0 .. d + l /\ i - 1 <= d
                  BY <1>6, <2>1
            <3> QED BY <1>4, <1>5, <2>1, <3>1
      <2>2. CASE i > d
            <3>1. /\ i \in d + 1 .. d + l /\ i - d \in 1 .. l /\ i \in 0 .. d + l /\ i - 1 \in 0 .. d + l
                  /\ (i - d) - 1 = (i - 1) - d /\ ~(i <= d)
                  BY <1>6, <2>2
            <3>2. u[i] = t[i - d] /\ ab[i] = b[i - d]
                  BY <1>4, <3>1
            <3>3. u[i - 1] = t[(i - d) - 1]
                  <4>1. CASE i - 1 = d
                        <5>1. u[i - 1] = r[d] /\ (i - d) - 1 = 0
                              BY <1>6, <3>1, <4>1
                        <5> QED BY <1>6, <5>1
                  <4>2. CASE i - 1 # d
                        <5>1. ~(i - 1 <= d)
                              BY <1>6, <3>1, <4>2
                        <5> QED BY <3>1, <5>1
                  <4> QED BY <4>1, <4>2
            <3> HIDE DEF u
            <3> QED BY <1>5, <3>1, <3>2, <3>3
      <2> QED BY <1>6, <2>1, <2>2
<1> HIDE DEF u
<1>9. Traces(q, ab, u)
      BY <1>4, <1>7, <1>8 DEF Traces
<1>10. Runs(q, m, ab, o)
      BY <1>4, <1>7, <1>9 DEF Runs
<1> QED BY <1>10 DEF ab

LEMMA RunsEnd ==
    ASSUME NEW q, NEW m, NEW n, Runs(q, m, <<>>, n)
    PROVE  m = n
BY DEF Runs

\* What remains to be done after the first step
LEMMA RunsFirst ==
    ASSUME NEW q, NEW m, NEW s, NEW n, Runs(q, m, s, n), s # <<>>
    PROVE  Allowed(q, m, Head(s)) /\ Runs(q, Effect(m, Head(s)), Tail(s), n)
<1>1. PICK r : Traces(q, s, r) /\ r[0] = m /\ r[Len(s)] = n
      BY DEF Runs
<1> DEFINE d == Len(s) - 1
           rest == Tail(s)
           u == [i \in 0 .. d |-> r[i + 1]]
<1>2. /\ s \in Seq(StepType) /\ Len(s) = d + 1 /\ d \in Nat /\ rest \in Seq(StepType) /\ Len(rest) = d
      /\ Head(s) = s[1] /\ \A i \in 1 .. d : rest[i] = s[i + 1]
      BY DEF Runs
<1> HIDE DEF rest, d
<1>3. /\ r \in [0 .. d + 1 -> Machine]
      /\ \A i \in 1 .. d + 1 : Allowed(q, r[i - 1], s[i]) /\ r[i] = Effect(r[i - 1], s[i])
      /\ r[0] = m /\ r[d + 1] = n
      BY <1>1, <1>2 DEF Traces
<1>4. 1 \in 1 .. d + 1 /\ 1 - 1 = 0
      BY <1>2
<1>5. Allowed(q, m, s[1]) /\ r[1] = Effect(m, s[1])
      BY <1>3, <1>4
<1>6. u \in [0 .. d -> Machine] /\ u[0] = r[1] /\ u[d] = n
      <2>1. \A i \in 0 .. d : i + 1 \in 0 .. d + 1
            BY <1>2
      <2> QED BY <1>2, <1>3, <2>1
<1>7. ASSUME NEW i \in 1 .. d
      PROVE  Allowed(q, u[i - 1], rest[i]) /\ u[i] = Effect(u[i - 1], rest[i])
      <2>1. i + 1 \in 1 .. d + 1 /\ i \in 0 .. d /\ i - 1 \in 0 .. d /\ (i - 1) + 1 = i /\ (i + 1) - 1 = i
            BY <1>2
      <2>2. u[i] = r[i + 1] /\ u[i - 1] = r[i]
            BY <2>1
      <2> HIDE DEF u
      <2> QED BY <1>2, <1>3, <2>1, <2>2
<1> HIDE DEF u
<1>8. Traces(q, rest, u)
      BY <1>2, <1>6, <1>7 DEF Traces
<1>9. Runs(q, Effect(m, s[1]), rest, n)
      BY <1>2, <1>5, <1>6, <1>8 DEF Runs
<1> QED BY <1>2, <1>5, <1>9 DEF rest

\* A step that changes nothing but what the next one, a wait, makes good
LEMMA RunsWaiting ==
    ASSUME NEW q, NEW m, NEW o \in Machine, NEW s, NEW n, Runs(q, m, s, n), s # <<>>, Head(s) = Busy,
           Effect(o, Busy) = Effect(m, Busy)
    PROVE  Runs(q, o, s, n)
<1>1. Runs(q, Effect(o, Busy), Tail(s), n) /\ s \in Seq(StepType)
      BY RunsFirst, RunsType
<1>2. Busy \in StepType /\ Allowed(q, o, Busy)
      BY DEF StepType, Allowed, IsTx, Busy, Cmd
<1>3. Runs(q, o, <<Busy>> \o Tail(s), n)
      BY <1>1, <1>2, RunsOne, RunsThen
<1>4. <<Busy>> \o Tail(s) = s
      BY <1>1
<1> QED BY <1>3, <1>4

-----------------------------------------------------------------------------
(* The steps that plans are made of *)

LEMMA Singles ==
    ASSUME NEW x, NEW y
    PROVE  /\ <<x>> \o <<y>> = <<x, y>>
           /\ \A z : <<x, y>> \o <<z>> = <<x, y, z>>
<1>1. \A S, s, u, v : s \in Seq(S) /\ u \in Seq(S) /\ v \in Seq(S) /\ Len(u) = 1 /\ Len(v) = Len(s) + 1
         /\ (\A i \in 1 .. Len(s) : v[i] = s[i]) /\ v[Len(v)] = u[1] => s \o u = v
      <2> SUFFICES ASSUME NEW S, NEW s \in Seq(S), NEW u \in Seq(S), NEW v \in Seq(S), Len(u) = 1,
                          Len(v) = Len(s) + 1, \A i \in 1 .. Len(s) : v[i] = s[i], v[Len(v)] = u[1]
                   PROVE  s \o u = v
          OBVIOUS
      <2>1. /\ s \o u \in Seq(S) /\ Len(s \o u) = Len(v) /\ Len(s) \in Nat
            /\ \A i \in 1 .. Len(v) : (s \o u)[i] = IF i <= Len(s) THEN s[i] ELSE u[i - Len(s)]
            <3>1. /\ s \o u \in Seq(S) /\ Len(s \o u) = Len(s) + Len(u)
                  /\ \A i \in 1 .. Len(s) + Len(u) :
                        (s \o u)[i] = IF i <= Len(s) THEN s[i] ELSE u[i - Len(s)]
                  BY ConcatProperties, Zenon
            <3>2. Len(s) \in Nat /\ Len(s) + Len(u) = Len(v)
                  BY LenProperties
            <3> QED BY <3>1, <3>2
      <2>2. \A i \in 1 .. Len(v) : (s \o u)[i] = v[i]
            BY <2>1
      <2> QED BY <2>1, <2>2, SeqEqual
<1>2. <<x>> \o <<y>> = <<x, y>>
      <2>1. /\ <<x>> \in Seq({x, y}) /\ <<y>> \in Seq({x, y}) /\ <<x, y>> \in Seq({x, y})
            /\ Len(<<y>>) = 1 /\ Len(<<x>>) = 1 /\ Len(<<x, y>>) = 1 + 1
            /\ (\A i \in 1 .. 1 : <<x, y>>[i] = <<x>>[i]) /\ <<x, y>>[Len(<<x, y>>)] = <<y>>[1]
            OBVIOUS
      <2> QED BY <1>1, <2>1
<1>3. ASSUME NEW z PROVE <<x, y>> \o <<z>> = <<x, y, z>>
      <2>1. /\ <<x, y>> \in Seq({x, y, z}) /\ <<z>> \in Seq({x, y, z}) /\ <<x, y, z>> \in Seq({x, y, z})
            /\ Len(<<z>>) = 1 /\ Len(<<x, y>>) = 2 /\ Len(<<x, y, z>>) = 2 + 1
            /\ (\A i \in 1 .. 2 : <<x, y, z>>[i] = <<x, y>>[i]) /\ <<x, y, z>>[Len(<<x, y, z>>)] = <<z>>[1]
            OBVIOUS
      <2> QED BY <1>1, <2>1
<1> QED BY <1>2, <1>3

LEMMA RunsTwo ==
    ASSUME NEW q, NEW m, NEW x, NEW n, NEW y, NEW o, Runs(q, m, <<x>>, n), Runs(q, n, <<y>>, o)
    PROVE  Runs(q, m, <<x, y>>, o)
<1>1. <<x>> \o <<y>> = <<x, y>>
      BY Singles
<1>2. Runs(q, m, <<x>> \o <<y>>, o)
      BY RunsThen
<1> QED BY <1>1, <1>2

LEMMA RunsThree ==
    ASSUME NEW q, NEW m, NEW x, NEW n, NEW y, NEW o, NEW z, NEW u,
           Runs(q, m, <<x>>, n), Runs(q, n, <<y>>, o), Runs(q, o, <<z>>, u)
    PROVE  Runs(q, m, <<x, y, z>>, u)
<1>1. <<x, y>> \o <<z>> = <<x, y, z>>
      BY Singles
<1>2. Runs(q, m, <<x, y>>, o)
      BY RunsTwo
<1>3. Runs(q, m, <<x, y>> \o <<z>>, u)
      BY <1>2, RunsThen
<1> QED BY <1>1, <1>3

\* The same machine with another controller state
With(m, p) == [m EXCEPT !.p = p]

LEMMA WithType ==
    ASSUME NEW m \in Machine, NEW p \in PanelType
    PROVE  /\ With(m, p) \in Machine /\ With(m, p).p = p /\ With(m, p).init = m.init
           /\ With(m, p).power = m.power /\ With(m, p).known = m.known
           /\ m.p \in PanelType /\ \A o : With(With(m, p), o) = With(m, o)
BY DEF With, Machine

\* Machine n with its flags so
Flags(n, m, init, power, known) ==
    n \in Machine /\ n.p = m.p /\ n.init = init /\ n.power = power /\ n.known = known

LEMMA FlagType ==
    ASSUME NEW m \in Machine, NEW on \in BOOLEAN
    PROVE  /\ Flags([m EXCEPT !["init"] = on], m, on, m.power, m.known)
           /\ Flags([m EXCEPT !["power"] = on], m, m.init, on, m.known)
           /\ Flags([m EXCEPT !["known"] = on], m, m.init, m.power, on)
BY DEF Machine, Flags

LEMMA CommandRuns ==
    ASSUME NEW q, NEW m \in Machine, m.p.busy = "No", NEW c \in Command \ {"PowerOn", "Refresh"}
    PROVE  Runs(q, m, <<Cmd(c)>>, With(m, Commanded(m.p, c)))
<1>1. Cmd(c) \in StepType /\ Cmd(c).t = "Cmd" /\ Cmd(c).c = c /\ IsTx(Cmd(c))
      BY DEF StepType, Cmd, IsTx
<1>2. Misuse(m.p, Cmd(c)) = {}
      BY <1>1 DEF Misuse, Cmd
<1>3. Allowed(q, m, Cmd(c))
      BY <1>1, <1>2 DEF Allowed, Cmd
<1>4. Effect(m, Cmd(c)) = With(m, Commanded(m.p, c))
      BY <1>1 DEF Effect, Took, With
<1> QED BY <1>1, <1>3, <1>4, RunsOne

LEMMA PowerOnRuns ==
    ASSUME NEW q, NEW m \in Machine, m.p.busy = "No", q.op = "Draw"
    PROVE  Runs(q, m, <<Cmd("PowerOn")>>, With(m, [m.p EXCEPT !.cmd = "None", !.powered = TRUE, !.busy = "Lag"]))
<1>1. /\ Cmd("PowerOn") \in StepType /\ Cmd("PowerOn").t = "Cmd" /\ Cmd("PowerOn").c = "PowerOn"
      /\ IsTx(Cmd("PowerOn"))
      BY DEF StepType, Cmd, IsTx, Command
<1>2. Misuse(m.p, Cmd("PowerOn")) = {}
      BY <1>1 DEF Misuse, Cmd
<1>3. Allowed(q, m, Cmd("PowerOn"))
      BY <1>1, <1>2 DEF Allowed, Cmd
<1>4. Effect(m, Cmd("PowerOn")) = With(m, Commanded(m.p, "PowerOn"))
      BY <1>1 DEF Effect, Took, With
<1>5. Commanded(m.p, "PowerOn") = [m.p EXCEPT !.cmd = "None", !.powered = TRUE, !.busy = "Lag"]
      BY DEF Commanded, WithArguments, Machine, PanelType
<1> QED BY <1>1, <1>3, <1>4, <1>5, RunsOne

LEMMA RefreshRuns ==
    ASSUME NEW q, NEW m \in Machine, m.p.busy = "No", m.p.powered, q.op = "Draw",
           Inside(Target(m.p)) \subseteq Inside(q.flush.box)
    PROVE  Runs(q, m, <<Cmd("Refresh")>>, With(m, Refreshed([m.p EXCEPT !.cmd = "None"])))
<1>1. /\ Cmd("Refresh") \in StepType /\ Cmd("Refresh").t = "Cmd" /\ Cmd("Refresh").c = "Refresh"
      /\ IsTx(Cmd("Refresh"))
      BY DEF StepType, Cmd, IsTx, Command
<1>2. Misuse(m.p, Cmd("Refresh")) = {}
      BY <1>1 DEF Misuse, Cmd
<1>3. Allowed(q, m, Cmd("Refresh"))
      BY <1>1, <1>2 DEF Allowed, Cmd
<1>4. Effect(m, Cmd("Refresh")) = With(m, Commanded(m.p, "Refresh"))
      BY <1>1 DEF Effect, Took, With
<1>5. Commanded(m.p, "Refresh") = Refreshed([m.p EXCEPT !.cmd = "None"])
      BY DEF Commanded, WithArguments, Machine, PanelType
<1> QED BY <1>1, <1>3, <1>4, <1>5, RunsOne

LEMMA BusyRuns ==
    ASSUME NEW q, NEW m \in Machine
    PROVE  Runs(q, m, <<Busy>>, With(m, [m.p EXCEPT !.busy = "No"]))
<1>1. Busy \in StepType /\ Busy.t = "Busy" /\ ~IsTx(Busy) /\ Allowed(q, m, Busy)
      BY DEF StepType, Allowed, IsTx, Busy, Cmd
<1>2. Effect(m, Busy) = With(m, [m.p EXCEPT !.busy = "No"])
      BY <1>1 DEF Effect, With
<1> QED BY <1>1, <1>2, RunsOne

LEMMA SetRuns ==
    ASSUME NEW q, NEW m \in Machine, m.p.busy = "No", NEW flag \in {"init", "power", "known"}, NEW on \in BOOLEAN
    PROVE  Runs(q, m, <<Set(flag, on)>>, [m EXCEPT ![flag] = on])
<1>1. /\ Set(flag, on) \in StepType /\ Set(flag, on).t = "Set" /\ ~IsTx(Set(flag, on))
      /\ Set(flag, on).flag = flag /\ Set(flag, on).on = on
      BY DEF StepType, IsTx, Set
<1>2. Allowed(q, m, Set(flag, on))
      BY <1>1 DEF Allowed, Cmd
<1>3. Effect(m, Set(flag, on)) = [m EXCEPT ![flag] = on]
      BY <1>1 DEF Effect
<1>4. Runs(q, m, <<Set(flag, on)>>, Effect(m, Set(flag, on)))
      BY <1>1, <1>2, RunsOne
<1> QED BY <1>3, <1>4, Zenon

\* A command with its parameters
LEMMA WithParamsRuns ==
    ASSUME NEW q, NEW m \in Machine, m.p.busy = "No", NEW c \in WithArguments \ {"Old", "New"},
           NEW s \in [t : {"Params"}, reset : BOOLEAN, window : Box \cup {NoBox}]
    PROVE  Runs(q, m, WithParams(c, s), With(m, Executed([m.p EXCEPT !.cmd = c], s)))
<1> DEFINE n == With(m, [m.p EXCEPT !.cmd = c])
<1>1. c \in Command \ {"PowerOn", "Refresh"} /\ c # "None"
      BY DEF WithArguments, Command
<1>2. Commanded(m.p, c) = [m.p EXCEPT !.cmd = c]
      BY DEF Commanded, WithArguments
<1>3. Runs(q, m, <<Cmd(c)>>, n)
      BY <1>1, <1>2, CommandRuns
<1>4. n \in Machine /\ n.p = [m.p EXCEPT !.cmd = c] /\ n.p.busy = "No" /\ n.p.cmd = c
      BY DEF With, Machine, PanelType
<1>5. s \in StepType /\ s.t = "Params" /\ IsTx(s)
      BY DEF StepType, IsTx
<1>6. Misuse(n.p, s) = {}
      <2>1. s # Cmd("Refresh") /\ s.t # "Data"
            BY <1>5 DEF Cmd
      <2> HIDE DEF n
      <2> QED BY <1>1, <1>4, <2>1 DEF Misuse
<1>7. Allowed(q, n, s)
      BY <1>4, <1>5, <1>6 DEF Allowed, Cmd
<1>8. Effect(n, s) = With(m, Executed([m.p EXCEPT !.cmd = c], s))
      BY <1>4, <1>5 DEF Effect, Took, With, Machine
<1>9. Runs(q, n, <<s>>, With(m, Executed([m.p EXCEPT !.cmd = c], s)))
      BY <1>4, <1>5, <1>7, <1>8, RunsOne
<1> QED BY <1>3, <1>9, RunsTwo DEF WithParams

LEMMA ParamsTypes ==
    /\ Params \in [t : {"Params"}, reset : BOOLEAN, window : Box \cup {NoBox}]
    /\ SoftReset \in [t : {"Params"}, reset : BOOLEAN, window : Box \cup {NoBox}]
    /\ \A b \in Box : Window(b) \in [t : {"Params"}, reset : BOOLEAN, window : Box \cup {NoBox}]
BY DEF Params, SoftReset, Window

\* A setting leaves nothing that matters here.
LEMMA SettingRuns ==
    ASSUME NEW q, NEW m \in Machine, m.p.busy = "No", NEW c \in {"Psr", "Cascade", "Temperature", "Vcom"}
    PROVE  Runs(q, m, WithParams(c, Params), With(m, [m.p EXCEPT !.cmd = "None"]))
<1>1. c \in WithArguments \ {"Old", "New"}
      BY DEF WithArguments
<1>2. Executed([m.p EXCEPT !.cmd = c], Params) = [m.p EXCEPT !.cmd = "None"]
      BY DEF Executed, Params, Machine, PanelType
<1> QED BY <1>1, <1>2, ParamsTypes, WithParamsRuns

LEMMA SettingsRun ==
    ASSUME NEW q, NEW m \in Machine, m.p.busy = "No"
    PROVE  Runs(q, m, Settings, With(m, [m.p EXCEPT !.cmd = "None"]))
<1> DEFINE n == With(m, [m.p EXCEPT !.cmd = "None"])
<1>1. n \in Machine /\ n.p.busy = "No" /\ With(n, [n.p EXCEPT !.cmd = "None"]) = n
      BY DEF With, Machine, PanelType
<1>2. /\ Runs(q, m, WithParams("Cascade", Params), n)
      /\ Runs(q, n, WithParams("Temperature", Params), n)
      /\ Runs(q, n, WithParams("Vcom", Params), n)
      <2>1. Runs(q, m, WithParams("Cascade", Params), n)
            BY SettingRuns
      <2> HIDE DEF n
      <2> QED BY <1>1, <2>1, SettingRuns
<1> HIDE DEF n
<1> QED BY <1>2, RunsThen DEF Settings, n

\* Partial mode on a region
LEMMA WindowRuns ==
    ASSUME NEW q, NEW m \in Machine, m.p.busy = "No", NEW b \in Box
    PROVE  Runs(q, m, <<Cmd("PartialIn")>> \o WithParams("Window", Window(b)),
                With(m, [m.p EXCEPT !.cmd = "None", !.partial = TRUE, !.window = b]))
<1> DEFINE n == With(m, [m.p EXCEPT !.cmd = "None", !.partial = TRUE])
<1>1. n \in Machine /\ n.p.busy = "No"
      BY DEF With, Machine, PanelType
<1>2. Commanded(m.p, "PartialIn") = [m.p EXCEPT !.cmd = "None", !.partial = TRUE]
      BY DEF Commanded, WithArguments, Machine, PanelType
<1>3. Runs(q, m, <<Cmd("PartialIn")>>, n)
      BY <1>2, CommandRuns DEF Command
<1>4. With(n, Executed([n.p EXCEPT !.cmd = "Window"], Window(b)))
        = With(m, [m.p EXCEPT !.cmd = "None", !.partial = TRUE, !.window = b])
      BY DEF With, Executed, Window, Params, Machine, PanelType
<1>5. "Window" \in WithArguments \ {"Old", "New"}
      BY DEF WithArguments
<1> HIDE DEF n
<1>6. Runs(q, n, WithParams("Window", Window(b)),
           With(m, [m.p EXCEPT !.cmd = "None", !.partial = TRUE, !.window = b]))
      BY <1>1, <1>4, <1>5, ParamsTypes, WithParamsRuns
<1> QED BY <1>3, <1>6, RunsThen

LEMMA PartialOutRuns ==
    ASSUME NEW q, NEW m \in Machine, m.p.busy = "No"
    PROVE  Runs(q, m, <<Cmd("PartialOut")>>, With(m, [m.p EXCEPT !.cmd = "None", !.partial = FALSE]))
<1>1. Commanded(m.p, "PartialOut") = [m.p EXCEPT !.cmd = "None", !.partial = FALSE]
      BY DEF Commanded, WithArguments, Machine, PanelType
<1> QED BY <1>1, CommandRuns DEF Command

-----------------------------------------------------------------------------
(* Image data, in chunks *)

\* Where chunk d ends
End(b, d) == Lesser(d * CHUNK, Area(b))

LEMMA ChunkCount ==
    ASSUME NEW a \in Nat \ {0}, NEW c \in Nat \ {0}, NEW n, n = (a + c - 1) \div c
    PROVE  n \in Nat \ {0} /\ a <= n * c /\ \A d \in 1 .. n : (d - 1) * c < a
<1> DEFINE x == a + c - 1
<1>1. x \in Nat /\ x >= c
      OBVIOUS
<1>2. n \in Nat /\ (x % c) \in 0 .. c - 1 /\ x = n * c + (x % c)
      BY <1>1, Quotients
<1>3. n # 0
      BY <1>1, <1>2
<1>4. a <= n * c
      BY <1>2
<1>5. \A d \in 1 .. n : (d - 1) * c < a
      <2> SUFFICES ASSUME NEW d \in 1 .. n PROVE (d - 1) * c < a
          OBVIOUS
      <2>1. (d - 1) * c <= (n - 1) * c
            BY <1>2
      <2>2. (n - 1) * c = n * c - c
            BY <1>2
      <2>3. n * c \in Nat /\ (d - 1) * c \in Nat
            BY <1>2
      <2> QED BY <1>2, <2>1, <2>2, <2>3
<1> QED BY <1>2, <1>3, <1>4, <1>5

\* The image up to place n
Filled(under, b, image, n) ==
    [c \in Cells |-> IF c \in Inside(b) /\ Place(b, c) < n THEN image[c] ELSE under[c]]

LEMMA FilledPainted ==
    ASSUME NEW under \in Image, NEW b \in Region, NEW image \in Image, NEW lo \in Nat, NEW hi \in Nat, lo <= hi
    PROVE  /\ Filled(under, b, image, lo) \in Image
           /\ Painted(Filled(under, b, image, lo), b, image, lo, hi) = Filled(under, b, image, hi)
           /\ Filled(under, b, image, 0) = under
           /\ Filled(under, b, image, Area(b)) = [c \in Cells |-> IF c \in Inside(b) THEN image[c] ELSE under[c]]
<1>1. \A c \in Inside(b) : Place(b, c) \in Nat /\ Place(b, c) < Area(b)
      BY CellOfPlace, RegionSize
<1> QED BY <1>1, RegionSize DEF Filled, Painted, Image

\* The controller after n bytes of a region's image
Loaded(m, register, b, image, n) ==
    With(m, [m.p EXCEPT !.pos = n,
                        !.old = IF register = "Old" THEN Filled(@, b, image, n) ELSE @,
                        !.new = IF register = "New" THEN Filled(@, b, image, n) ELSE @])

LEMMA LoadedType ==
    ASSUME NEW m \in Machine, NEW register \in {"Old", "New"}, NEW b \in Region, NEW image \in Image, NEW n \in Nat
    PROVE  /\ Loaded(m, register, b, image, n) \in Machine
           /\ Loaded(m, register, b, image, n).p.pos = n
           /\ Loaded(m, register, b, image, n).p.busy = m.p.busy
           /\ Loaded(m, register, b, image, n).p.cmd = m.p.cmd
           /\ Loaded(m, register, b, image, n).p.partial = m.p.partial
           /\ Loaded(m, register, b, image, n).p.window = m.p.window
<1> DEFINE old == IF register = "Old" THEN Filled(m.p.old, b, image, n) ELSE m.p.old
           new == IF register = "New" THEN Filled(m.p.new, b, image, n) ELSE m.p.new
<1>1. m.p \in PanelType /\ m.p.old \in Image /\ m.p.new \in Image
      BY DEF Machine, PanelType
<1>2. old \in Image /\ new \in Image
      BY <1>1, FilledPainted, 0 \in Nat
<1> DEFINE p == [m.p EXCEPT !.pos = n, !.old = old, !.new = new]
<1>3. Loaded(m, register, b, image, n) = [m EXCEPT !.p = p]
      BY DEF Loaded, With
<1> HIDE DEF old, new
<1>4. /\ p \in PanelType /\ p.pos = n /\ p.busy = m.p.busy /\ p.cmd = m.p.cmd
      /\ p.partial = m.p.partial /\ p.window = m.p.window
      BY <1>1, <1>2 DEF PanelType
<1> HIDE DEF p
<1>5. [m EXCEPT !.p = p] \in Machine /\ [m EXCEPT !.p = p].p = p
      BY <1>4 DEF Machine
<1> QED BY <1>3, <1>4, <1>5

\* The next part may be sent, and takes the controller from lo bytes to hi.
Extends(q, m, register, b, image, lo, hi, part) ==
    /\ Data(part) \in StepType
    /\ Allowed(q, Loaded(m, register, b, image, lo), Data(part))
    /\ Effect(Loaded(m, register, b, image, lo), Data(part)) = Loaded(m, register, b, image, hi)

LEMMA LoadedStep ==
    ASSUME NEW q, NEW m \in Machine, NEW register \in {"Old", "New"}, NEW b \in Region, NEW image \in Image,
           m.p.busy = "No", m.p.cmd = register, Target(m.p) = b,
           NEW lo \in Nat, NEW hi \in Nat, NEW part, IsPart(part, b, image, lo, hi)
    PROVE  Extends(q, m, register, b, image, lo, hi, part)
<1> DEFINE x == Data(part)
           n == Loaded(m, register, b, image, lo)
<1>0. lo \in Nat /\ hi \in Nat /\ lo < hi /\ hi <= Area(b) /\ part = SubSeq(Bytes(b, image), lo + 1, hi)
      BY DEF IsPart
<1>1. part \in Seq(Ink) /\ Len(part) = hi - lo
      <2>1. lo \in Nat /\ hi \in Nat /\ lo < hi /\ hi <= Area(b)
            BY <1>0
      <2>2. SubSeq(Bytes(b, image), lo + 1, hi) \in Seq(Ink) /\ Len(SubSeq(Bytes(b, image), lo + 1, hi)) = hi - lo
            BY <2>1, PartType
      <2> QED BY <1>0, <2>2
<1>2. /\ n \in Machine /\ n.p.pos = lo /\ n.p.busy = "No" /\ n.p.cmd = register
      /\ n.p.partial = m.p.partial /\ n.p.window = m.p.window
      BY <1>0, LoadedType
<1>3. Target(n.p) = b /\ n.p \in PanelType
      BY <1>2 DEF Target, Machine
<1> HIDE DEF n, x
<1>4. Stored(n.p, part) = PartStored(n.p, b, image, lo, hi)
      BY <1>2, <1>3, StoredPart
<1>5. With(n, Stored(n.p, part)) = Loaded(m, register, b, image, hi)
      <2> DEFINE old(i) == IF register = "Old" THEN Filled(m.p.old, b, image, i) ELSE m.p.old
                 new(i) == IF register = "New" THEN Filled(m.p.new, b, image, i) ELSE m.p.new
      <2>1. lo \in Nat /\ hi \in Nat /\ lo <= hi /\ m.p.old \in Image /\ m.p.new \in Image
            BY <1>0 DEF Machine, PanelType
      <2>2. /\ Painted(Filled(m.p.old, b, image, lo), b, image, lo, hi) = Filled(m.p.old, b, image, hi)
            /\ Painted(Filled(m.p.new, b, image, lo), b, image, lo, hi) = Filled(m.p.new, b, image, hi)
            BY <2>1, FilledPainted
      <2>3. /\ (IF register = "Old" THEN Painted(old(lo), b, image, lo, hi) ELSE old(lo)) = old(hi)
            /\ (IF register = "New" THEN Painted(new(lo), b, image, lo, hi) ELSE new(lo)) = new(hi)
            BY <2>2
      <2>4. n = [m EXCEPT !.p = [m.p EXCEPT !.pos = lo, !.old = old(lo), !.new = new(lo)]]
            BY DEF n, Loaded, With
      <2>5. Loaded(m, register, b, image, hi)
              = [m EXCEPT !.p = [m.p EXCEPT !.pos = hi, !.old = old(hi), !.new = new(hi)]]
            BY DEF Loaded, With
      <2> HIDE DEF old, new
      <2>6. n.p = [m.p EXCEPT !.pos = lo, !.old = old(lo), !.new = new(lo)]
            BY <2>4 DEF Machine
      <2>7. Stored(n.p, part) = [n.p EXCEPT !.pos = hi, !.old = old(hi), !.new = new(hi)]
            <3>1. n.p.old = old(lo) /\ n.p.new = new(lo) /\ n.p.cmd = register
                  BY <1>2, <2>6 DEF Machine, PanelType
            <3>2. /\ (IF n.p.cmd = "Old" THEN Painted(n.p.old, b, image, lo, hi) ELSE n.p.old) = old(hi)
                  /\ (IF n.p.cmd = "New" THEN Painted(n.p.new, b, image, lo, hi) ELSE n.p.new) = new(hi)
                  BY <2>3, <3>1
            <3> QED BY <1>4, <3>2 DEF PartStored
      <2>8. Stored(n.p, part) = [m.p EXCEPT !.pos = hi, !.old = old(hi), !.new = new(hi)]
            BY <2>6, <2>7 DEF Machine, PanelType
      <2> QED BY <2>4, <2>5, <2>8 DEF With, Machine
<1>6. x \in StepType /\ x.t = "Data" /\ x.bytes = part /\ IsTx(x)
      BY <1>1 DEF Data, StepType, IsTx, x
<1>7. Misuse(n.p, x) = {}
      <2>1. n.p.pos + Len(part) = hi /\ hi \in Int /\ Area(b) \in Int /\ ~(hi > Area(b))
            <3>1. Area(b) \in Nat
                  BY RegionSize
            <3>2. n.p.pos + Len(part) = hi
                  BY <1>0, <1>1, <1>2
            <3> QED BY <1>0, <3>1, <3>2
      <2>2. x # Cmd("Refresh") /\ n.p.cmd # "None"
            BY <1>2, <1>6 DEF Cmd
      <2> QED BY <1>2, <1>3, <1>6, <2>1, <2>2 DEF Misuse
<1>8. Allowed(q, n, x)
      BY <1>2, <1>6, <1>7 DEF Allowed, Cmd
<1>9. Effect(n, x) = With(n, Stored(n.p, part))
      BY <1>6 DEF Effect, Took, With
<1> QED BY <1>5, <1>6, <1>8, <1>9 DEF x, n, Extends

LEMMA ChunksRun ==
    ASSUME NEW q, NEW m \in Machine, NEW register \in {"Old", "New"}, NEW b \in Region, NEW image \in Image,
           m.p.busy = "No", m.p.cmd = register, m.p.pos = 0, Target(m.p) = b
    PROVE  Runs(q, m, Chunks(Bytes(b, image)), Loaded(m, register, b, image, Area(b)))
<1> DEFINE s == Chunks(Bytes(b, image))
           d == (Area(b) + CHUNK - 1) \div CHUNK
           r == [i \in 0 .. d |-> Loaded(m, register, b, image, End(b, i))]
<1>1. Area(b) \in Nat \ {0} /\ CHUNK \in Nat \ {0} /\ Len(Bytes(b, image)) = Area(b)
      BY RegionSize, BytesType, ChunkAssumption
<1>2. s = [i \in 1 .. d |->
               Data(SubSeq(Bytes(b, image), (i - 1) * CHUNK + 1, Lesser(i * CHUNK, Area(b))))]
      BY <1>1 DEF Chunks
<1>3. d \in Nat \ {0} /\ Area(b) <= d * CHUNK /\ \A i \in 1 .. d : (i - 1) * CHUNK < Area(b)
      BY <1>1, ChunkCount
<1> HIDE DEF s, d
<1>4. End(b, 0) = 0 /\ End(b, d) = Area(b) /\ \A i \in 0 .. d : End(b, i) \in Nat
      <2>1. 0 * CHUNK = 0 /\ \A i \in 0 .. d : i * CHUNK \in Nat
            BY <1>1, <1>3
      <2> QED BY <1>1, <1>3, <2>1 DEF End, Lesser
<1>5. ASSUME NEW i \in 1 .. d
      PROVE  /\ End(b, i - 1) = (i - 1) * CHUNK /\ (i - 1) * CHUNK \in Nat
             /\ End(b, i - 1) < End(b, i) /\ End(b, i) <= Area(b)
             /\ s[i] = Data(SubSeq(Bytes(b, image), End(b, i - 1) + 1, End(b, i)))
      <2>1. i - 1 \in Nat /\ i \in Nat /\ (i - 1) * CHUNK < Area(b)
            BY <1>3
      <2>2. (i - 1) * CHUNK \in Nat /\ i * CHUNK \in Nat /\ i * CHUNK = (i - 1) * CHUNK + CHUNK
            BY <1>1, <2>1
      <2>3. End(b, i - 1) = (i - 1) * CHUNK
            BY <1>1, <2>1, <2>2 DEF End, Lesser
      <2>4. End(b, i - 1) < End(b, i) /\ End(b, i) <= Area(b)
            BY <1>1, <2>1, <2>2, <2>3 DEF End, Lesser
      <2>5. s[i] = Data(SubSeq(Bytes(b, image), (i - 1) * CHUNK + 1, End(b, i)))
            BY <1>2 DEF End
      <2> QED BY <2>2, <2>3, <2>4, <2>5
<1>6. /\ r \in [0 .. d -> Machine] /\ r[0] = m /\ r[d] = Loaded(m, register, b, image, Area(b))
      <2>1. \A i \in 0 .. d : Loaded(m, register, b, image, End(b, i)) \in Machine
            BY <1>4, LoadedType
      <2>2. Loaded(m, register, b, image, 0) = m
            <3>1. Filled(m.p.old, b, image, 0) = m.p.old /\ Filled(m.p.new, b, image, 0) = m.p.new
                  BY FilledPainted, 0 \in Nat, 0 <= 0 DEF Machine, PanelType
            <3> QED BY <3>1, ZenonT(60) DEF Loaded, With, Machine, PanelType
      <2> QED BY <1>3, <1>4, <2>1, <2>2
<1>10. \A lo, hi \in Nat : \A part :
          IsPart(part, b, image, lo, hi) => Extends(q, m, register, b, image, lo, hi, part)
      BY LoadedStep
<1>7. ASSUME NEW i \in 1 .. d
      PROVE  s[i] \in StepType /\ Allowed(q, r[i - 1], s[i]) /\ r[i] = Effect(r[i - 1], s[i])
      <2>1. i \in 0 .. d /\ i - 1 \in 0 .. d
            BY <1>3
      <2>2. r[i] = Loaded(m, register, b, image, End(b, i)) /\ r[i - 1] = Loaded(m, register, b, image, End(b, i - 1))
            BY <2>1
      <2>3. End(b, i) \in Nat /\ End(b, i - 1) \in Nat
            BY <1>4, <2>1
      <2> HIDE DEF r
      <2>4. /\ s[i] \in StepType
            /\ Allowed(q, Loaded(m, register, b, image, End(b, i - 1)), s[i])
            /\ Effect(Loaded(m, register, b, image, End(b, i - 1)), s[i]) = Loaded(m, register, b, image, End(b, i))
            <3> DEFINE part == SubSeq(Bytes(b, image), End(b, i - 1) + 1, End(b, i))
            <3>1. s[i] = Data(part) /\ End(b, i - 1) < End(b, i) /\ End(b, i) <= Area(b)
                  BY <1>5
            <3>2. IsPart(part, b, image, End(b, i - 1), End(b, i))
                  BY <2>3, <3>1 DEF IsPart
            <3> HIDE DEF part
            <3>3. Extends(q, m, register, b, image, End(b, i - 1), End(b, i), part)
                  BY <1>10, <2>3, <3>2, Zenon
            <3> QED BY <3>1, <3>3 DEF Extends
      <2> QED BY <2>2, <2>4
<1> HIDE DEF r
<1>8. DOMAIN s = 1 .. d /\ Len(s) = d /\ s \in Seq(StepType)
      <2>1. s \in [1 .. d -> StepType]
            BY <1>2, <1>7
      <2> QED BY <1>3, <2>1
<1>9. Traces(q, s, r)
      BY <1>6, <1>7, <1>8 DEF Traces
<1> QED BY <1>6, <1>8, <1>9 DEF Runs, s
-----------------------------------------------------------------------------
(* Plans under way *)

\* struct Plan
PlanType == [steps : Seq(StepType), init : BOOLEAN, power : BOOLEAN]

\* The steps of plan p may be taken from m, and lead to n, as p has it.
Built(q, m, p, n) ==
    /\ p \in PlanType
    /\ p.init = n.init /\ p.power = n.power
    /\ Runs(q, m, p.steps, n) /\ n.p.busy = "No"

\* What the protocol believes is true of the controller.
Trusts(n) == (n.power => n.p.powered) /\ (n.init => ~n.p.partial)

\* What refreshing and rewriting work on
SameContents(o, n) ==
    o.p.old = n.p.old /\ o.p.new = n.p.new /\ o.p.screen = n.p.screen /\ o.known = n.known

LEMMA BuiltType ==
    ASSUME NEW q, NEW m, NEW p, NEW n, Built(q, m, p, n)
    PROVE  /\ n \in Machine /\ n.p \in PanelType /\ n.p.busy = "No" /\ p.init = n.init /\ p.power = n.power
           /\ n.init \in BOOLEAN /\ n.power \in BOOLEAN /\ n.known \in BOOLEAN
BY RunsType DEF Built, Machine

\* A plan with more steps
LEMMA MoreSteps ==
    ASSUME NEW q, NEW m, NEW p, NEW n, Built(q, m, p, n), NEW s, NEW o, Runs(q, n, s, o)
    PROVE  Runs(q, m, p.steps \o s, o) /\ p.steps \o s \in Seq(StepType) /\ p \in PlanType
<1>1. Runs(q, m, p.steps, n) /\ p \in PlanType
      BY DEF Built
<1>2. Runs(q, m, p.steps \o s, o)
      BY <1>1, RunsThen
<1> QED BY <1>1, <1>2, RunsType

LEMMA MoreBuilt ==
    ASSUME NEW q, NEW m, NEW p, NEW n, Built(q, m, p, n), NEW s, NEW o, Runs(q, n, s, o), o.p.busy = "No",
           NEW more \in PlanType, more.steps = p.steps \o s, more.init = o.init, more.power = o.power
    PROVE  Built(q, m, more, o)
<1>1. Runs(q, m, more.steps, o)
      BY MoreSteps
<1> QED BY <1>1 DEF Built

LEMMA ThenBuilt ==
    ASSUME NEW q, NEW m, NEW p, NEW n, Built(q, m, p, n),
           NEW s, NEW o, Runs(q, n, s, o), o.p.busy = "No", o.init = n.init, o.power = n.power
    PROVE  Built(q, m, Then(p, s), o)
<1> DEFINE steps == p.steps \o s
<1>1. steps \in Seq(StepType) /\ p \in PlanType /\ p.init = n.init /\ p.power = n.power
      BY MoreSteps DEF Built
<1>2. Then(p, s) = [p EXCEPT !.steps = steps]
      BY DEF Then
<1> HIDE DEF steps
<1>3. /\ Then(p, s) \in PlanType
      /\ Then(p, s).steps = steps /\ Then(p, s).init = p.init /\ Then(p, s).power = p.power
      BY <1>1, <1>2 DEF PlanType
<1> QED BY <1>1, <1>3, MoreBuilt DEF steps

\* The soft reset
LEMMA InitBuilt ==
    ASSUME NEW q, NEW m, NEW p, NEW n, Built(q, m, p, n), Trusts(n)
    PROVE  \E o : /\ Built(q, m, EnsureInit(p), o) /\ Trusts(o) /\ o.init /\ SameContents(o, n)
                  /\ ~n.init => ~o.power /\ ~o.p.powered
<1>1. n \in Machine /\ n.p \in PanelType /\ n.p.busy = "No" /\ p.init = n.init /\ p.power = n.power
      BY BuiltType
<1>2. CASE n.init
      <2>1. EnsureInit(p) = p
            BY <1>1, <1>2 DEF EnsureInit
      <2> QED BY <1>2, <2>1 DEF SameContents
<1>3. CASE ~n.init
      <2> DEFINE reset == [n.p EXCEPT !.cmd = "None", !.powered = FALSE, !.partial = FALSE]
                 n1 == With(n, [reset EXCEPT !.busy = "Lag"])
                 n2 == With(n, reset)
                 n3 == [n2 EXCEPT !["init"] = TRUE]
                 n4 == [n3 EXCEPT !["power"] = FALSE]
      <2>1. /\ n1 \in Machine /\ With(n1, [n1.p EXCEPT !.busy = "No"]) = n2
            /\ n2 \in Machine /\ n2.p.busy = "No" /\ With(n2, [n2.p EXCEPT !.cmd = "None"]) = n2
            /\ n3 \in Machine /\ n3.p.busy = "No"
            /\ n4.p = reset /\ n4.init = TRUE /\ n4.power = FALSE /\ n4.known = n.known
            <3> DEFINE lag == [reset EXCEPT !.busy = "Lag"]
            <3>1. /\ reset \in PanelType /\ reset.busy = "No" /\ [reset EXCEPT !.cmd = "None"] = reset
                  /\ lag \in PanelType /\ [lag EXCEPT !.busy = "No"] = reset
                  BY <1>1 DEF PanelType
            <3> HIDE DEF reset, lag
            <3>2. /\ n1 \in Machine /\ n1.p = lag /\ n2 \in Machine /\ n2.p = reset
                  /\ n2.known = n.known /\ n2.init = n.init /\ n2.power = n.power
                  /\ With(n1, reset) = n2 /\ With(n2, reset) = n2
                  BY <1>1, <3>1, WithType DEF lag
            <3> HIDE DEF n1, n2
            <3>3. n3 \in Machine /\ n3.p = reset /\ n3.init = TRUE /\ n3.known = n.known
                  BY <3>2, FlagType DEF Flags
            <3> HIDE DEF n3
            <3>4. n4.p = reset /\ n4.init = TRUE /\ n4.power = FALSE /\ n4.known = n.known
                  BY <3>3, FlagType DEF Flags
            <3> QED BY <3>1, <3>2, <3>3, <3>4
      <2>2. "Psr" \in WithArguments \ {"Old", "New"}
            BY DEF WithArguments
      <2>3. Runs(q, n, WithParams("Psr", SoftReset), n1)
            <3>1. Executed([n.p EXCEPT !.cmd = "Psr"], SoftReset) = [reset EXCEPT !.busy = "Lag"]
                  BY <1>1 DEF Executed, SoftReset, Params, PanelType
            <3> QED BY <1>1, <2>2, <3>1, ParamsTypes, WithParamsRuns
      <2> HIDE DEF n1
      <2>4. Runs(q, n1, <<Busy>>, n2)
            BY <2>1, BusyRuns
      <2> HIDE DEF n2
      <2>5. Runs(q, n2, WithParams("Psr", Params), n2)
            BY <2>1, SettingRuns
      <2>6. Runs(q, n2, <<Set("init", TRUE)>>, n3)
            BY <2>1, SetRuns, Zenon
      <2> HIDE DEF n3
      <2>7. Runs(q, n3, <<Set("power", FALSE)>>, n4)
            BY <2>1, SetRuns, Zenon
      <2> HIDE DEF n4
      <2>8. Runs(q, n2, <<Set("init", TRUE), Set("power", FALSE)>>, n4)
            BY <2>6, <2>7, RunsTwo
      <2> DEFINE s1 == p.steps \o WithParams("Psr", SoftReset) \o <<Busy>> \o WithParams("Psr", Params)
                     \o <<Set("init", TRUE), Set("power", FALSE)>>
      <2>9. Runs(q, m, s1, n4)
            <3>1. Runs(q, m, p.steps, n)
                  BY DEF Built
            <3>2. Runs(q, m, p.steps \o WithParams("Psr", SoftReset), n1)
                  BY <2>3, <3>1, RunsThen
            <3>3. Runs(q, m, p.steps \o WithParams("Psr", SoftReset) \o <<Busy>>, n2)
                  BY <2>4, <3>2, RunsThen
            <3>4. Runs(q, m, p.steps \o WithParams("Psr", SoftReset) \o <<Busy>> \o WithParams("Psr", Params), n2)
                  BY <2>5, <3>3, RunsThen
            <3> QED BY <2>8, <3>4, RunsThen
      <2>10. EnsureInit(p) = [steps |-> s1, init |-> TRUE, power |-> FALSE]
            BY <1>1, <1>3 DEF EnsureInit
      <2>11. s1 \in Seq(StepType)
            BY <2>9, RunsType
      <2> HIDE DEF s1
      <2>12. /\ n4.p = reset /\ n4.p.busy = "No" /\ n4.init /\ ~n4.power /\ ~n4.p.powered /\ Trusts(n4)
             /\ n4.init = TRUE /\ n4.power = FALSE /\ SameContents(n4, n)
            BY <1>1, <2>1 DEF Trusts, SameContents, PanelType
      <2>13. /\ EnsureInit(p) \in PlanType /\ EnsureInit(p).steps = s1
             /\ EnsureInit(p).init = TRUE /\ EnsureInit(p).power = FALSE
            BY <2>10, <2>11 DEF PlanType
      <2>14. Built(q, m, EnsureInit(p), n4)
            <3>1. EnsureInit(p).init = n4.init /\ EnsureInit(p).power = n4.power /\ n4.p.busy = "No"
                  BY <2>12, <2>13
            <3> QED BY <2>9, <2>13, <3>1 DEF Built
      <2> QED BY <2>12, <2>14
<1> QED BY <1>1, <1>2, <1>3 DEF Machine

\* The drive voltages
LEMMA PowerBuilt ==
    ASSUME NEW q, q.op = "Draw", NEW m, NEW p, NEW n, Built(q, m, p, n), n.power => n.p.powered
    PROVE  \E o : /\ Built(q, m, EnsurePower(p), o) /\ o.power /\ o.p.powered /\ o.init = n.init
                  /\ SameContents(o, n) /\ o.p.partial = n.p.partial /\ o.p.window = n.p.window
<1>1. n \in Machine /\ n.p \in PanelType /\ n.p.busy = "No" /\ p.init = n.init /\ p.power = n.power
      BY BuiltType
<1>2. CASE n.power
      <2>1. EnsurePower(p) = p
            BY <1>1, <1>2 DEF EnsurePower
      <2> QED BY <1>2, <2>1 DEF SameContents, Trusts
<1>3. CASE ~n.power
      <2> DEFINE on == [n.p EXCEPT !.cmd = "None", !.powered = TRUE]
                 n1 == With(n, [n.p EXCEPT !.cmd = "None", !.powered = TRUE, !.busy = "Lag"])
                 n2 == With(n, on)
                 n3 == [n2 EXCEPT !["power"] = TRUE]
      <2>1. /\ n1 \in Machine /\ With(n1, [n1.p EXCEPT !.busy = "No"]) = n2
            /\ n2 \in Machine /\ n2.p.busy = "No"
            /\ n3.p = on /\ n3.init = n.init /\ n3.power = TRUE /\ n3.known = n.known
            <3> DEFINE lag == [n.p EXCEPT !.cmd = "None", !.powered = TRUE, !.busy = "Lag"]
            <3>1. /\ on \in PanelType /\ on.busy = "No"
                  /\ lag \in PanelType /\ [lag EXCEPT !.busy = "No"] = on
                  BY <1>1 DEF PanelType
            <3> HIDE DEF on, lag
            <3>2. /\ n1 \in Machine /\ n1.p = lag /\ n2 \in Machine /\ n2.p = on
                  /\ n2.known = n.known /\ n2.init = n.init /\ With(n1, on) = n2
                  BY <1>1, <3>1, WithType DEF lag
            <3> HIDE DEF n1, n2
            <3> QED BY <3>1, <3>2, FlagType DEF Flags
      <2>2. Runs(q, n, <<Cmd("PowerOn")>>, n1)
            BY <1>1, PowerOnRuns
      <2> HIDE DEF n1
      <2>3. Runs(q, n1, <<Busy>>, n2)
            BY <2>1, BusyRuns
      <2> HIDE DEF n2
      <2>4. Runs(q, n2, <<Set("power", TRUE)>>, n3)
            BY <2>1, SetRuns, Zenon
      <2> HIDE DEF n3
      <2>5. Runs(q, n, <<Cmd("PowerOn"), Busy, Set("power", TRUE)>>, n3)
            BY <2>2, <2>3, <2>4, RunsThree
      <2>6. /\ n3.p = on /\ n3.power = TRUE /\ n3.init = n.init /\ n3.p.powered /\ n3.p.busy = "No"
            /\ n3.p.partial = n.p.partial /\ n3.p.window = n.p.window /\ SameContents(n3, n)
            BY <1>1, <2>1 DEF SameContents, PanelType
      <2> DEFINE s1 == <<Cmd("PowerOn"), Busy, Set("power", TRUE)>>
      <2>7. EnsurePower(p) = [p EXCEPT !.steps = @ \o s1, !.power = TRUE]
            BY <1>1, <1>3 DEF EnsurePower
      <2>8. Runs(q, n, s1, n3)
            BY <2>5
      <2> HIDE DEF s1
      <2>9. /\ EnsurePower(p) \in PlanType /\ EnsurePower(p).steps = p.steps \o s1
            /\ EnsurePower(p).init = n3.init /\ EnsurePower(p).power = n3.power
            <3> DEFINE steps == p.steps \o s1
            <3>1. steps \in Seq(StepType) /\ p \in PlanType
                  BY <2>8, MoreSteps
            <3>2. EnsurePower(p) = [p EXCEPT !.steps = steps, !.power = TRUE]
                  BY <2>7
            <3> HIDE DEF steps
            <3>3. /\ EnsurePower(p) \in PlanType /\ EnsurePower(p).steps = steps
                  /\ EnsurePower(p).init = p.init /\ EnsurePower(p).power = TRUE
                  BY <3>1, <3>2 DEF PlanType
            <3> QED BY <1>1, <2>6, <3>3 DEF steps
      <2>10. Built(q, m, EnsurePower(p), n3)
            BY <2>6, <2>8, <2>9, MoreBuilt
      <2> QED BY <2>6, <2>10
<1> QED BY <1>1, <1>2, <1>3 DEF Machine

\* A refresh leaves the controller to be reset before anything else.
LEMMA RefreshBuilt ==
    ASSUME NEW q, q.op = "Draw", NEW m, NEW p, NEW n, Built(q, m, p, n), n.p.powered,
           Inside(Target(n.p)) \subseteq Inside(q.flush.box)
    PROVE  \E o : /\ Built(q, m, Refresh(p), o) /\ ~o.init /\ o.power = n.power /\ o.known = n.known
                  /\ o.p.screen = Refreshed(n.p).screen /\ o.p.old = n.p.old /\ o.p.new = n.p.new
                  /\ o.p.powered
<1>1. n \in Machine /\ n.p \in PanelType /\ n.p.busy = "No" /\ p.init = n.init /\ p.power = n.power
      BY BuiltType
<1> DEFINE n1 == With(n, Refreshed([n.p EXCEPT !.cmd = "None"]))
           screen == Refreshed(n.p).screen
           shown == [n.p EXCEPT !.cmd = "None", !.screen = screen]
           n2 == With(n, shown)
           n3 == [n2 EXCEPT !["init"] = FALSE]
<1>2. Runs(q, n, <<Cmd("Refresh")>>, n1)
      BY <1>1, RefreshRuns
<1>3. n1 \in Machine
      BY <1>2, RunsType
<1>4. Refreshed([n.p EXCEPT !.cmd = "None"]) = [n.p EXCEPT !.cmd = "None", !.busy = "Lag", !.screen = screen]
      <2> DEFINE q0 == [n.p EXCEPT !.cmd = "None"]
      <2>1. /\ q0.screen = n.p.screen /\ q0.partial = n.p.partial /\ q0.old = n.p.old /\ q0.new = n.p.new
            /\ q0.window = n.p.window /\ Target(q0) = Target(n.p)
            BY <1>1 DEF PanelType, Target
      <2> DEFINE img == [c \in Cells |->
                  IF c \notin Inside(Target(n.p)) THEN n.p.screen[c]
                    ELSE IF n.p.partial /\ n.p.old[c] # n.p.screen[c] THEN Ghost(n.p.new[c])
                    ELSE n.p.new[c]]
      <2> HIDE DEF q0
      <2>2. Refreshed(q0) = [q0 EXCEPT !.busy = "Lag", !.screen = img]
            BY <2>1 DEF Refreshed
      <2>3. Refreshed(n.p) = [n.p EXCEPT !.busy = "Lag", !.screen = img]
            BY DEF Refreshed
      <2> HIDE DEF img
      <2>4. screen = img
            BY <1>1, <2>3 DEF PanelType
      <2> HIDE DEF screen
      <2> QED BY <1>1, <2>2, <2>4 DEF q0, PanelType
<1> HIDE DEF screen
<1>5. /\ With(n1, [n1.p EXCEPT !.busy = "No"]) = n2 /\ n2 \in Machine /\ n2.p.busy = "No"
      /\ n3.p = shown /\ n3.init = FALSE /\ n3.power = n.power /\ n3.known = n.known
      <2>1. n1.p = [n.p EXCEPT !.cmd = "None", !.busy = "Lag", !.screen = screen]
            BY <1>1, <1>4 DEF With, Machine
      <2>2. [n1.p EXCEPT !.busy = "No"] = shown
            BY <1>1, <2>1 DEF PanelType
      <2>3. screen \in Image
            BY <1>1, <1>3, <2>1 DEF Machine, PanelType
      <2>4. shown \in PanelType /\ shown.busy = "No"
            BY <1>1, <2>3 DEF PanelType
      <2> HIDE DEF shown
      <2>5. /\ n2 \in Machine /\ n2.p = shown /\ n2.power = n.power /\ n2.known = n.known /\ With(n1, shown) = n2
            <3>1. Refreshed([n.p EXCEPT !.cmd = "None"]) \in PanelType
                  BY <1>3, <2>1, <1>4 DEF Machine
            <3> QED BY <1>1, <2>4, <3>1, WithType
      <2> HIDE DEF n1, n2
      <2> QED BY <2>2, <2>4, <2>5, FlagType DEF Flags
<1> HIDE DEF n1
<1>6. Runs(q, n1, <<Busy>>, n2)
      BY <1>3, <1>5, BusyRuns
<1> HIDE DEF n2
<1>7. Runs(q, n2, <<Set("init", FALSE)>>, n3)
      BY <1>5, SetRuns, Zenon
<1> HIDE DEF n3
<1> DEFINE s1 == <<Cmd("Refresh"), Busy, Set("init", FALSE)>>
<1>8. Runs(q, n, s1, n3)
      BY <1>2, <1>6, <1>7, RunsThree
<1>9. Refresh(p) = [p EXCEPT !.steps = @ \o s1, !.init = FALSE]
      BY DEF Refresh
<1> HIDE DEF s1
<1>10. /\ n3.p = shown /\ n3.init = FALSE /\ n3.power = n.power /\ n3.known = n.known /\ n3.p.busy = "No"
       /\ n3.p.screen = screen /\ n3.p.old = n.p.old /\ n3.p.new = n.p.new /\ n3.p.powered
      BY <1>1, <1>5 DEF PanelType
<1>11. /\ Refresh(p) \in PlanType /\ Refresh(p).steps = p.steps \o s1
       /\ Refresh(p).init = n3.init /\ Refresh(p).power = n3.power
      <2> DEFINE steps == p.steps \o s1
      <2>1. steps \in Seq(StepType) /\ p \in PlanType
            BY <1>8, MoreSteps
      <2>2. Refresh(p) = [p EXCEPT !.steps = steps, !.init = FALSE]
            BY <1>9
      <2> HIDE DEF steps
      <2>3. /\ Refresh(p) \in PlanType /\ Refresh(p).steps = steps
            /\ Refresh(p).power = p.power /\ Refresh(p).init = FALSE
            BY <2>1, <2>2 DEF PlanType
      <2> QED BY <1>1, <1>10, <2>3 DEF steps
<1>12. Built(q, m, Refresh(p), n3)
      BY <1>8, <1>10, <1>11, MoreBuilt
<1> QED BY <1>10, <1>12 DEF screen
\* A flush written to one of the two buffers
WrittenTo(o, n, register, flush) ==
    /\ o.p.old = (IF register = "Old" THEN Overlay(n.p.old, flush) ELSE n.p.old)
    /\ o.p.new = (IF register = "New" THEN Overlay(n.p.new, flush) ELSE n.p.new)
    /\ o.p.screen = n.p.screen /\ o.p.powered = n.p.powered
    /\ o.init = n.init /\ o.power = n.power /\ o.known = n.known

\* The command, which leads from n to a, and the image, which leads on to o
Written(q, n, register, flush, a, o) ==
    /\ Runs(q, n, <<Cmd(register)>>, a) /\ Runs(q, a, Chunks(Bytes(flush.box, flush.data)), o)
    /\ o.p.busy = "No" /\ WrittenTo(o, n, register, flush)
    /\ Target(o.p) = Target(n.p) /\ o.p.partial = n.p.partial

LEMMA WriteRuns ==
    ASSUME NEW q, NEW n \in Machine, n.p.busy = "No", NEW register \in {"Old", "New"},
           NEW flush, flush.box \in Region, flush.data \in Image, Target(n.p) = flush.box
    PROVE  \E a, o : Written(q, n, register, flush, a, o)
<1> DEFINE b == flush.box
           image == flush.data
           p2 == [n.p EXCEPT !.cmd = register, !.pos = 0]
           n2 == With(n, p2)
           n3 == Loaded(n2, register, b, image, Area(b))
<1>1. b \in Region /\ image \in Image /\ Area(b) \in Nat /\ n.p \in PanelType
      BY RegionSize DEF Machine
<1>2. /\ p2 \in PanelType /\ p2.busy = "No" /\ p2.cmd = register /\ p2.pos = 0
      /\ p2.partial = n.p.partial /\ p2.window = n.p.window /\ Target(p2) = b
      /\ p2.old = n.p.old /\ p2.new = n.p.new /\ p2.screen = n.p.screen /\ p2.powered = n.p.powered
      BY <1>1 DEF PanelType, Target, WithArguments
<1>3. Commanded(n.p, register) = p2
      BY <1>1 DEF Commanded, WithArguments, PanelType
<1> HIDE DEF p2
<1>4. /\ n2 \in Machine /\ n2.p = p2 /\ n2.init = n.init /\ n2.power = n.power /\ n2.known = n.known
      BY <1>2, WithType
<1>5. Runs(q, n, <<Cmd(register)>>, n2)
      <2>1. register \in Command \ {"PowerOn", "Refresh"}
            BY DEF Command
      <2> QED BY <1>3, <2>1, CommandRuns
<1> HIDE DEF n2
<1>6. Runs(q, n2, Chunks(Bytes(b, image)), n3)
      BY <1>1, <1>2, <1>4, ChunksRun
<1>7. WrittenTo(n3, n, register, flush)
      <2>1. \A under \in Image : Filled(under, b, image, Area(b)) = Overlay(under, flush)
            <3> SUFFICES ASSUME NEW under \in Image PROVE Filled(under, b, image, Area(b)) = Overlay(under, flush)
                OBVIOUS
            <3>1. Filled(under, b, image, Area(b)) = [c \in Cells |-> IF c \in Inside(b) THEN image[c] ELSE under[c]]
                  BY <1>1, FilledPainted, 0 \in Nat, 0 <= 0
            <3> QED BY <3>1 DEF Overlay
      <2> DEFINE old == IF register = "Old" THEN Filled(p2.old, b, image, Area(b)) ELSE p2.old
                 new == IF register = "New" THEN Filled(p2.new, b, image, Area(b)) ELSE p2.new
                 pos == Area(b)
      <2>2. n3 = [n2 EXCEPT !.p = [p2 EXCEPT !.pos = pos, !.old = old, !.new = new]]
            BY <1>4 DEF Loaded, With
      <2>3. /\ old = (IF register = "Old" THEN Overlay(n.p.old, flush) ELSE n.p.old)
            /\ new = (IF register = "New" THEN Overlay(n.p.new, flush) ELSE n.p.new)
            BY <1>1, <1>2, <2>1 DEF PanelType
      <2> HIDE DEF n3, old, new, pos
      <2>4. /\ n3.p = [p2 EXCEPT !.pos = pos, !.old = old, !.new = new]
            /\ n3.init = n2.init /\ n3.power = n2.power /\ n3.known = n2.known
            BY <1>4, <2>2 DEF Machine
      <2> QED BY <1>2, <1>4, <2>3, <2>4 DEF PanelType, WrittenTo
<1>8. n3.p.busy = "No" /\ n3.p.partial = n.p.partial /\ n3.p.window = n.p.window
      BY <1>1, <1>2, <1>4, LoadedType
<1> HIDE DEF n3
<1> QED BY <1>5, <1>6, <1>7, <1>8 DEF Target, Written

\* Through the partial window
LEMMA WindowBuilt ==
    ASSUME NEW q, NEW m, NEW p, NEW n, Built(q, m, p, n), n.init, ~n.p.partial,
           NEW register \in {"Old", "New"}, NEW flush, flush.box \in Region, flush.data \in Image
    PROVE  \E o : /\ Built(q, m, WriteWindow(p, register, flush), o)
                  /\ WrittenTo(o, n, register, flush) /\ ~o.p.partial
<1>1. /\ n \in Machine /\ n.p \in PanelType /\ n.p.busy = "No" /\ p.init = n.init /\ p.power = n.power
      /\ EnsureInit(p) = p
      BY BuiltType DEF EnsureInit
<1> DEFINE b == flush.box
           p1 == [n.p EXCEPT !.cmd = "None", !.partial = TRUE, !.window = b]
           n1 == With(n, p1)
<1>2. b \in Box
      BY DEF Region
<1>3. /\ p1 \in PanelType /\ p1.busy = "No" /\ Target(p1) = b
      /\ p1.old = n.p.old /\ p1.new = n.p.new /\ p1.screen = n.p.screen /\ p1.powered = n.p.powered
      BY <1>1, <1>2 DEF PanelType, Target, WithArguments
<1>4. Runs(q, n, <<Cmd("PartialIn")>> \o WithParams("Window", Window(b)), n1)
      BY <1>1, <1>2, WindowRuns
<1> HIDE DEF p1
<1>5. n1 \in Machine /\ n1.p = p1 /\ n1.init = n.init /\ n1.power = n.power /\ n1.known = n.known
      BY <1>1, <1>3, WithType
<1> HIDE DEF n1
<1>6. PICK n2, n3 : /\ Runs(q, n1, <<Cmd(register)>>, n2) /\ Runs(q, n2, Chunks(Bytes(flush.box, flush.data)), n3)
                    /\ n3.p.busy = "No" /\ WrittenTo(n3, n1, register, flush)
      BY <1>3, <1>5, WriteRuns DEF Written
<1> DEFINE n4 == With(n3, [n3.p EXCEPT !.cmd = "None", !.partial = FALSE])
<1>7. n3 \in Machine
      BY <1>6, RunsType
<1>8. Runs(q, n3, <<Cmd("PartialOut")>>, n4)
      BY <1>6, <1>7, PartialOutRuns
<1>9. /\ n4.p.screen = n3.p.screen /\ n4.p.powered = n3.p.powered /\ ~n4.p.partial /\ n4.p.busy = "No"
      /\ n4.init = n3.init /\ n4.power = n3.power /\ n4.known = n3.known
      /\ n4.p.old = n3.p.old /\ n4.p.new = n3.p.new
      BY <1>6, <1>7 DEF With, Machine, PanelType
<1> HIDE DEF n4
<1>10. WrittenTo(n4, n, register, flush)
      BY <1>3, <1>5, <1>6, <1>9 DEF WrittenTo
<1> DEFINE s == <<Cmd("PartialIn")>> \o WithParams("Window", Window(b)) \o <<Cmd(register)>>
                \o Chunks(Bytes(b, flush.data)) \o <<Cmd("PartialOut")>>
<1>11. Runs(q, n, s, n4)
      <2>1. Runs(q, n, <<Cmd("PartialIn")>> \o WithParams("Window", Window(b)) \o <<Cmd(register)>>, n2)
            BY <1>4, <1>6, RunsThen
      <2>2. Runs(q, n, <<Cmd("PartialIn")>> \o WithParams("Window", Window(b)) \o <<Cmd(register)>>
                        \o Chunks(Bytes(b, flush.data)), n3)
            BY <1>6, <2>1, RunsThen
      <2> QED BY <1>8, <2>2, RunsThen
<1>12. WriteWindow(p, register, flush) = Then(p, s)
      BY <1>1 DEF WriteWindow
<1> HIDE DEF s
<1>13. Built(q, m, WriteWindow(p, register, flush), n4)
      BY <1>9, <1>10, <1>11, <1>12, ThenBuilt DEF WrittenTo
<1> QED BY <1>9, <1>10, <1>13

-----------------------------------------------------------------------------
(* The plans *)

FirstPlan(m) == [steps |-> <<Busy>>, init |-> m.init, power |-> m.power]

LEMMA FirstBuilt ==
    ASSUME NEW q, NEW m \in Machine
    PROVE  \E o : /\ Built(q, m, FirstPlan(m), o) /\ SameContents(o, m)
                  /\ o.init = m.init /\ o.power = m.power
                  /\ o.p.partial = m.p.partial /\ o.p.powered = m.p.powered
<1> DEFINE p == [m.p EXCEPT !.busy = "No"]
           n == With(m, p)
<1>1. Runs(q, m, <<Busy>>, n)
      BY BusyRuns
<1>2. /\ p \in PanelType /\ p.busy = "No" /\ p.old = m.p.old /\ p.new = m.p.new /\ p.screen = m.p.screen
      /\ p.partial = m.p.partial /\ p.powered = m.p.powered
      BY DEF Machine, PanelType
<1> HIDE DEF p
<1>3. n.p = p /\ n.init = m.init /\ n.power = m.power /\ n.known = m.known
      BY <1>2, WithType
<1> HIDE DEF n
<1>4. FirstPlan(m) \in PlanType
      <2>1. <<Busy>> \in Seq(StepType) /\ m.init \in BOOLEAN /\ m.power \in BOOLEAN
            BY <1>1, RunsType DEF Machine
      <2> QED BY <2>1 DEF FirstPlan, PlanType
<1>5. Built(q, m, FirstPlan(m), n)
      BY <1>1, <1>2, <1>3, <1>4 DEF Built, FirstPlan
<1> QED BY <1>2, <1>3, <1>5 DEF SameContents

\* A draw of a region ends with the region shown, the rest as it was, and the
\* controller's previous buffer equal to what is on screen.
LEMMA PartialPlan ==
    ASSUME NEW q, q.op = "Draw", q.flush.box \in Region, q.flush.data \in Image,
           NEW m \in Machine, Trusts(m), m.p.old = m.p.screen
    PROVE  \E n : /\ Built(q, m, PlanPartial(FirstPlan(m), q.flush), n) /\ Trusts(n) /\ n.known = m.known
                  /\ n.p.screen = Overlay(m.p.screen, q.flush) /\ n.p.old = n.p.screen
                  /\ ~n.power /\ ~n.p.powered
<1> DEFINE flush == q.flush
           windowed == <<Cmd("PartialIn")>> \o WithParams("Window", Window(flush.box)) \o Settings
           written == WriteWindow(EnsureInit(FirstPlan(m)), "New", flush)
           ready == EnsurePower(Then(written, windowed))
           shown == Then(Refresh(ready), <<Cmd("PartialOut")>>)
<1>0. flush.box \in Region /\ flush.data \in Image
      OBVIOUS
<1>1. PICK n0 : /\ Built(q, m, FirstPlan(m), n0) /\ SameContents(n0, m) /\ Trusts(n0)
      BY FirstBuilt DEF Trusts
<1>2. PICK n1 : /\ Built(q, m, EnsureInit(FirstPlan(m)), n1) /\ Trusts(n1) /\ n1.init /\ SameContents(n1, n0)
      BY <1>1, InitBuilt
<1>3. PICK n2 : /\ Built(q, m, written, n2) /\ n2.init /\ n2.power = n1.power /\ n2.known = n1.known
                /\ ~n2.p.partial /\ n2.p.powered = n1.p.powered /\ n2.p.screen = n1.p.screen
                /\ n2.p.old = n1.p.old /\ n2.p.new = Overlay(n1.p.new, flush)
      <2>1. "New" \in {"Old", "New"} /\ ("New" = "Old") = FALSE
            OBVIOUS
      <2>2. ~n1.p.partial
            BY <1>2 DEF Trusts
      <2> HIDE DEF flush
      <2> DEFINE p == EnsureInit(FirstPlan(m))
      <2>3. Built(q, m, p, n1) /\ n1.init
            BY <1>2
      <2> HIDE DEF p
      <2>4. \E o : /\ Built(q, m, WriteWindow(p, "New", flush), o)
                  /\ WrittenTo(o, n1, "New", flush) /\ ~o.p.partial
            BY <1>0, <2>1, <2>2, <2>3, WindowBuilt
      <2> QED BY <1>2, <2>1, <2>4 DEF p, WrittenTo
<1> HIDE DEF written
<1>4. PICK n3 : /\ Built(q, m, Then(written, windowed), n3) /\ n3.init = n2.init /\ n3.power = n2.power
                /\ SameContents(n3, n2) /\ n3.p.partial = TRUE /\ n3.p.window = flush.box
                /\ n3.p.powered = n2.p.powered
      <2> DEFINE a == With(n2, [n2.p EXCEPT !.cmd = "None", !.partial = TRUE, !.window = flush.box])
                 o == With(a, [a.p EXCEPT !.cmd = "None"])
      <2>1. n2 \in Machine /\ n2.p \in PanelType /\ n2.p.busy = "No" /\ flush.box \in Box
            BY <1>3, BuiltType DEF Region
      <2>2. Runs(q, n2, <<Cmd("PartialIn")>> \o WithParams("Window", Window(flush.box)), a)
            BY <2>1, WindowRuns
      <2>3. /\ a \in Machine /\ a.p = [n2.p EXCEPT !.cmd = "None", !.partial = TRUE, !.window = flush.box]
            /\ a.init = n2.init /\ a.power = n2.power /\ a.known = n2.known /\ a.p.busy = "No"
            BY <2>1, <2>2, RunsType DEF With, Machine, PanelType
      <2> HIDE DEF a
      <2>4. Runs(q, a, Settings, o)
            BY <2>3, SettingsRun
      <2>5. /\ o.init = n2.init /\ o.power = n2.power /\ SameContents(o, n2) /\ o.p.busy = "No"
            /\ o.p.partial = TRUE /\ o.p.window = flush.box /\ o.p.powered = n2.p.powered
            BY <2>1, <2>3 DEF With, Machine, PanelType, SameContents
      <2> HIDE DEF o
      <2>6. Runs(q, n2, windowed, o)
            BY <2>2, <2>4, RunsThen
      <2> HIDE DEF windowed
      <2> QED BY <1>3, <2>5, <2>6, ThenBuilt
<1> HIDE DEF windowed
<1>5. PICK n4 : /\ Built(q, m, ready, n4) /\ n4.power /\ n4.p.powered
                /\ SameContents(n4, n3) /\ n4.p.partial = n3.p.partial /\ n4.p.window = n3.p.window
      <2>1. n3.power => n3.p.powered
            BY <1>2, <1>3, <1>4 DEF Trusts
      <2> QED BY <1>4, <2>1, PowerBuilt
<1> HIDE DEF ready
<1>6. Target(n4.p) = flush.box /\ n4.p.partial
      BY <1>4, <1>5 DEF Target
<1>7. PICK n5 : /\ Built(q, m, Refresh(ready), n5) /\ ~n5.init /\ n5.power = n4.power /\ n5.known = n4.known
                /\ n5.p.screen = Refreshed(n4.p).screen /\ n5.p.old = n4.p.old /\ n5.p.powered
      BY <1>5, <1>6, RefreshBuilt, ZenonT(60)
<1>8. n5.p.screen = Overlay(m.p.screen, flush) /\ n5.p.old = m.p.screen
      <2>1. /\ n4.p.old = m.p.screen /\ n4.p.screen = m.p.screen /\ n4.p.new = Overlay(n1.p.new, flush)
            BY <1>1, <1>2, <1>3, <1>4, <1>5 DEF SameContents
      <2>2. n4.p \in PanelType
            BY <1>5, BuiltType
      <2> DEFINE img == [c \in Cells |->
                  IF c \notin Inside(Target(n4.p)) THEN n4.p.screen[c]
                    ELSE IF n4.p.partial /\ n4.p.old[c] # n4.p.screen[c] THEN Ghost(n4.p.new[c])
                    ELSE n4.p.new[c]]
      <2>3. Refreshed(n4.p) = [n4.p EXCEPT !.busy = "Lag", !.screen = img]
            BY DEF Refreshed
      <2>4. ASSUME NEW c \in Cells
            PROVE  img[c] = IF c \in Inside(flush.box) THEN flush.data[c] ELSE m.p.screen[c]
            BY <1>6, <2>1 DEF Overlay
      <2>5. img = Overlay(m.p.screen, flush)
            <3>1. DOMAIN img = Cells
                  OBVIOUS
            <3> HIDE DEF img, flush
            <3> QED BY <2>4, <3>1 DEF Overlay, img
      <2> HIDE DEF img
      <2>6. Refreshed(n4.p).screen = img
            BY <2>2, <2>3 DEF PanelType
      <2> QED BY <1>7, <2>1, <2>5, <2>6
<1>9. PICK n6 : /\ Built(q, m, shown, n6) /\ ~n6.init /\ n6.known = n5.known
                /\ n6.p.screen = n5.p.screen /\ n6.p.old = n5.p.old /\ n6.p.powered
      <2> DEFINE o == With(n5, [n5.p EXCEPT !.cmd = "None", !.partial = FALSE])
      <2>1. n5 \in Machine /\ n5.p \in PanelType /\ n5.p.busy = "No"
            BY <1>7, BuiltType
      <2>2. Runs(q, n5, <<Cmd("PartialOut")>>, o)
            BY <2>1, PartialOutRuns
      <2>3. /\ o.init = n5.init /\ o.power = n5.power /\ o.known = n5.known /\ o.p.busy = "No"
            /\ o.p.screen = n5.p.screen /\ o.p.old = n5.p.old /\ o.p.powered = n5.p.powered
            BY <2>1 DEF With, Machine, PanelType
      <2> HIDE DEF o
      <2> QED BY <1>7, <2>2, <2>3, ThenBuilt
<1> HIDE DEF shown
<1>10. PICK n7 : /\ Built(q, m, EnsureInit(shown), n7) /\ Trusts(n7) /\ n7.init /\ SameContents(n7, n6)
                 /\ ~n7.power /\ ~n7.p.powered
      <2>1. Trusts(n6)
            BY <1>9 DEF Trusts
      <2> QED BY <1>9, <2>1, InitBuilt
<1>11. PICK n8 : /\ Built(q, m, WriteWindow(EnsureInit(shown), "Old", flush), n8) /\ n8.init /\ n8.power = n7.power
                 /\ n8.known = n7.known /\ ~n8.p.partial /\ n8.p.powered = n7.p.powered
                 /\ n8.p.screen = n7.p.screen /\ n8.p.old = Overlay(n7.p.old, flush)
      <2>1. "Old" \in {"Old", "New"}
            OBVIOUS
      <2>2. ~n7.p.partial
            BY <1>10 DEF Trusts
      <2> HIDE DEF flush
      <2> DEFINE p == EnsureInit(shown)
      <2>3. Built(q, m, p, n7) /\ n7.init
            BY <1>10
      <2> HIDE DEF p
      <2>4. \E o : /\ Built(q, m, WriteWindow(p, "Old", flush), o)
                  /\ WrittenTo(o, n7, "Old", flush) /\ ~o.p.partial
            BY <1>0, <2>1, <2>2, <2>3, WindowBuilt
      <2> QED BY <1>10, <2>4 DEF p, WrittenTo
<1>12. PlanPartial(FirstPlan(m), flush) = WriteWindow(EnsureInit(shown), "Old", flush)
      <2>1. \A p : EnsureInit(EnsureInit(p)) = EnsureInit(p)
            BY DEF EnsureInit
      <2>2. \A p, register : WriteWindow(p, register, flush) = WriteWindow(EnsureInit(p), register, flush)
            BY <2>1 DEF WriteWindow
      <2>3. EnsureInit(written) = written
            BY <1>3, BuiltType DEF EnsureInit
      <2>4. WriteWindow(FirstPlan(m), "New", flush) = written
            BY <2>2 DEF written
      <2> HIDE DEF flush
      <2> QED BY <2>2, <2>3, <2>4 DEF PlanPartial, shown, ready, windowed
<1>13. Trusts(n8) /\ ~n8.power /\ ~n8.p.powered /\ n8.known = m.known
      BY <1>1, <1>2, <1>3, <1>4, <1>5, <1>7, <1>9, <1>10, <1>11 DEF Trusts, SameContents
<1>14. n8.p.screen = Overlay(m.p.screen, flush) /\ n8.p.old = n8.p.screen
      <2>1. n8.p.screen = Overlay(m.p.screen, flush) /\ n8.p.old = Overlay(m.p.screen, flush)
            BY <1>8, <1>9, <1>10, <1>11 DEF SameContents
      <2> QED BY <2>1
<1> QED BY <1>11, <1>12, <1>13, <1>14
\* A full draw ends with its image on screen and in both buffers.
LEMMA FullPlan ==
    ASSUME NEW q, q.op = "Draw", q.flush.box = Screen, q.flush.data \in Image,
           NEW m \in Machine, Trusts(m)
    PROVE  \E n : /\ Built(q, m, PlanFull(FirstPlan(m), q.flush), n) /\ Trusts(n) /\ n.known
                  /\ n.p.screen = Overlay(m.p.screen, q.flush) /\ n.p.old = n.p.screen
                  /\ n.power /\ n.p.powered
<1> DEFINE flush == q.flush
           bytes == Chunks(Bytes(flush.box, flush.data))
           images == <<Cmd("Old")>> \o bytes \o <<Cmd("New")>> \o bytes \o Settings
           written == Then(EnsureInit(FirstPlan(m)), images)
           shown == Refresh(EnsurePower(written))
<1>0. flush.box \in Region /\ flush.data \in Image
      BY SizeAssumption DEF Region, Screen, Box
<1>1. PICK n0 : /\ Built(q, m, FirstPlan(m), n0) /\ SameContents(n0, m) /\ Trusts(n0)
      BY FirstBuilt DEF Trusts
<1>2. PICK n1 : /\ Built(q, m, EnsureInit(FirstPlan(m)), n1) /\ Trusts(n1) /\ n1.init /\ SameContents(n1, n0)
      BY <1>1, InitBuilt
<1>3. n1 \in Machine /\ n1.p.busy = "No" /\ Target(n1.p) = flush.box /\ ~n1.p.partial
      BY <1>2, BuiltType DEF Trusts, Target
<1> HIDE DEF flush
<1>4. PICK a, n2 : Written(q, n1, "Old", flush, a, n2)
      <2>1. "Old" \in {"Old", "New"}
            OBVIOUS
      <2> QED BY <1>0, <1>3, <2>1, WriteRuns
<1>5. PICK e, n3 : Written(q, n2, "New", flush, e, n3)
      <2>1. "New" \in {"Old", "New"} /\ n2 \in Machine /\ n2.p.busy = "No" /\ Target(n2.p) = flush.box
            BY <1>3, <1>4, RunsType DEF Written
      <2> QED BY <1>0, <2>1, WriteRuns
<1> USE DEF Written
<1>6. PICK n4 : /\ Built(q, m, written, n4) /\ n4.init = n1.init /\ n4.power = n1.power /\ SameContents(n4, n3)
                /\ n4.p.powered = n1.p.powered /\ ~n4.p.partial
      <2> DEFINE o == With(n3, [n3.p EXCEPT !.cmd = "None"])
      <2>1. n3 \in Machine /\ n3.p \in PanelType
            BY <1>5, RunsType DEF Machine
      <2>2. Runs(q, n3, Settings, o)
            BY <1>5, <2>1, SettingsRun
      <2>3. /\ o.init = n3.init /\ o.power = n3.power /\ SameContents(o, n3) /\ o.p.busy = "No"
            /\ o.p.partial = n3.p.partial /\ o.p.powered = n3.p.powered
            BY <1>5, <2>1 DEF With, Machine, PanelType, SameContents
      <2> HIDE DEF o
      <2>4. Runs(q, n1, images, o)
            <3>1. Runs(q, n1, <<Cmd("Old")>> \o bytes, n2)
                  BY <1>4, RunsThen
            <3>2. Runs(q, n1, <<Cmd("Old")>> \o bytes \o <<Cmd("New")>>, e)
                  BY <1>5, <3>1, RunsThen
            <3>3. Runs(q, n1, <<Cmd("Old")>> \o bytes \o <<Cmd("New")>> \o bytes, n3)
                  BY <1>5, <3>2, RunsThen
            <3> QED BY <2>2, <3>3, RunsThen
      <2> HIDE DEF images, bytes
      <2>5. o.init = n1.init /\ o.power = n1.power /\ o.p.powered = n1.p.powered /\ ~o.p.partial
            BY <1>3, <1>4, <1>5, <2>3 DEF WrittenTo
      <2>6. Built(q, m, written, o)
            BY <1>2, <2>3, <2>4, <2>5, ThenBuilt
      <2> QED BY <2>3, <2>5, <2>6
<1> HIDE DEF written
<1>7. PICK n5 : /\ Built(q, m, EnsurePower(written), n5) /\ n5.power /\ n5.p.powered
                /\ SameContents(n5, n4) /\ n5.p.partial = n4.p.partial /\ n5.p.window = n4.p.window
      <2>1. n4.power => n4.p.powered
            BY <1>2, <1>6 DEF Trusts
      <2> QED BY <1>6, <2>1, PowerBuilt
<1>8. Target(n5.p) = flush.box /\ ~n5.p.partial
      BY <1>6, <1>7 DEF Target, flush
<1>9. PICK n6 : /\ Built(q, m, shown, n6) /\ ~n6.init /\ n6.power = n5.power /\ n6.known = n5.known
                /\ n6.p.screen = Refreshed(n5.p).screen /\ n6.p.old = n5.p.old /\ n6.p.powered
      BY <1>7, <1>8, RefreshBuilt, ZenonT(60) DEF flush
<1>10. n6.p.screen = Overlay(m.p.screen, flush) /\ n6.p.old = n6.p.screen
      <2>1. n5.p.old = Overlay(m.p.old, flush) /\ n5.p.new = Overlay(m.p.new, flush) /\ n5.p.screen = m.p.screen
            BY <1>1, <1>2, <1>4, <1>5, <1>6, <1>7 DEF SameContents, WrittenTo
      <2>2. n5.p \in PanelType
            BY <1>7, BuiltType
      <2>3. \A c \in Cells : c \in Inside(flush.box)
            BY SizeAssumption DEF Inside, Cells, Screen, flush
      <2> DEFINE img == [c \in Cells |->
                  IF c \notin Inside(Target(n5.p)) THEN n5.p.screen[c]
                    ELSE IF n5.p.partial /\ n5.p.old[c] # n5.p.screen[c] THEN Ghost(n5.p.new[c])
                    ELSE n5.p.new[c]]
      <2>4. Refreshed(n5.p) = [n5.p EXCEPT !.busy = "Lag", !.screen = img]
            BY DEF Refreshed
      <2>5. ASSUME NEW c \in Cells
            PROVE  /\ img[c] = flush.data[c]
                   /\ Overlay(m.p.screen, flush)[c] = flush.data[c] /\ Overlay(m.p.old, flush)[c] = flush.data[c]
            BY <1>8, <2>1, <2>3 DEF Overlay
      <2>6. img = Overlay(m.p.screen, flush) /\ Overlay(m.p.old, flush) = Overlay(m.p.screen, flush)
            <3>1. DOMAIN img = Cells
                  OBVIOUS
            <3> HIDE DEF img
            <3> QED BY <2>5, <3>1 DEF Overlay, img
      <2> HIDE DEF img
      <2>7. Refreshed(n5.p).screen = img
            BY <2>2, <2>4 DEF PanelType
      <2> QED BY <1>9, <2>1, <2>6, <2>7
<1> HIDE DEF shown
<1>11. PICK n7 : /\ Built(q, m, Then(shown, <<Set("known", TRUE)>>), n7) /\ n7.init = n6.init /\ n7.power = n6.power
                 /\ n7.known /\ n7.p = n6.p
      <2> DEFINE o == [n6 EXCEPT !["known"] = TRUE]
      <2>1. n6 \in Machine /\ n6.p.busy = "No"
            BY <1>9, BuiltType
      <2>2. Runs(q, n6, <<Set("known", TRUE)>>, o)
            BY <2>1, SetRuns, Zenon
      <2>3. o.p = n6.p /\ o.init = n6.init /\ o.power = n6.power /\ o.known
            BY <2>1, FlagType DEF Flags
      <2> HIDE DEF o
      <2> QED BY <1>9, <2>1, <2>2, <2>3, ThenBuilt
<1>12. PlanFull(FirstPlan(m), flush) = Then(shown, <<Set("known", TRUE)>>)
      BY DEF PlanFull, shown, written, flush
<1>13. Trusts(n7) /\ n7.power /\ n7.p.powered
      BY <1>7, <1>9, <1>11 DEF Trusts
<1> QED BY <1>10, <1>11, <1>12, <1>13 DEF flush

\* Switching off leaves the screen, and the voltages off unless the protocol
\* took them to be.
LEMMA OffPlan ==
    ASSUME NEW q, NEW m \in Machine, Trusts(m)
    PROVE  \E n : /\ Runs(q, m, PlanOff(FirstPlan(m)).steps, n) /\ n.p.busy = "No" /\ Trusts(n)
                  /\ SameContents(n, m)
                  /\ ~n.power /\ n.p.powered = (m.p.powered /\ ~m.power)
<1>1. PICK n0 : /\ Built(q, m, FirstPlan(m), n0) /\ SameContents(n0, m)
                /\ n0.init = m.init /\ n0.power = m.power
                /\ n0.p.partial = m.p.partial /\ n0.p.powered = m.p.powered
      BY FirstBuilt
<1>2. /\ n0 \in Machine /\ n0.p \in PanelType /\ n0.p.busy = "No" /\ FirstPlan(m).power = n0.power
      /\ FirstPlan(m).init = n0.init
      BY <1>1, BuiltType
<1>3. CASE ~m.power
      <2>1. PlanOff(FirstPlan(m)) = FirstPlan(m)
            BY <1>3 DEF PlanOff, FirstPlan
      <2>2. n0.p.powered = (m.p.powered /\ ~m.power)
            BY <1>1, <1>2, <1>3 DEF PanelType
      <2> QED BY <1>1, <1>2, <1>3, <2>1, <2>2 DEF Trusts, Built
<1>4. CASE m.power
      <2> DEFINE off == [n0.p EXCEPT !.cmd = "None", !.powered = FALSE]
                 lag == [n0.p EXCEPT !.cmd = "None", !.powered = FALSE, !.busy = "Lag"]
                 n1 == With(n0, lag)
                 n2 == With(n0, off)
                 n3 == [n2 EXCEPT !["power"] = FALSE]
                 s == <<Cmd("PowerOff"), Busy, Set("power", FALSE)>>
      <2>1. /\ off \in PanelType /\ off.busy = "No" /\ off.powered = FALSE /\ off.partial = n0.p.partial
            /\ off.old = n0.p.old /\ off.new = n0.p.new /\ off.screen = n0.p.screen
            /\ lag \in PanelType /\ [lag EXCEPT !.busy = "No"] = off
            BY <1>2 DEF PanelType
      <2>2. Runs(q, n0, <<Cmd("PowerOff")>>, n1)
            <3>1. Commanded(n0.p, "PowerOff") = lag
                  BY <1>2 DEF Commanded, WithArguments, PanelType
            <3>2. "PowerOff" \in Command \ {"PowerOn", "Refresh"}
                  BY DEF Command
            <3> HIDE DEF lag
            <3> QED BY <1>2, <3>1, <3>2, CommandRuns
      <2> HIDE DEF off, lag
      <2>3. /\ n1 \in Machine /\ n1.p = lag /\ n2 \in Machine /\ n2.p = off
            /\ n2.known = n0.known /\ n2.init = n0.init /\ With(n1, off) = n2
            BY <1>2, <2>1, WithType
      <2> HIDE DEF n1
      <2>4. Runs(q, n1, <<Busy>>, n2)
            BY <2>1, <2>3, BusyRuns
      <2> HIDE DEF n2
      <2>5. Runs(q, n2, <<Set("power", FALSE)>>, n3)
            BY <2>1, <2>3, SetRuns, Zenon
      <2>6. n3.p = off /\ n3.init = n0.init /\ n3.power = FALSE /\ n3.known = n0.known
            BY <2>3, FlagType DEF Flags
      <2> HIDE DEF n3
      <2>7. Runs(q, n0, s, n3)
            BY <2>2, <2>4, <2>5, RunsThree
      <2>8. PlanOff(FirstPlan(m)).steps = FirstPlan(m).steps \o s
            BY <1>4 DEF PlanOff, FirstPlan, Then
      <2> HIDE DEF s
      <2>9. Runs(q, m, PlanOff(FirstPlan(m)).steps, n3)
            BY <1>1, <2>7, <2>8, MoreSteps
      <2>10. n3.p.powered = (m.p.powered /\ ~m.power) /\ ~n3.power
            BY <1>4, <2>1, <2>6
      <2>11. SameContents(n3, m) /\ n3.p.busy = "No" /\ Trusts(n3)
            BY <1>1, <2>1, <2>6 DEF SameContents, Trusts
      <2> QED BY <2>9, <2>10, <2>11
<1> QED BY <1>3, <1>4 DEF Machine
\* What the steps of a request lead to, from what there was before: the screen
\* with the draw on it, the voltages on after a full draw alone; or the same
\* screen, and the voltages off if the protocol took them to be on.
Reached(q, b, n) ==
    /\ n.p.busy = "No" /\ Trusts(n) /\ (n.known => n.p.old = n.p.screen)
    /\ q.op = "Draw" =>
          /\ n.known /\ n.p.screen = Overlay(b.screen, q.flush)
          /\ n.power = (q.flush.kind = "Full") /\ n.p.powered = n.power
    /\ q.op = "PowerOff" =>
          /\ n.known = b.known /\ n.p.screen = b.screen
          /\ n.power = FALSE /\ n.p.powered = (b.volts /\ ~b.power)

LEMMA RequestType ==
    ASSUME NEW q \in Requestable
    PROVE  \/ q.op = "PowerOff"
           \/ /\ q.op = "Draw" /\ q.flush.kind = "Full" /\ q.flush.box = Screen /\ q.flush.data \in Image
              /\ Screen # NoBox /\ Screen \in Region
           \/ /\ q.op = "Draw" /\ q.flush.kind = "Partial" /\ q.flush.box \in Region \cup {NoBox}
              /\ q.flush.data \in Image
<1>1. Screen # NoBox /\ Screen \in Region
      BY SizeAssumption DEF Screen, NoBox, Region, Box
<1> QED BY <1>1 DEF Requestable, OffRequest, DrawRequest, Full, Partial

\* Every request that is not refused has a plan that may be carried out, and
\* does what is asked.
LEMMA PlanRuns ==
    ASSUME NEW q \in Requestable, NEW m \in Machine, Trusts(m), m.known => m.p.old = m.p.screen,
           NEW had, had.init = m.init, had.power = m.power, had.known = m.known, ~Refuses(had, q),
           NEW b, b.screen = m.p.screen, b.volts = m.p.powered, b.known = m.known, b.power = m.power
    PROVE  \E n : Runs(q, m, Plan(had, q), n) /\ Reached(q, b, n)
<1> DEFINE p == [steps |-> <<Busy>>, init |-> had.init, power |-> had.power]
<1>1. p = FirstPlan(m)
      BY DEF FirstPlan
<1>2. CASE q.op = "PowerOff"
      <2>1. PICK n : /\ Runs(q, m, PlanOff(FirstPlan(m)).steps, n) /\ n.p.busy = "No" /\ Trusts(n)
                     /\ SameContents(n, m) /\ ~n.power /\ n.p.powered = (m.p.powered /\ ~m.power)
            BY OffPlan
      <2>2. Plan(had, q) = PlanOff(p).steps
            BY <1>2 DEF Plan
      <2>3. n \in Machine
            BY <2>1, RunsType
      <2>4. Reached(q, b, n)
            BY <1>2, <2>1, <2>3 DEF Reached, SameContents, Machine
      <2> QED BY <1>1, <2>1, <2>2, <2>4
<1>3. CASE q.op = "Draw" /\ q.flush.kind = "Full" /\ q.flush.box = Screen /\ q.flush.data \in Image
      <2>1. PICK n : /\ Built(q, m, PlanFull(FirstPlan(m), q.flush), n) /\ Trusts(n) /\ n.known
                     /\ n.p.screen = Overlay(m.p.screen, q.flush) /\ n.p.old = n.p.screen
                     /\ n.power /\ n.p.powered
            BY <1>3, FullPlan
      <2>2. Plan(had, q) = PlanFull(p, q.flush).steps
            BY <1>3 DEF Plan
      <2>3. n \in Machine /\ n.p \in PanelType /\ n.p.busy = "No" /\ Runs(q, m, PlanFull(p, q.flush).steps, n)
            <3> HIDE DEF p
            <3>1. n \in Machine /\ n.p \in PanelType /\ n.p.busy = "No"
                  BY <2>1, BuiltType
            <3>2. Runs(q, m, PlanFull(FirstPlan(m), q.flush).steps, n)
                  BY <2>1 DEF Built
            <3> QED BY <1>1, <3>1, <3>2
      <2>4. n.power = TRUE /\ n.p.powered = TRUE
            BY <2>1, <2>3 DEF Machine, PanelType
      <2>5. Reached(q, b, n)
            BY <1>3, <2>1, <2>3, <2>4 DEF Reached
      <2> QED BY <2>2, <2>3, <2>5
<1>4. CASE q.op = "Draw" /\ q.flush.kind = "Partial" /\ q.flush.box \in Region /\ q.flush.data \in Image /\ m.known
      <2>1. PICK n : /\ Built(q, m, PlanPartial(FirstPlan(m), q.flush), n) /\ Trusts(n) /\ n.known = m.known
                     /\ n.p.screen = Overlay(m.p.screen, q.flush) /\ n.p.old = n.p.screen
                     /\ ~n.power /\ ~n.p.powered
            <3>1. q.op = "Draw" /\ q.flush.box \in Region /\ q.flush.data \in Image /\ m.p.old = m.p.screen
                  BY <1>4
            <3> HIDE DEF p
            <3> QED BY <3>1, PartialPlan
      <2>2. Plan(had, q) = PlanPartial(p, q.flush).steps
            BY <1>4 DEF Plan
      <2>3. n \in Machine /\ n.p \in PanelType /\ n.p.busy = "No" /\ Runs(q, m, PlanPartial(p, q.flush).steps, n)
            <3> HIDE DEF p
            <3>1. n \in Machine /\ n.p \in PanelType /\ n.p.busy = "No"
                  BY <2>1, BuiltType
            <3>2. Runs(q, m, PlanPartial(FirstPlan(m), q.flush).steps, n)
                  BY <2>1 DEF Built
            <3> QED BY <1>1, <3>1, <3>2
      <2>4. n.power = FALSE /\ n.p.powered = FALSE
            BY <2>1, <2>3 DEF Machine, PanelType
      <2>5. Reached(q, b, n)
            BY <1>4, <2>1, <2>3, <2>4 DEF Reached
      <2> QED BY <2>2, <2>3, <2>5
<1> QED BY <1>2, <1>3, <1>4, RequestType DEF Refuses

-----------------------------------------------------------------------------
(* The e-paper protocol's state *)

NoRequest == [op |-> "None"]
JobType ==
    [steps : Seq(StepType), wait : {"None", "Settling", "Pin"}, request : Requests \cup {NoRequest}]
EpaperType ==
    [queue : Seq(Requests), job : JobType, init : BOOLEAN, power : BOOLEAN, known : BOOLEAN]

SameFlags(e, f) == e.init = f.init /\ e.power = f.power /\ e.known = f.known

LEMMA RequestOps ==
    ASSUME NEW q \in Requests
    PROVE  q \in Requestable /\ q.op \in {"Draw", "PowerOff"} /\ q # NoRequest
BY RequestsAssumption DEF Requestable, OffRequest, DrawRequest, NoRequest

LEMMA SubmittedType ==
    ASSUME NEW e \in EpaperType, NEW q \in Requests
    PROVE  /\ Submitted(e, q) \in EpaperType /\ Submitted(e, q).job = e.job
           /\ Submitted(e, q).queue = Append(e.queue, q) /\ SameFlags(Submitted(e, q), e)
BY DEF EpaperType, Submitted, SameFlags

LEMMA DequeuedType ==
    ASSUME NEW e \in EpaperType, e.queue # <<>>
    PROVE  /\ Dequeued(e) \in EpaperType /\ Dequeued(e).job = e.job
           /\ Dequeued(e).queue = Tail(e.queue) /\ SameFlags(Dequeued(e), e)
           /\ Head(e.queue) \in Requests
<1> DEFINE rest == Tail(e.queue)
<1>1. rest \in Seq(Requests) /\ Head(e.queue) \in Requests
      BY HeadTailProperties DEF EpaperType
<1>2. Dequeued(e) = [e EXCEPT !.queue = rest]
      BY DEF Dequeued
<1> HIDE DEF rest
<1>3. Dequeued(e) \in EpaperType /\ Dequeued(e).job = e.job /\ Dequeued(e).queue = rest /\ SameFlags(Dequeued(e), e)
      BY <1>1, <1>2 DEF EpaperType, SameFlags
<1> QED BY <1>1, <1>3 DEF rest

LEMMA JobFields ==
    ASSUME NEW e \in EpaperType, NEW j \in JobType
    PROVE  /\ [e EXCEPT !.job = j] \in EpaperType /\ [e EXCEPT !.job = j].job = j
           /\ [e EXCEPT !.job = j].queue = e.queue /\ SameFlags([e EXCEPT !.job = j], e)
BY DEF EpaperType, SameFlags

LEMMA StartedType ==
    ASSUME NEW e \in EpaperType, e.queue # <<>>, Plan(e, Head(e.queue)) \in Seq(StepType)
    PROVE  /\ Started(e) \in EpaperType /\ HasJob(Started(e))
           /\ Started(e).queue = Tail(e.queue) /\ SameFlags(Started(e), e)
           /\ Started(e).job.steps = Plan(e, Head(e.queue)) /\ Started(e).job.request = Head(e.queue)
           /\ Started(e).job.wait = "None"
<1> DEFINE j == [steps |-> Plan(e, Head(e.queue)), wait |-> "None", request |-> Head(e.queue)]
<1>1. /\ Dequeued(e) \in EpaperType /\ Dequeued(e).queue = Tail(e.queue) /\ SameFlags(Dequeued(e), e)
      /\ Head(e.queue) \in Requests
      BY DequeuedType
<1>2. j \in JobType /\ j.steps = Plan(e, Head(e.queue)) /\ j.request = Head(e.queue) /\ j.wait = "None"
      BY <1>1 DEF JobType
<1>3. Started(e) = [Dequeued(e) EXCEPT !.job = j]
      BY DEF Started
<1> HIDE DEF j
<1>4. /\ Started(e) \in EpaperType /\ Started(e).job = j
      /\ Started(e).queue = Dequeued(e).queue /\ SameFlags(Started(e), Dequeued(e))
      BY <1>1, <1>2, <1>3, JobFields
<1> QED BY <1>1, <1>2, <1>4, RequestOps DEF HasJob, SameFlags

LEMMA AdvancedType ==
    ASSUME NEW e \in EpaperType, e.job.steps # <<>>
    PROVE  /\ Advanced(e) \in EpaperType /\ Advanced(e).queue = e.queue /\ SameFlags(Advanced(e), e)
           /\ Advanced(e).job.steps = Tail(e.job.steps) /\ Advanced(e).job.request = e.job.request
           /\ Advanced(e).job.wait = "None" /\ Head(e.job.steps) \in StepType
<1> DEFINE rest == Tail(e.job.steps)
           j == [e.job EXCEPT !.steps = rest, !.wait = "None"]
<1>1. e.job \in JobType /\ e.job.steps \in Seq(StepType)
      BY DEF EpaperType, JobType
<1>2. rest \in Seq(StepType) /\ Head(e.job.steps) \in StepType
      BY <1>1, HeadTailProperties
<1>3. Advanced(e) = [e EXCEPT !.job = j]
      BY <1>1 DEF Advanced, EpaperType, JobType
<1> HIDE DEF rest
<1>4. j \in JobType /\ j.steps = rest /\ j.request = e.job.request /\ j.wait = "None"
      BY <1>1, <1>2 DEF JobType
<1> HIDE DEF j
<1> QED BY <1>2, <1>3, <1>4, JobFields DEF rest

LEMMA FlaggedType ==
    ASSUME NEW e \in EpaperType, e.job.steps # <<>>, Head(e.job.steps).t = "Set"
    PROVE  LET s == Head(e.job.steps) IN
           /\ Flagged(e) \in EpaperType /\ Flagged(e).queue = e.queue /\ Flagged(e).job = Advanced(e).job
           /\ Flagged(e).init = (IF s.flag = "init" THEN s.on ELSE e.init)
           /\ Flagged(e).power = (IF s.flag = "power" THEN s.on ELSE e.power)
           /\ Flagged(e).known = (IF s.flag = "known" THEN s.on ELSE e.known)
<1> DEFINE s == Head(e.job.steps)
<1>1. s.flag \in {"init", "power", "known"} /\ s.on \in BOOLEAN
      BY AdvancedType DEF StepType, Busy
<1>2. Advanced(e) \in EpaperType /\ Advanced(e).queue = e.queue /\ SameFlags(Advanced(e), e)
      BY AdvancedType
<1>3. Flagged(e) = [Advanced(e) EXCEPT ![s.flag] = s.on]
      BY DEF Flagged, Step
<1> HIDE DEF s
<1> QED BY <1>1, <1>2, <1>3 DEF EpaperType, SameFlags, s

LEMMA WaitingType ==
    ASSUME NEW e \in EpaperType, NEW w \in {"None", "Settling", "Pin"}
    PROVE  /\ Waiting(e, w) \in EpaperType /\ Waiting(e, w).queue = e.queue /\ SameFlags(Waiting(e, w), e)
           /\ Waiting(e, w).job.steps = e.job.steps /\ Waiting(e, w).job.request = e.job.request
           /\ Waiting(e, w).job.wait = w
<1> DEFINE j == [e.job EXCEPT !.wait = w]
<1>1. e.job \in JobType
      BY DEF EpaperType
<1>2. j \in JobType /\ j.steps = e.job.steps /\ j.request = e.job.request /\ j.wait = w
      BY <1>1 DEF JobType
<1>3. Waiting(e, w) = [e EXCEPT !.job = j]
      BY DEF Waiting
<1> HIDE DEF j
<1> QED BY <1>1, <1>2, <1>3, JobFields

LEMMA EndedType ==
    ASSUME NEW e \in EpaperType
    PROVE  /\ Finished(e) \in EpaperType /\ Finished(e).queue = e.queue /\ SameFlags(Finished(e), e)
           /\ ~HasJob(Finished(e)) /\ Finished(e).job = NoJob
           /\ Failed(e) \in EpaperType /\ Failed(e).queue = e.queue
           /\ Failed(e).init = FALSE /\ Failed(e).power = FALSE /\ Failed(e).known = FALSE
           /\ ~HasJob(Failed(e)) /\ Failed(e).job = NoJob
           /\ NoJob \in JobType /\ NoJob.wait = "None"
<1>1. NoJob \in JobType /\ NoJob.request.op = "None" /\ NoJob.wait = "None"
      BY DEF NoJob, JobType, NoRequest
<1> QED BY <1>1 DEF EpaperType, Finished, Failed, SameFlags, HasJob
-----------------------------------------------------------------------------
(* What holds between any two steps of the task *)

SeenType == [screen : Image, volts : BOOLEAN, known : BOOLEAN, power : BOOLEAN]
TaskType ==
    /\ channel \in Seq([id : Nat, request : Requests]) /\ asked \in Nat
    /\ ep \in EpaperType /\ chip \in PanelType /\ before \in SeenType /\ due \in BOOLEAN

\* The bus: idle clocks and CMD0 went out, and the release byte did or is owed.
BusKept == up => inSpiMode /\ (released \/ releaseOwed)

\* The protocol's flags with the panel they are about
MachineOf(e, c) == [p |-> c, init |-> e.init, power |-> e.power, known |-> e.known]

\* Without a job, the protocol's flags are right about the panel. With one,
\* what is left of its steps leads from here to what was asked. A wait is for
\* the step to come, and once it settled BUSY has fallen.
Trusted(e, c) == Trusts(MachineOf(e, c)) /\ (e.known => c.old = c.screen)
OnCourse(e, c, b) ==
    \E n : Runs(e.job.request, MachineOf(e, c), e.job.steps, n) /\ Reached(e.job.request, b, n)
Waited(e, c, d) ==
    e.job.wait # "None" =>
        e.job.steps # <<>> /\ Head(e.job.steps) = Busy /\ (e.job.wait = "Pin" \/ d => c.busy # "Lag")

\* What a job may have spoilt: a draw, no cell outside its region; a power-off,
\* nothing but the voltages.
Contained(q, b, c) ==
    /\ q.op = "Draw" =>
          /\ q.flush.box # NoBox /\ (q.flush.kind = "Partial" => b.known)
          /\ \A x \in Cells : x \notin Inside(q.flush.box) => c.screen[x] = b.screen[x]
    /\ q.op = "PowerOff" => c.screen = b.screen /\ (c.powered => b.volts)

InHand(e, c, b, d) ==
    IF HasJob(e) THEN OnCourse(e, c, b) /\ Waited(e, c, d) /\ Contained(e.job.request, b, c)
    ELSE Trusted(e, c) /\ e.job.wait = "None"

IInv == TaskType /\ BusKept /\ HardwareRules /\ InHand(ep, chip, before, due)

LEMMA MachineOfType ==
    ASSUME NEW e \in EpaperType, NEW c \in PanelType
    PROVE  /\ MachineOf(e, c) \in Machine /\ MachineOf(e, c).p = c /\ MachineOf(e, c).init = e.init
           /\ MachineOf(e, c).power = e.power /\ MachineOf(e, c).known = e.known
BY DEF MachineOf, Machine, EpaperType

LEMMA SameMachine ==
    ASSUME NEW e, NEW f, SameFlags(e, f), NEW c
    PROVE  MachineOf(e, c) = MachineOf(f, c)
BY DEF MachineOf, SameFlags

LEMMA TookType ==
    ASSUME NEW p \in PanelType, NEW s \in StepType, IsTx(s)
    PROVE  Took(p, s) \in PanelType /\ TookPrefix(p, s) \subseteq PanelType
<1>1. Took(p, s) \in PanelType
      <2> DEFINE m == [p |-> p, init |-> FALSE, power |-> FALSE, known |-> FALSE]
      <2>1. m \in Machine /\ m.p = p
            BY DEF Machine
      <2>2. Effect(m, s) \in Machine
            BY <2>1, EffectType
      <2>3. Effect(m, s) = [m EXCEPT !.p = Took(p, s)]
            BY <2>1 DEF Effect, IsTx
      <2> HIDE DEF m
      <2> QED BY <2>1, <2>2, <2>3 DEF Machine
<1>2. CASE s.t = "Data"
      <2>1. s.bytes \in Seq(Ink)
            BY <1>2 DEF StepType, Busy
      <2>2. \A n \in 0 .. Len(s.bytes) : SubSeq(s.bytes, 1, n) \in Seq(Ink)
            BY <2>1, SubSeqProperties
      <2> QED BY <1>1, <1>2, <2>2, StoredType DEF TookPrefix
<1>3. CASE s.t # "Data"
      BY <1>1, <1>3 DEF TookPrefix
<1> QED BY <1>1, <1>2, <1>3

-----------------------------------------------------------------------------
(* A job under way *)

\* One step further
LEMMA FurtherOn ==
    ASSUME NEW e, NEW c, NEW b, OnCourse(e, c, b), e.job.steps # <<>>,
           NEW f, NEW d, f.job.request = e.job.request, f.job.steps = Tail(e.job.steps),
           MachineOf(f, d) = Effect(MachineOf(e, c), Head(e.job.steps))
    PROVE  OnCourse(f, d, b) /\ Allowed(e.job.request, MachineOf(e, c), Head(e.job.steps))
<1>1. PICK n : Runs(e.job.request, MachineOf(e, c), e.job.steps, n) /\ Reached(e.job.request, b, n)
      BY DEF OnCourse
<1> QED BY <1>1, RunsFirst DEF OnCourse

LEMMA OnCourseAllows ==
    ASSUME NEW e, NEW c, NEW b, OnCourse(e, c, b), e.job.steps # <<>>
    PROVE  Allowed(e.job.request, MachineOf(e, c), Head(e.job.steps))
BY RunsFirst DEF OnCourse

LEMMA OnCourseEnds ==
    ASSUME NEW e \in EpaperType, NEW c \in PanelType, NEW b, OnCourse(e, c, b), e.job.steps = <<>>
    PROVE  Reached(e.job.request, b, MachineOf(e, c))
BY RunsEnd DEF OnCourse

LEMMA SameCourse ==
    ASSUME NEW e, NEW c, NEW b, OnCourse(e, c, b),
           NEW f, f.job.request = e.job.request, f.job.steps = e.job.steps, SameFlags(f, e)
    PROVE  OnCourse(f, c, b)
BY SameMachine DEF OnCourse

\* A transaction that went through
LEMMA TransferOn ==
    ASSUME NEW e \in EpaperType, NEW c \in PanelType, NEW b, HasJob(e), OnCourse(e, c, b),
           e.job.steps # <<>>, IsTx(Step(e))
    PROVE  HasJob(Advanced(e)) /\ OnCourse(Advanced(e), Took(c, Step(e)), b)
<1> DEFINE f == Advanced(e)
           s == Head(e.job.steps)
<1>1. /\ f \in EpaperType /\ SameFlags(f, e) /\ s \in StepType
      /\ f.job.steps = Tail(e.job.steps) /\ f.job.request = e.job.request
      BY AdvancedType
<1>2. Step(e) = s
      BY DEF Step
<1> HIDE DEF f, s
<1>3. Took(c, s) \in PanelType
      BY <1>1, <1>2, TookType
<1>4. MachineOf(f, Took(c, s)) = Effect(MachineOf(e, c), s)
      <2>1. Effect(MachineOf(e, c), s) = [MachineOf(e, c) EXCEPT !.p = Took(c, s)]
            BY <1>2, MachineOfType DEF Effect, IsTx
      <2> QED BY <1>1, <2>1 DEF MachineOf, SameFlags
<1>5. OnCourse(f, Took(c, s), b)
      BY <1>1, <1>4, FurtherOn DEF s
<1> QED BY <1>1, <1>2, <1>5 DEF HasJob, f

\* A transaction, or a part of it, changes the screen by a refresh only, there
\* in the window only, and switches the voltages on by PowerOn only.
Alike(p, s, o) ==
    /\ s # Cmd("Refresh") => o.screen = p.screen
    /\ \A x \in Cells : x \notin Inside(Target(p)) => o.screen[x] = p.screen[x]
    /\ s # Cmd("PowerOn") => (o.powered => p.powered)

LEMMA TookAlike ==
    ASSUME NEW p \in PanelType, NEW s \in StepType, IsTx(s)
    PROVE  Alike(p, s, p) /\ Alike(p, s, Took(p, s)) /\ \A o \in TookPrefix(p, s) : Alike(p, s, o)
<1>1. Alike(p, s, p)
      BY DEF Alike
<1>2. CASE s.t = "Cmd"
      <2> DEFINE q == [p EXCEPT !.cmd = IF s.c \in WithArguments THEN s.c ELSE "None"]
      <2>1. /\ s.c \in Command /\ s = Cmd(s.c) /\ Took(p, s) = Commanded(p, s.c)
            /\ Cmd(s.c) = Cmd("Refresh") => s.c = "Refresh"
            /\ Cmd(s.c) = Cmd("PowerOn") => s.c = "PowerOn"
            BY <1>2 DEF StepType, Busy, Took, Cmd
      <2>2. q \in PanelType /\ q.screen = p.screen /\ q.powered = p.powered /\ Target(q) = Target(p)
            BY DEF PanelType, Target
      <2>3. ASSUME s.c = "Refresh" PROVE Alike(p, s, Took(p, s))
            <3>1. Took(p, s) = Refreshed(q)
                  BY <2>1, <2>3 DEF Commanded
            <3> HIDE DEF q
            <3>2. /\ Refreshed(q).powered = q.powered
                  /\ Refreshed(q).screen = [c \in Cells |->
                        IF c \notin Inside(Target(q)) THEN q.screen[c]
                          ELSE IF q.partial /\ q.old[c] # q.screen[c] THEN Ghost(q.new[c])
                          ELSE q.new[c]]
                  BY <2>2 DEF Refreshed, PanelType
            <3>3. \A c \in Cells : c \notin Inside(Target(q)) => Refreshed(q).screen[c] = q.screen[c]
                  BY <3>2
            <3>4. s = Cmd("Refresh") /\ Cmd("Refresh") # Cmd("PowerOn")
                  BY <2>1, <2>3 DEF Cmd
            <3>5. /\ Took(p, s).powered = p.powered
                  /\ \A x \in Cells : x \notin Inside(Target(p)) => Took(p, s).screen[x] = p.screen[x]
                  BY <2>2, <3>1, <3>2, <3>3
            <3> QED BY <3>4, <3>5 DEF Alike
      <2>4. ASSUME s.c # "Refresh" PROVE Alike(p, s, Took(p, s))
            <3>1. s.c # "PowerOn" => (Commanded(p, s.c).powered => p.powered)
                  BY <2>4 DEF Commanded, PanelType
            <3>2. Commanded(p, s.c).screen = p.screen
                  BY <2>4 DEF Commanded, PanelType
            <3>3. s # Cmd("PowerOn") => s.c # "PowerOn"
                  BY <2>1
            <3> QED BY <2>1, <3>1, <3>2, <3>3 DEF Alike
      <2> QED BY <1>1, <1>2, <2>3, <2>4 DEF TookPrefix
<1>3. CASE s.t = "Params"
      <2>1. Took(p, s) = Executed(p, s)
            BY <1>3 DEF Took
      <2>2. Executed(p, s).screen = p.screen /\ (Executed(p, s).powered => p.powered)
            BY DEF Executed, PanelType
      <2> QED BY <1>1, <1>3, <2>1, <2>2 DEF Alike, TookPrefix
<1>4. CASE s.t = "Data"
      <2>1. s.bytes \in Seq(Ink) /\ Took(p, s) = Stored(p, s.bytes)
            BY <1>4 DEF StepType, Busy, Took
      <2>2. \A n \in 0 .. Len(s.bytes) : SubSeq(s.bytes, 1, n) \in Seq(Ink)
            BY <2>1, SubSeqProperties
      <2>3. \A bytes \in Seq(Ink) : Stored(p, bytes).screen = p.screen /\ Stored(p, bytes).powered = p.powered
            BY StoredType
      <2>4. \A bytes \in Seq(Ink) : Alike(p, s, Stored(p, bytes))
            BY <2>3 DEF Alike
      <2> QED BY <1>1, <1>4, <2>1, <2>2, <2>4 DEF TookPrefix
<1> QED BY <1>2, <1>3, <1>4 DEF IsTx

LEMMA AlikeContained ==
    ASSUME NEW q \in Requests, NEW m \in Machine, NEW s \in StepType, IsTx(s), Allowed(q, m, s),
           NEW b, Contained(q, b, m.p), NEW o, Alike(m.p, s, o)
    PROVE  Contained(q, b, o)
<1>1. CASE q.op = "Draw"
      <2>1. ASSUME NEW x \in Cells, x \notin Inside(q.flush.box) PROVE o.screen[x] = m.p.screen[x]
            BY <2>1 DEF Allowed, Alike
      <2> QED BY <1>1, <2>1 DEF Contained
<1>2. CASE q.op = "PowerOff"
      <2>1. s # Cmd("Refresh") /\ s # Cmd("PowerOn")
            BY <1>2 DEF Allowed
      <2>2. o.screen = m.p.screen /\ (o.powered => m.p.powered)
            BY <2>1 DEF Alike
      <2> QED BY <1>2, <2>2 DEF Contained
<1> QED BY <1>1, <1>2, RequestOps

-----------------------------------------------------------------------------
(* The steps of the task keep it *)

LEMMA InitHolds == Init => IInv
<1> SUFFICES ASSUME Init PROVE IInv
    OBVIOUS
<1>1. NewEpaper \in EpaperType /\ ~HasJob(NewEpaper) /\ NewEpaper.job.wait = "None"
      BY DEF NewEpaper, NoJob, EpaperType, JobType, NoRequest, HasJob
<1>2. PICK volts \in BOOLEAN : chip = NewPanel(Blank, volts)
      BY DEF Init
<1>3. Blank \in Image /\ Screen \in Box
      BY SizeAssumption DEF Blank, Image, Ink, Screen, Box
<1>4. chip \in PanelType
      BY <1>2, <1>3 DEF NewPanel, PanelType
<1>5. ep = NewEpaper /\ before = Seen /\ due = FALSE /\ channel = <<>> /\ asked = 0
      BY DEF Init
<1>6. TaskType
      <2>1. chip.screen \in Image /\ chip.powered \in BOOLEAN /\ ep.known \in BOOLEAN /\ ep.power \in BOOLEAN
            BY <1>1, <1>4, <1>5 DEF PanelType, EpaperType
      <2>2. Seen \in SeenType
            BY <2>1 DEF Seen, SeenType
      <2>3. \A S : <<>> \in Seq(S)
            OBVIOUS
      <2>4. ep \in EpaperType /\ before \in SeenType
            BY <1>1, <1>5, <2>2
      <2>5. channel \in Seq([id : Nat, request : Requests])
            BY <1>5, <2>3, Zenon
      <2>6. asked \in Nat /\ due \in BOOLEAN
            BY <1>5
      <2> QED BY <1>4, <2>4, <2>5, <2>6 DEF TaskType
<1>7. Trusted(ep, chip)
      BY <1>5 DEF Trusted, Trusts, MachineOf, NewEpaper
<1>8. BusKept /\ HardwareRules
      BY DEF Init, BusInit, BusKept, HardwareRules
<1> QED BY <1>1, <1>5, <1>6, <1>7, <1>8 DEF IInv, InHand

\* A step of another part of the program
LEMMA Elsewhere ==
    ASSUME IInv, UNCHANGED <<channel, asked, ep, chip, before, due>>, BusKept', HardwareRules'
    PROVE  IInv'
BY DEF IInv, TaskType

LEMMA WireQuiet ==
    ASSUME IInv, UNCHANGED wireVars
    PROVE  BusKept' /\ HardwareRules'
BY DEF IInv, BusKept, HardwareRules, wireVars, busVars

\* A transaction that misuses nothing keeps the rules of the bus.
LEMMA RunKeeps ==
    ASSUME IInv, NEW arrived, NEW ok, NEW misuse, Run(arrived, ok, misuse),
           arrived # "nothing" => misuse = {}
    PROVE  BusKept' /\ HardwareRules' /\ (ok => arrived = "all")
<1>1. CASE UNCHANGED <<busVars, broken>> /\ ~ok
      BY <1>1 DEF IInv, BusKept, HardwareRules, busVars
<1>2. CASE \E cut, unreleased \in BOOLEAN :
              /\ up /\ arrived = (IF cut THEN "prefix" ELSE "all") /\ ok = ~(cut \/ unreleased)
              /\ releaseOwed' = unreleased /\ released' = ~unreleased
              /\ broken' = broken \cup Lowered(released \/ releaseOwed, inSpiMode) \cup misuse
              /\ UNCHANGED <<up, inSpiMode>>
      <2>1. misuse = {} /\ up
            BY <1>2
      <2>2. Lowered(released \/ releaseOwed, inSpiMode) = {}
            BY <2>1 DEF IInv, BusKept, Lowered
      <2>3. HardwareRules'
            BY <1>2, <2>1, <2>2 DEF IInv, HardwareRules
      <2>4. PICK cut, unreleased \in BOOLEAN :
              /\ arrived = (IF cut THEN "prefix" ELSE "all") /\ ok = ~(cut \/ unreleased)
              /\ releaseOwed' = unreleased /\ released' = ~unreleased /\ UNCHANGED <<up, inSpiMode>>
            BY <1>2
      <2>5. BusKept'
            <3>1. inSpiMode /\ UNCHANGED inSpiMode
                  BY <2>1, <2>4 DEF IInv, BusKept
            <3>2. released' \/ releaseOwed'
                  BY <2>4, Zenon
            <3>3. inSpiMode'
                  BY <3>1, Zenon
            <3> QED BY <3>2, <3>3 DEF BusKept
      <2>6. ok => arrived = "all"
            <3>1. ok => ~cut
                  BY <2>4, Zenon
            <3> QED BY <2>4, <3>1
      <2> QED BY <2>3, <2>5, <2>6
<1> QED BY <1>1, <1>2 DEF Run

LEMMA SubmitKeeps ==
    ASSUME IInv, NEW r \in Requests, Submit(r)
    PROVE  IInv'
<1>1. BusKept' /\ HardwareRules'
      BY WireQuiet DEF Submit
<1>2. TaskType'
      BY DEF Submit, IInv, TaskType
<1>3. UNCHANGED <<ep, chip, before, due>>
      BY DEF Submit
<1> QED BY <1>1, <1>2, <1>3 DEF IInv

LEMMA RecvKeeps ==
    ASSUME IInv, Recv
    PROVE  IInv'
<1> DEFINE q == Head(channel).request
           rest == Tail(channel)
<1>1. BusKept' /\ HardwareRules'
      BY WireQuiet DEF Recv
<1>2. rest \in Seq([id : Nat, request : Requests]) /\ q \in Requests
      <2>1. channel \in Seq([id : Nat, request : Requests]) /\ channel # <<>>
            BY DEF IInv, TaskType, Recv
      <2>2. Head(channel) \in [id : Nat, request : Requests]
            BY <2>1, HeadTailProperties
      <2> QED BY <2>1, <2>2, HeadTailProperties
<1>3. channel' = rest /\ ep' = Submitted(ep, q) /\ UNCHANGED <<asked, chip, before, due>>
      BY DEF Recv
<1> HIDE DEF q, rest
<1>4. ep \in EpaperType /\ chip \in PanelType
      BY DEF IInv, TaskType
<1>5. ep' \in EpaperType /\ ep'.job = ep.job /\ SameFlags(ep', ep)
      BY <1>2, <1>3, <1>4, SubmittedType
<1>6. TaskType'
      BY <1>2, <1>3, <1>5 DEF IInv, TaskType
<1>7. MachineOf(ep', chip) = MachineOf(ep, chip) /\ ep'.known = ep.known
      BY <1>5, SameMachine DEF SameFlags
<1>8. InHand(ep', chip, before, due)
      BY <1>5, <1>7 DEF IInv, InHand, HasJob, OnCourse, Waited, Trusted
<1> QED BY <1>1, <1>3, <1>6, <1>8 DEF IInv

LEMMA BeginKeeps ==
    ASSUME IInv, Begin
    PROVE  IInv'
<1>1. CASE UNCHANGED wireVars
      BY <1>1, WireQuiet, Elsewhere DEF Begin, handleVars
<1>2. CASE BroughtUp
      <2>1. BusKept' /\ HardwareRules'
            BY <1>2 DEF BroughtUp, BusKept, IInv, HardwareRules
      <2> QED BY <2>1, Elsewhere DEF Begin, handleVars
<1>3. CASE ~up /\ BringUpFails
      <2>1. HardwareRules'
            BY <1>3 DEF BringUpFails, IInv, HardwareRules
      <2>2. ~up'
            BY <1>3 DEF BringUpFails
      <2>3. BusKept'
            BY <2>2 DEF BusKept
      <2> QED BY <2>1, <2>3, Elsewhere DEF Begin, handleVars
<1> QED BY <1>1, <1>2, <1>3 DEF Begin

LEMMA OthersKeep ==
    ASSUME IInv, NEW i \in Slots, RunOther(i) \/ SkipOther(i) \/ OtherWants(i)
    PROVE  IInv'
<1>1. UNCHANGED <<channel, asked, ep, chip, before, due>>
      BY DEF RunOther, SkipOther, OtherWants, handleVars
<1>2. BusKept' /\ HardwareRules'
      <2>1. CASE RunOther(i)
            BY <2>1, RunKeeps DEF RunOther
      <2>2. CASE SkipOther(i) \/ OtherWants(i)
            BY <2>2, WireQuiet DEF SkipOther, OtherWants
      <2> QED BY <2>1, <2>2
<1> QED BY <1>1, <1>2, Elsewhere

LEMMA RestKeeps ==
    ASSUME IInv, Notify \/ Idle \/ KeepWaiting \/ SendAndArm \/ Reread \/ Wake \/ RetryTime \/ Interrupt
    PROVE  IInv'
<1>1. UNCHANGED <<channel, asked, ep, chip, before, due>>
      BY DEF Notify, Idle, KeepWaiting, SendAndArm, Reread, Wake, RetryTime, Interrupt, InEpaper, handleVars
<1>2. UNCHANGED wireVars
      BY DEF Notify, Idle, KeepWaiting, SendAndArm, Reread, Wake, RetryTime, Interrupt
<1> QED BY <1>1, <1>2, WireQuiet, Elsewhere

LEMMA TimeKeeps ==
    ASSUME IInv, SettleTime \/ BusyDeadline
    PROVE  IInv'
<1>1. BusKept' /\ HardwareRules'
      <2>1. UNCHANGED <<busVars, broken>>
            BY DEF SettleTime, BusyDeadline, wireVars
      <2> QED BY <2>1 DEF IInv, BusKept, HardwareRules, busVars
<1>2. due' = TRUE /\ UNCHANGED <<channel, asked, ep, chip, before>>
      BY DEF SettleTime, BusyDeadline, handleVars
<1>3. HasJob(ep) /\ ep.job.wait # "None" /\ chip.busy # "Lag"
      BY DEF SettleTime, BusyDeadline, IInv, InHand, Waited
<1>4. TaskType'
      BY <1>2 DEF IInv, TaskType
<1>5. InHand(ep, chip, before, TRUE)
      BY <1>3 DEF IInv, InHand, Waited
<1> QED BY <1>1, <1>2, <1>4, <1>5 DEF IInv

\* The panel works only while a step waits for it.
LEMMA PanelKeeps ==
    ASSUME IInv, PanelWorks
    PROVE  IInv'
<1>1. BusKept' /\ HardwareRules' /\ UNCHANGED <<channel, asked, ep, before, due>>
      BY WireQuiet DEF PanelWorks, handleVars
<1>2. PICK work \in {"Low", "No"} : chip.busy # "No" /\ chip' = [chip EXCEPT !.busy = work]
      BY DEF PanelWorks
<1>3. ep \in EpaperType /\ chip \in PanelType
      BY DEF IInv, TaskType
<1>4. /\ chip' \in PanelType /\ chip'.busy = work /\ chip'.screen = chip.screen
      /\ chip'.powered = chip.powered /\ chip'.old = chip.old /\ chip'.partial = chip.partial
      /\ [chip' EXCEPT !.busy = "No"] = [chip EXCEPT !.busy = "No"]
      BY <1>2, <1>3 DEF PanelType
<1>5. TaskType'
      BY <1>1, <1>4 DEF IInv, TaskType
<1> HIDE DEF PanelWorks
<1>6. CASE HasJob(ep)
      <2> DEFINE q == ep.job.request
                 s == ep.job.steps
                 m == MachineOf(ep, chip)
                 o == MachineOf(ep, chip')
      <2>1. OnCourse(ep, chip, before) /\ Waited(ep, chip, due) /\ Contained(q, before, chip)
            BY <1>6 DEF IInv, InHand
      <2>2. m \in Machine /\ o \in Machine /\ m.p = chip /\ o.p = chip'
            BY <1>3, <1>4, MachineOfType
      <2>3. s # <<>>
            <3>1. ASSUME s = <<>> PROVE Reached(q, before, m)
                  BY <1>3, <2>1, <3>1, OnCourseEnds
            <3> QED BY <1>2, <2>2, <3>1 DEF Reached
      <2>4. Head(s) = Busy
            <3>1. Allowed(q, m, Head(s))
                  BY <2>1, <2>3, OnCourseAllows
            <3>2. Head(s).t = "Busy"
                  BY <1>2, <2>2, <3>1 DEF Allowed
            <3>3. Head(s) \in StepType
                  BY <1>3, <2>3, AdvancedType
            <3> QED BY <3>2, <3>3 DEF StepType, Busy
      <2>5. Effect(o, Busy) = Effect(m, Busy)
            <3>1. Effect(o, Busy) = [o EXCEPT !.p = [chip' EXCEPT !.busy = "No"]]
                  BY <2>2 DEF Effect, IsTx, Busy
            <3>2. Effect(m, Busy) = [m EXCEPT !.p = [chip EXCEPT !.busy = "No"]]
                  BY <2>2 DEF Effect, IsTx, Busy
            <3> QED BY <1>4, <3>1, <3>2 DEF MachineOf
      <2>6. PICK n : Runs(q, m, s, n) /\ Reached(q, before, n)
            BY <2>1 DEF OnCourse
      <2>7. Runs(q, o, s, n)
            <3> HIDE DEF q, s, m, o
            <3> QED BY <2>2, <2>3, <2>4, <2>5, <2>6, RunsWaiting
      <2>8. OnCourse(ep, chip', before)
            BY <2>6, <2>7 DEF OnCourse
      <2>9. Waited(ep, chip', due) /\ Contained(q, before, chip')
            BY <1>2, <1>4, <2>1 DEF Waited, Contained
      <2> QED BY <1>1, <1>5, <1>6, <2>8, <2>9 DEF IInv, InHand
<1>7. CASE ~HasJob(ep)
      <2>1. Trusted(ep, chip) /\ ep.job.wait = "None"
            BY <1>7 DEF IInv, InHand
      <2>2. Trusted(ep, chip')
            BY <1>4, <2>1 DEF Trusted, Trusts, MachineOf
      <2> QED BY <1>1, <1>5, <1>7, <2>1, <2>2 DEF IInv, InHand
<1> QED BY <1>6, <1>7

LEMMA StartKeeps ==
    ASSUME IInv, StartJob
    PROVE  IInv'
<1> DEFINE q == Head(ep.queue)
           m == MachineOf(ep, chip)
<1>1. BusKept' /\ HardwareRules' /\ UNCHANGED <<channel, asked, chip, due>>
      BY WireQuiet DEF StartJob, Within, InEpaper, handleVars
<1>2. ep' = Started(ep) /\ before' = Seen /\ ep.queue # <<>> /\ ~HasJob(ep) /\ ~Refuses(ep, q)
      BY DEF StartJob
<1>3. ep \in EpaperType /\ chip \in PanelType /\ Trusted(ep, chip)
      BY <1>2 DEF IInv, TaskType, InHand
<1>4. q \in Requests /\ q \in Requestable /\ q.op \in {"Draw", "PowerOff"}
      BY <1>2, <1>3, DequeuedType, RequestOps
<1>5. /\ m \in Machine /\ m.p = chip /\ m.init = ep.init /\ m.power = ep.power /\ m.known = ep.known
      /\ Trusts(m) /\ (m.known => m.p.old = m.p.screen)
      BY <1>3, MachineOfType DEF Trusted
<1>6. Seen \in SeenType /\ Seen.screen = chip.screen /\ Seen.volts = chip.powered /\ Seen.known = ep.known /\ Seen.power = ep.power
      BY <1>3 DEF Seen, SeenType, PanelType, EpaperType
<1> HIDE DEF q, m
<1>7. PICK n : Runs(q, m, Plan(ep, q), n) /\ Reached(q, Seen, n)
      BY <1>2, <1>4, <1>5, <1>6, PlanRuns
<1>8. Plan(ep, q) \in Seq(StepType)
      BY <1>7, RunsType
<1>9. /\ ep' \in EpaperType /\ HasJob(ep') /\ SameFlags(ep', ep)
      /\ ep'.job.steps = Plan(ep, q) /\ ep'.job.request = q /\ ep'.job.wait = "None"
      BY <1>2, <1>3, <1>8, StartedType DEF q
<1>10. TaskType'
      BY <1>1, <1>2, <1>6, <1>9 DEF IInv, TaskType
<1>11. MachineOf(ep', chip) = m
      BY <1>9, SameMachine DEF m
<1>12. OnCourse(ep', chip, Seen) /\ Waited(ep', chip, due)
      BY <1>7, <1>9, <1>11 DEF OnCourse, Waited
<1>13. Contained(q, Seen, chip)
      BY <1>2, <1>4, <1>6 DEF Contained, Refuses
<1> QED BY <1>1, <1>2, <1>9, <1>10, <1>12, <1>13 DEF IInv, InHand

LEMMA RefuseKeeps ==
    ASSUME IInv, RefuseRequest
    PROVE  IInv'
<1>1. BusKept' /\ HardwareRules' /\ UNCHANGED <<channel, asked, chip, before, due>>
      BY WireQuiet DEF RefuseRequest, Within, InEpaper, handleVars
<1>2. ep' = Dequeued(ep) /\ ep.queue # <<>> /\ ~HasJob(ep)
      BY DEF RefuseRequest
<1>3. ep \in EpaperType /\ Trusted(ep, chip) /\ ep.job.wait = "None"
      BY <1>2 DEF IInv, TaskType, InHand
<1>4. ep' \in EpaperType /\ ep'.job = ep.job /\ SameFlags(ep', ep)
      BY <1>2, <1>3, DequeuedType
<1>5. TaskType'
      BY <1>1, <1>4 DEF IInv, TaskType
<1>6. Trusted(ep', chip) /\ ~HasJob(ep') /\ ep'.job.wait = "None"
      BY <1>2, <1>3, <1>4, SameMachine DEF Trusted, HasJob, SameFlags
<1> QED BY <1>1, <1>5, <1>6 DEF IInv, InHand

LEMMA FinishKeeps ==
    ASSUME IInv, FinishJob
    PROVE  IInv' /\ Reached(ep.job.request, before, MachineOf(ep, chip))
<1>1. BusKept' /\ HardwareRules' /\ UNCHANGED <<channel, asked, chip, before, due>>
      BY WireQuiet DEF FinishJob, Within, InEpaper, handleVars
<1>2. ep' = Finished(ep) /\ ep.job.steps = <<>> /\ HasJob(ep)
      BY DEF FinishJob
<1>3. ep \in EpaperType /\ chip \in PanelType /\ OnCourse(ep, chip, before)
      BY <1>2 DEF IInv, TaskType, InHand
<1>4. Reached(ep.job.request, before, MachineOf(ep, chip))
      BY <1>2, <1>3, OnCourseEnds
<1>5. ep' \in EpaperType /\ SameFlags(ep', ep) /\ ~HasJob(ep') /\ ep'.job.wait = "None"
      BY <1>2, <1>3, EndedType
<1>6. TaskType'
      BY <1>1, <1>5 DEF IInv, TaskType
<1>7. Trusted(ep, chip)
      BY <1>3, <1>4, MachineOfType DEF Reached, Trusted
<1>8. Trusted(ep', chip)
      BY <1>5, <1>7, SameMachine DEF Trusted, SameFlags
<1> QED BY <1>1, <1>4, <1>5, <1>6, <1>8 DEF IInv, InHand

LEMMA FlagKeeps ==
    ASSUME IInv, SetFlag
    PROVE  IInv'
<1> DEFINE s == Head(ep.job.steps)
           q == ep.job.request
           f == Flagged(ep)
<1>1. BusKept' /\ HardwareRules' /\ UNCHANGED <<channel, asked, chip, before, due>>
      BY WireQuiet DEF SetFlag, Within, InEpaper, handleVars
<1>2. ep' = f /\ HasJob(ep) /\ ep.job.steps # <<>> /\ s.t = "Set"
      BY DEF SetFlag, AtStep, Step
<1>3. /\ ep \in EpaperType /\ chip \in PanelType /\ OnCourse(ep, chip, before) /\ Waited(ep, chip, due)
      /\ Contained(q, before, chip)
      BY <1>2 DEF IInv, TaskType, InHand
<1>4. /\ f \in EpaperType /\ f.job = Advanced(ep).job
      /\ f.init = (IF s.flag = "init" THEN s.on ELSE ep.init)
      /\ f.power = (IF s.flag = "power" THEN s.on ELSE ep.power)
      /\ f.known = (IF s.flag = "known" THEN s.on ELSE ep.known)
      BY <1>2, <1>3, FlaggedType
<1>5. f.job.steps = Tail(ep.job.steps) /\ f.job.request = q /\ f.job.wait = "None" /\ s \in StepType
      BY <1>2, <1>3, <1>4, AdvancedType
<1> HIDE DEF f, s, q
<1>6. s.flag \in {"init", "power", "known"}
      BY <1>2, <1>5 DEF StepType, Busy
<1>7. MachineOf(f, chip) = Effect(MachineOf(ep, chip), s)
      <2>1. Effect(MachineOf(ep, chip), s) = [MachineOf(ep, chip) EXCEPT ![s.flag] = s.on]
            BY <1>2 DEF Effect, IsTx
      <2> QED BY <1>4, <1>6, <2>1 DEF MachineOf
<1>8. OnCourse(f, chip, before)
      BY <1>2, <1>3, <1>5, <1>7, FurtherOn DEF q, s
<1>9. TaskType'
      BY <1>1, <1>2, <1>4 DEF IInv, TaskType
<1>10. HasJob(f) /\ Waited(f, chip, due) /\ Contained(f.job.request, before, chip)
      BY <1>2, <1>3, <1>5 DEF HasJob, Waited, q
<1> QED BY <1>1, <1>2, <1>8, <1>9, <1>10 DEF IInv, InHand

\* A job that fails leaves nothing believed of the panel.
LEMMA FailureKeeps ==
    ASSUME TaskType, ep' = Failed(ep), chip' \in PanelType, due' \in BOOLEAN,
           UNCHANGED <<channel, asked, before>>, BusKept', HardwareRules'
    PROVE  IInv'
<1>1. ep' \in EpaperType /\ ~HasJob(ep') /\ ep'.job.wait = "None" /\ ~ep'.init /\ ~ep'.power /\ ~ep'.known
      BY EndedType DEF TaskType
<1>2. TaskType'
      BY <1>1 DEF TaskType
<1>3. Trusted(ep', chip')
      BY <1>1 DEF Trusted, Trusts, MachineOf
<1> QED BY <1>1, <1>2, <1>3 DEF IInv, InHand

\* A transaction: what it leaves the panel in, it may leave it in.
LEMMA TransferKeeps ==
    ASSUME IInv, RunTx
    PROVE  IInv' /\ HasJob(ep) /\ Contained(ep.job.request, before, chip') /\ chip' \in PanelType
<1> DEFINE s == Step(ep)
           q == ep.job.request
           m == MachineOf(ep, chip)
<1>1. HasJob(ep) /\ ep.job.steps # <<>> /\ IsTx(s) /\ s = Head(ep.job.steps)
      BY DEF RunTx, TxReady, Step
<1>2. /\ ep \in EpaperType /\ chip \in PanelType /\ OnCourse(ep, chip, before) /\ Waited(ep, chip, due)
      /\ Contained(q, before, chip) /\ TaskType
      BY <1>1 DEF IInv, TaskType, InHand
<1>3. PICK arrived \in {"nothing", "prefix", "all"}, ok \in BOOLEAN :
          /\ Run(arrived, ok, IF arrived = "nothing" THEN {} ELSE Misuse(chip, s))
          /\ chip' \in CASE arrived = "nothing" -> {chip}
                         [] arrived = "prefix" -> TookPrefix(chip, s)
                         [] arrived = "all" -> {Took(chip, s)}
          /\ IF ok THEN ep' = Advanced(ep) ELSE ep' = Failed(ep)
      BY DEF RunTx
<1>4. UNCHANGED <<channel, asked, before, due>>
      BY DEF RunTx, InEpaper, handleVars
<1>5. s \in StepType /\ q \in Requests
      <2>1. s \in StepType
            BY <1>1, <1>2, AdvancedType
      <2>2. q \in Requests
            BY <1>1, <1>2 DEF EpaperType, JobType, NoRequest, HasJob
      <2> QED BY <2>1, <2>2
<1>6. m \in Machine /\ m.p = chip
      BY <1>2, MachineOfType
<1>7. Allowed(q, m, s)
      BY <1>1, <1>2, OnCourseAllows
<1> HIDE DEF s, q, m
<1>8. Misuse(chip, s) = {}
      BY <1>1, <1>6, <1>7 DEF Allowed
<1>9. BusKept' /\ HardwareRules' /\ (ok => arrived = "all")
      BY <1>3, <1>8, RunKeeps
<1>10. chip' \in {chip, Took(chip, s)} \cup TookPrefix(chip, s)
      BY <1>3
<1>11. chip' \in PanelType /\ Alike(chip, s, chip')
      BY <1>1, <1>2, <1>5, <1>10, TookType, TookAlike
<1>12. Contained(q, before, chip')
      BY <1>1, <1>2, <1>5, <1>6, <1>7, <1>11, AlikeContained
<1>13. CASE ok
      <2>1. ep' = Advanced(ep) /\ chip' = Took(chip, s)
            BY <1>3, <1>9, <1>13
      <2>2. HasJob(ep') /\ OnCourse(ep', chip', before)
            BY <1>1, <1>2, <2>1, TransferOn DEF s
      <2>3. ep' \in EpaperType /\ ep'.job.wait = "None" /\ ep'.job.request = q
            BY <1>1, <1>2, <2>1, AdvancedType DEF q
      <2>4. TaskType'
            BY <1>2, <1>4, <1>11, <2>3 DEF TaskType
      <2>5. InHand(ep', chip', before, due)
            BY <1>12, <2>2, <2>3 DEF InHand, Waited
      <2> QED BY <1>1, <1>4, <1>9, <1>11, <1>12, <2>4, <2>5 DEF IInv, q
<1>14. CASE ~ok
      <2>1. ep' = Failed(ep) /\ due' \in BOOLEAN
            BY <1>2, <1>3, <1>4, <1>14 DEF TaskType
      <2>2. IInv'
            BY <1>2, <1>4, <1>9, <1>11, <2>1, FailureKeeps
      <2> QED BY <1>1, <1>11, <1>12, <2>2 DEF q
<1> QED BY <1>13, <1>14

\* A wait, begun or settled
LEMMA WaitKeeps ==
    ASSUME IInv, BeginWait \/ Settled
    PROVE  IInv'
<1>1. BusKept' /\ HardwareRules' /\ UNCHANGED <<channel, asked, chip, before>> /\ due' = FALSE
      BY WireQuiet DEF BeginWait, Settled, Within, InEpaper, handleVars
<1>2. HasJob(ep) /\ ep.job.steps # <<>> /\ Step(ep).t = "Busy"
      BY DEF BeginWait, Settled, AtStep
<1>3. PICK w \in {"Settling", "Pin"} : ep' = Waiting(ep, w) /\ (w = "Pin" => ep.job.wait = "Settling" /\ due)
      BY DEF BeginWait, Settled
<1>4. /\ ep \in EpaperType /\ chip \in PanelType /\ OnCourse(ep, chip, before) /\ Waited(ep, chip, due)
      /\ Contained(ep.job.request, before, chip)
      BY <1>2 DEF IInv, TaskType, InHand
<1>5. /\ ep' \in EpaperType /\ SameFlags(ep', ep)
      /\ ep'.job.steps = ep.job.steps /\ ep'.job.request = ep.job.request /\ ep'.job.wait = w
      BY <1>3, <1>4, WaitingType
<1>6. Head(ep.job.steps) = Busy
      <2>1. Head(ep.job.steps) \in StepType
            BY <1>2, <1>4, AdvancedType
      <2> QED BY <1>2, <2>1 DEF StepType, Busy, Step
<1>7. Waited(ep', chip, FALSE)
      BY <1>2, <1>3, <1>4, <1>5, <1>6 DEF Waited
<1>8. OnCourse(ep', chip, before)
      BY <1>4, <1>5, SameCourse
<1>9. TaskType'
      BY <1>1, <1>5 DEF IInv, TaskType
<1> QED BY <1>1, <1>2, <1>4, <1>5, <1>7, <1>8, <1>9 DEF IInv, InHand, HasJob

\* The pin is high: BUSY has fallen before, so the panel is done.
LEMMA PinKeeps ==
    ASSUME IInv, PinReached
    PROVE  IInv'
<1> DEFINE m == MachineOf(ep, chip)
           f == Advanced(ep)
<1>1. BusKept' /\ HardwareRules' /\ UNCHANGED <<channel, asked, chip, before>> /\ due' = FALSE
      BY WireQuiet DEF PinReached, Within, InEpaper, handleVars
<1>2. HasJob(ep) /\ ep.job.steps # <<>> /\ ep' = f /\ ep.job.wait = "Pin" /\ chip.busy # "Low"
      BY DEF PinReached, AtStep, PinLow
<1>3. /\ ep \in EpaperType /\ chip \in PanelType /\ OnCourse(ep, chip, before) /\ Waited(ep, chip, due)
      /\ Contained(ep.job.request, before, chip)
      BY <1>2 DEF IInv, TaskType, InHand
<1>4. chip.busy = "No" /\ Head(ep.job.steps) = Busy
      BY <1>2, <1>3 DEF Waited, PanelType
<1>5. /\ f \in EpaperType /\ SameFlags(f, ep) /\ f.job.wait = "None"
      /\ f.job.steps = Tail(ep.job.steps) /\ f.job.request = ep.job.request
      BY <1>2, <1>3, AdvancedType
<1> HIDE DEF f
<1>6. m \in Machine /\ m.p = chip /\ chip = [chip EXCEPT !.busy = "No"]
      BY <1>3, <1>4, MachineOfType DEF PanelType
<1>7. MachineOf(f, chip) = Effect(m, Busy)
      <2>1. Effect(m, Busy) = [m EXCEPT !.p = chip]
            BY <1>6 DEF Effect, IsTx, Busy
      <2> QED BY <1>5, <2>1 DEF MachineOf, SameFlags
<1>8. OnCourse(f, chip, before)
      BY <1>2, <1>3, <1>4, <1>5, <1>7, FurtherOn
<1>9. TaskType'
      BY <1>1, <1>2, <1>5 DEF IInv, TaskType
<1> QED BY <1>1, <1>2, <1>3, <1>5, <1>8, <1>9 DEF IInv, InHand, HasJob, Waited

LEMMA TimeoutKeeps ==
    ASSUME IInv, TimedOut
    PROVE  IInv'
<1>1. BusKept' /\ HardwareRules' /\ UNCHANGED <<channel, asked, chip, before>> /\ due' = FALSE
      BY WireQuiet DEF TimedOut, Within, InEpaper, handleVars
<1>2. ep' = Failed(ep) /\ TaskType
      BY DEF TimedOut, IInv
<1>3. chip' \in PanelType /\ due' \in BOOLEAN
      BY <1>1, <1>2 DEF TaskType
<1> QED BY <1>1, <1>2, <1>3, FailureKeeps

LEMMA StepKeeps ==
    ASSUME IInv, [Next]_vars
    PROVE  IInv'
<1>1. CASE \E r \in Requests : Submit(r)
      BY <1>1, SubmitKeeps
<1>2. CASE Recv
      BY <1>2, RecvKeeps
<1>3. CASE Begin
      BY <1>3, BeginKeeps
<1>4. CASE RefuseRequest
      BY <1>4, RefuseKeeps
<1>5. CASE StartJob
      BY <1>5, StartKeeps
<1>6. CASE FinishJob
      BY <1>6, FinishKeeps
<1>7. CASE SetFlag
      BY <1>7, FlagKeeps
<1>8. CASE RunTx
      BY <1>8, TransferKeeps
<1>9. CASE BeginWait \/ Settled
      BY <1>9, WaitKeeps
<1>10. CASE PinReached
      BY <1>10, PinKeeps
<1>11. CASE TimedOut
      BY <1>11, TimeoutKeeps
<1>12. CASE \E i \in Slots : RunOther(i) \/ SkipOther(i) \/ OtherWants(i)
      BY <1>12, OthersKeep
<1>13. CASE Notify \/ Idle \/ KeepWaiting \/ SendAndArm \/ Reread \/ Wake \/ RetryTime \/ Interrupt
      BY <1>13, RestKeeps
<1>14. CASE SettleTime \/ BusyDeadline
      BY <1>14, TimeKeeps
<1>15. CASE PanelWorks
      BY <1>15, PanelKeeps
<1>16. CASE UNCHANGED vars
      <2>1. UNCHANGED <<channel, asked, ep, chip, before, due>> /\ UNCHANGED wireVars
            BY <1>16 DEF vars, handleVars
      <2> QED BY <2>1, WireQuiet, Elsewhere
<1> QED BY <1>1, <1>2, <1>3, <1>4, <1>5, <1>6, <1>7, <1>8, <1>9, <1>10, <1>11, <1>12, <1>13, <1>14,
           <1>15, <1>16 DEF Next, Task, Time, EpaperSteps

LEMMA Inductive == Spec => []IInv
<1>1. Init => IInv
      BY InitHolds
<1>2. IInv /\ [Next]_vars => IInv'
      BY StepKeeps
<1> QED BY <1>1, <1>2, PTL DEF Spec

\* Whatever fails on the wire, and however the panel's work, the timeouts and
\* the other devices fall between two transactions: the bus and the controller
\* are never misused. The e-paper's job always waits where it must, and the
\* flags of epaper.rs are never set where the controller's state is not so.
THEOREM HardwareRulesAlways == Spec => []HardwareRules
<1>1. IInv => HardwareRules
      BY DEF IInv
<1> QED BY <1>1, Inductive, PTL

-----------------------------------------------------------------------------
(* Whose turn it is *)

\* The number of devices
N == Cardinality(Slots)

LEMMA Devices == N \in Nat \ {0} /\ Slots = 0 .. N - 1
<1>1. N \in Nat
      BY SlotsAssumption, FS_CardinalityType DEF N
<1>2. Slots = 0 .. N - 1
      BY SlotsAssumption DEF N
<1> QED BY <1>1, <1>2, SlotsAssumption

\* How many devices are asked before x, from `turn` on
Ahead(x) == IF x >= turn THEN x - turn ELSE x - turn + N

\* A device passed by has a transaction ready still, its turn is still to come
\* in this scan, and it comes before that of the device that ran meanwhile.
TurnType ==
    /\ turn \in Slots /\ k \in 0 .. N /\ (pc = "Scan" => k < N)
    /\ want \in [Slots \ {0} -> BOOLEAN]
    /\ passed \in [Slots -> [Slots -> 0 .. 2]]
Waits(a, b) == passed[a][b] <= 1 /\ Ready(a) /\ k <= Ahead(a) /\ Ahead(a) < Ahead(b)
Turns == TurnType /\ \A a, b \in Slots : passed[a][b] # 0 => Waits(a, b)

\* The device asked is the one that k others lie ahead of.
LEMMA AskedSlot ==
    ASSUME TurnType, k < N
    PROVE  Slot \in Slots /\ Ahead(Slot) = k /\ \A x \in Slots : Ahead(x) \in 0 .. N - 1 /\ (Ahead(x) = k => x = Slot)
<1>1. turn \in 0 .. N - 1 /\ k \in 0 .. N - 1 /\ N \in Nat \ {0} /\ Slots = 0 .. N - 1
      BY Devices DEF TurnType
<1>2. Slot = IF turn + k < N THEN turn + k ELSE turn + k - N
      <2>1. Slot = (turn + k) % N
            BY DEF Slot, N
      <2>2. turn + k \in 0 .. 2 * N - 1
            BY <1>1
      <2>3. (turn + k) % N = IF turn + k < N THEN turn + k ELSE turn + k - N
            BY <1>1, <2>2
      <2> QED BY <2>1, <2>3
<1> QED BY <1>1, <1>2 DEF Ahead

LEMMA SameTurns ==
    ASSUME Turns, UNCHANGED <<turn, passed>>, k' \in 0 .. N, pc' = "Scan" => k' < N, k' <= k,
           want' \in [Slots \ {0} -> BOOLEAN], \A a \in Slots : Ready(a) => Ready(a)'
    PROVE  Turns'
<1>1. TurnType'
      BY DEF Turns, TurnType
<1>2. \A a : Ahead(a)' = Ahead(a)
      BY DEF Ahead, N
<1>3. k' \in Int /\ k \in Int /\ turn \in Int /\ N \in Int /\ Slots \subseteq Int
      BY Devices DEF Turns, TurnType
<1>5. ASSUME NEW a \in Slots, NEW b \in Slots, passed'[a][b] # 0 PROVE Waits(a, b)'
      <2>1. Waits(a, b)
            BY <1>5 DEF Turns
      <2>2. Ahead(a) \in Int
            BY <1>3 DEF Ahead
      <2> QED BY <2>1, <1>2, <1>3, <2>2 DEF Waits
<1> QED BY <1>1, <1>5 DEF Turns

LEMMA SkipTurns ==
    ASSUME Turns, pc = "Scan", Skip, ~Ready(Slot), want' = want, \A a \in Slots : Ready(a) => Ready(a)'
    PROVE  Turns'
<1>1. k < N /\ k \in 0 .. N /\ N \in Nat
      BY Devices DEF Turns, TurnType
<1>2. TurnType'
      BY <1>1 DEF Skip, Turns, TurnType, N
<1>3. \A a : Ahead(a)' = Ahead(a)
      BY DEF Ahead, N, Skip
<1>5. ASSUME NEW a \in Slots, NEW b \in Slots, passed'[a][b] # 0 PROVE Waits(a, b)'
      <2>1. Waits(a, b)
            BY <1>5 DEF Turns, Skip
      <2>2. Ahead(a) \in 0 .. N - 1 /\ Ahead(a) # k
            BY <1>1, <2>1, AskedSlot DEF Waits, Turns
      <2>3. k' = k + 1 /\ passed' = passed
            BY DEF Skip
      <2> QED BY <2>1, <1>1, <1>3, <2>2, <2>3 DEF Waits
<1> QED BY <1>2, <1>5 DEF Turns

LEMMA RanTurns ==
    ASSUME Turns, NEW i \in Slots, pc = "Scan", Slot = i, Ran(i), want' \in [Slots \ {0} -> BOOLEAN],
           \A a \in Slots \ {i} : Ready(a) => Ready(a)'
    PROVE  Turns'
<1>1. k < N /\ k \in 0 .. N - 1 /\ N \in Nat \ {0} /\ Slots = 0 .. N - 1 /\ turn \in 0 .. N - 1 /\ i \in 0 .. N - 1
      BY Devices DEF Turns, TurnType
<1>2. Ahead(i) = k /\ \A x \in Slots : Ahead(x) \in 0 .. N - 1 /\ (Ahead(x) = k => x = i)
      BY <1>1, AskedSlot DEF Turns
<1>3. turn' = IF i + 1 < N THEN i + 1 ELSE 0
      <2>1. turn' = (i + 1) % N
            BY DEF Ran, N
      <2>2. i + 1 \in 0 .. 2 * N - 1
            BY <1>1
      <2>3. (i + 1) % N = IF i + 1 < N THEN i + 1 ELSE i + 1 - N
            BY <1>1, <2>2
      <2> QED BY <1>1, <2>1, <2>3
<1>4. \A x \in Slots : Ahead(x)' = IF Ahead(x) > k THEN Ahead(x) - k - 1 ELSE Ahead(x) + N - k - 1
      <2>1. turn' \in 0 .. N - 1 /\ N' = N
            BY <1>1, <1>3 DEF N
      <2>2. IF i >= turn THEN i - turn = k ELSE i - turn + N = k
            BY <1>2 DEF Ahead
      <2> QED BY <1>1, <1>3, <2>1, <2>2 DEF Ahead
<1>5. k' = 0 /\ pc' = pc /\ passed' = [a \in Slots |-> [b \in Slots |->
          IF a = i \/ ~Ready(a) THEN 0 ELSE IF b = i THEN Lesser(passed[a][b] + 1, 2) ELSE passed[a][b]]]
      BY DEF Ran
<1>6. passed \in [Slots -> [Slots -> 0 .. 2]] /\ \A a, b \in Slots : passed[a][b] \in 0 .. 2
      BY DEF Turns, TurnType
<1>7. passed' \in [Slots -> [Slots -> 0 .. 2]]
      BY <1>5, <1>6 DEF Lesser
<1>8. TurnType'
      BY <1>1, <1>3, <1>5, <1>7 DEF TurnType, N
<1>9. ASSUME NEW a \in Slots, NEW b \in Slots, passed'[a][b] # 0 PROVE Waits(a, b)'
      <2>1. passed'[a][b] = IF b = i THEN Lesser(passed[a][b] + 1, 2) ELSE passed[a][b]
            BY <1>5, <1>9
      <2>2. a # i /\ Ready(a) /\ Ready(a)'
            BY <1>5, <1>9
      <2>3. /\ Ahead(a) \in 0 .. N - 1 /\ Ahead(b) \in 0 .. N - 1 /\ Ahead(a) # k
            /\ Ahead(a)' = IF Ahead(a) > k THEN Ahead(a) - k - 1 ELSE Ahead(a) + N - k - 1
            /\ Ahead(b)' = IF Ahead(b) > k THEN Ahead(b) - k - 1 ELSE Ahead(b) + N - k - 1
            BY <1>2, <1>4, <2>2
      <2>4. passed[a][b] \in 0 .. 2 /\ (passed[a][b] # 0 => passed[a][b] <= 1 /\ k <= Ahead(a) /\ Ahead(a) < Ahead(b))
            BY <1>6 DEF Turns, Waits
      <2> HIDE DEF Ahead
      <2>5. CASE b = i
            <3>1. Ahead(b) = k
                  BY <1>2, <2>5
            <3>2. passed[a][b] = 0
                  BY <2>3, <2>4, <3>1, <1>1
            <3>3. passed'[a][b] = 1
                  BY <2>1, <2>5, <3>2 DEF Lesser
            <3>4. Ahead(a)' < Ahead(b)' /\ 0 <= Ahead(a)'
                  BY <1>1, <2>3, <3>1
            <3> QED BY <3>3, <3>4, <2>2, <1>5 DEF Waits
      <2>6. CASE b # i
            <3>1. passed'[a][b] = passed[a][b]
                  BY <2>1, <2>6
            <3>2. passed[a][b] = 1 /\ k < Ahead(a) /\ Ahead(a) < Ahead(b)
                  BY <3>1, <1>1, <1>9, <2>3, <2>4
            <3>3. Ahead(a)' < Ahead(b)' /\ 0 <= Ahead(a)'
                  BY <1>1, <2>3, <3>2
            <3> QED BY <3>1, <3>2, <3>3, <2>2, <1>5 DEF Waits
      <2> QED BY <2>5, <2>6
<1> QED BY <1>8, <1>9 DEF Turns

LEMMA InitTurns == Init => Turns
<1> SUFFICES ASSUME Init PROVE Turns
    OBVIOUS
<1>1. 0 \in 0 .. N /\ 0 \in Slots
      BY Devices
<1>2. turn = 0 /\ k = 0 /\ pc = "Recv" /\ want = [i \in Slots \ {0} |-> FALSE]
      /\ passed = [i \in Slots |-> [j \in Slots |-> 0]]
      BY DEF Init
<1>3. TurnType
      BY <1>1, <1>2 DEF TurnType
<1>4. \A a, b \in Slots : passed[a][b] = 0
      BY <1>2
<1> QED BY <1>3, <1>4 DEF Turns

\* A step that runs nothing and passes nobody over
LEMMA StayTurns ==
    ASSUME Turns, UNCHANGED <<turn, k, passed>>, pc' = "Scan" => pc = "Scan",
           want' \in [Slots \ {0} -> BOOLEAN], \A a \in Slots : Ready(a) => Ready(a)'
    PROVE  Turns'
<1>1. k \in 0 .. N /\ (pc = "Scan" => k < N) /\ N \in Nat
      BY Devices DEF Turns, TurnType
<1> QED BY <1>1, SameTurns

\* The e-paper has no transaction ready, before or after.
LEMMA NotReady ==
    ASSUME ~TxReady, want' = want
    PROVE  \A a \in Slots : Ready(a) => Ready(a)'
BY DEF Ready

LEMMA SameReady ==
    ASSUME want' = want, ep'.job = ep.job
    PROVE  \A a \in Slots : Ready(a) => Ready(a)'
BY DEF Ready, TxReady, HasJob, Step

LEMMA EpaperTurns ==
    ASSUME Turns, EpaperSteps
    PROVE  Turns'
<1>1. pc = "Scan" /\ Slot = 0 /\ want' = want /\ 0 \in Slots /\ want \in [Slots \ {0} -> BOOLEAN]
      <2>1. InEpaper
            BY DEF EpaperSteps, Idle, RefuseRequest, StartJob, FinishJob, SetFlag, RunTx, BeginWait, Settled,
                  PinReached, TimedOut, KeepWaiting, Within
      <2>2. pc = "Scan" /\ Slot = 0 /\ want' = want
            BY <2>1 DEF InEpaper, Scanning
      <2> QED BY <2>2, Devices DEF Turns, TurnType
<1>2. CASE RunTx
      <2>1. Ran(0)
            BY <1>2 DEF RunTx
      <2>2. \A a \in Slots \ {0} : Ready(a) => Ready(a)'
            BY <1>1 DEF Ready
      <2> QED BY <1>1, <2>1, <2>2, RanTurns
<1>3. CASE ~RunTx
      <2>1. ~TxReady
            BY <1>3 DEF EpaperSteps, TxReady, Idle, RefuseRequest, StartJob, FinishJob, SetFlag, BeginWait, Settled,
                  PinReached, TimedOut, KeepWaiting, AtStep, IsTx
      <2>2. \A a \in Slots : Ready(a) => Ready(a)'
            BY <1>1, <2>1, NotReady
      <2>3. CASE Idle \/ KeepWaiting
            <3>1. Skip /\ ~Ready(Slot)
                  BY <1>1, <2>1, <2>3 DEF Idle, KeepWaiting, Ready
            <3> QED BY <1>1, <2>2, <3>1, SkipTurns
      <2>4. CASE ~(Idle \/ KeepWaiting)
            <3>1. UNCHANGED <<pc, turn, k, passed>>
                  BY <1>3, <2>4 DEF EpaperSteps, RefuseRequest, StartJob, FinishJob, SetFlag, BeginWait, Settled,
                        PinReached, TimedOut, Within
            <3> QED BY <1>1, <2>2, <3>1, StayTurns
      <2> QED BY <2>3, <2>4
<1> QED BY <1>2, <1>3

LEMMA OthersTurn ==
    ASSUME Turns, NEW i \in Slots, RunOther(i) \/ SkipOther(i) \/ OtherWants(i)
    PROVE  Turns'
<1>0. want \in [Slots \ {0} -> BOOLEAN] /\ i # 0
      BY DEF Turns, TurnType, RunOther, SkipOther, OtherWants
<1>1. CASE RunOther(i)
      <2>1. /\ pc = "Scan" /\ Slot = i /\ Ran(i) /\ want' = [want EXCEPT ![i] = FALSE] /\ ep' = ep
            BY <1>1 DEF RunOther, Scanning
      <2>2. \A a \in Slots \ {i} : Ready(a) => Ready(a)'
            BY <1>0, <2>1 DEF Ready, TxReady, HasJob, Step
      <2>3. want' \in [Slots \ {0} -> BOOLEAN]
            BY <1>0, <2>1
      <2> QED BY <2>1, <2>2, <2>3, RanTurns
<1>2. CASE SkipOther(i)
      <2>1. pc = "Scan" /\ Slot = i /\ Skip /\ ~want[i] /\ want' = want /\ ep' = ep
            BY <1>2 DEF SkipOther, Scanning
      <2>2. ~Ready(Slot)
            BY <1>0, <2>1 DEF Ready
      <2> QED BY <2>1, <2>2, SameReady, SkipTurns
<1>3. CASE OtherWants(i)
      <2>1. UNCHANGED <<turn, k, passed, pc, ep>> /\ want' = [want EXCEPT ![i] = TRUE]
            BY <1>3 DEF OtherWants, scanVars
      <2>2. \A a \in Slots : Ready(a) => Ready(a)'
            BY <1>0, <2>1 DEF Ready, TxReady, HasJob, Step
      <2>3. want' \in [Slots \ {0} -> BOOLEAN]
            BY <1>0, <2>1
      <2> QED BY <2>1, <2>2, <2>3, StayTurns
<1> QED BY <1>1, <1>2, <1>3

LEMMA StepTurns ==
    ASSUME IInv, Turns, [Next]_vars
    PROVE  Turns'
<1>0. want \in [Slots \ {0} -> BOOLEAN]
      BY DEF Turns, TurnType
<1>1. CASE EpaperSteps
      BY <1>1, EpaperTurns
<1>2. CASE \E i \in Slots : RunOther(i) \/ SkipOther(i) \/ OtherWants(i)
      BY <1>2, OthersTurn
<1>3. CASE Begin
      <2>1. k' = 0 /\ UNCHANGED <<turn, passed, want, ep>>
            BY <1>3 DEF Begin
      <2>2. 0 \in 0 .. N /\ 0 < N /\ (k \in 0 .. N => 0 <= k)
            BY Devices
      <2>3. k \in 0 .. N
            BY DEF Turns, TurnType
      <2> QED BY <1>0, <2>1, <2>2, <2>3, SameReady, SameTurns
<1>4. CASE \/ (\E r \in Requests : Submit(r)) \/ Recv \/ SendAndArm \/ Reread \/ Wake
           \/ Notify \/ Time \/ BusyDeadline \/ Interrupt \/ PanelWorks \/ UNCHANGED vars
      <2>1. UNCHANGED <<turn, k, passed, want>>
            BY <1>4 DEF Submit, Recv, SendAndArm, Reread, Wake, Notify, Time, SettleTime, RetryTime,
                  BusyDeadline, Interrupt, PanelWorks, vars, scanVars
      <2>2. pc' = "Scan" => pc = "Scan"
            BY <1>4 DEF Submit, Recv, SendAndArm, Reread, Wake, Notify, Time, SettleTime, RetryTime,
                  BusyDeadline, Interrupt, PanelWorks, vars
      <2>3. ep'.job = ep.job
            <3>1. CASE Recv
                  <4>1. ep' = [ep EXCEPT !.queue = Append(@, Head(channel).request)] /\ ep \in EpaperType
                        BY <3>1 DEF Recv, Submitted, IInv, TaskType
                  <4> QED BY <4>1 DEF EpaperType
            <3>2. CASE ~Recv
                  <4>1. UNCHANGED ep
                        BY <1>4, <3>2 DEF Submit, SendAndArm, Reread, Wake, Notify, Time, SettleTime, RetryTime,
                              BusyDeadline, Interrupt, PanelWorks, vars
                  <4> QED BY <4>1
            <3> QED BY <3>1, <3>2
      <2> QED BY <1>0, <2>1, <2>2, <2>3, SameReady, StayTurns
<1> QED BY <1>1, <1>2, <1>3, <1>4 DEF Next, Task

\* However many devices there are and whenever they ask: none runs twice
\* while another has a transaction ready (S1, scheduler.rs:11).
THEOREM RoundRobinAlways == Spec => []RoundRobin
<1>1. Init => Turns
      BY InitTurns
<1>2. IInv /\ Turns /\ [Next]_vars => Turns'
      BY StepTurns
<1>3. Turns => RoundRobin
      <2> SUFFICES ASSUME Turns, NEW i \in Slots, NEW j \in Slots PROVE passed[i][j] <= 1
          BY DEF RoundRobin
      <2>1. CASE passed[i][j] = 0
            BY <2>1
      <2>2. CASE passed[i][j] # 0
            BY <2>2 DEF Turns, Waits
      <2> QED BY <2>1, <2>2
<1> QED BY <1>1, <1>2, <1>3, Inductive, PTL DEF Spec

-----------------------------------------------------------------------------
(* What is owed to the kernel *)

Answer == [id : Nat, ok : BOOLEAN]
Owed == [id : Nat, request : Requests]

\* Ids are handed out in order, and each outstanding request keeps its own.
Numbered ==
    /\ ids \in Seq(Nat) /\ out \in Seq(Answer) /\ answers \in Seq(Answer)
    /\ Len(ids) = Len(Outstanding)
    /\ asked = Len(answers) + Len(out) + Len(ids) + Len(channel)

\* Ids with their requests
Paired(s, t) == [n \in 1 .. Len(s) |-> [id |-> s[n], request |-> t[n]]]

LEMMA PairedType ==
    ASSUME NEW s \in Seq(Nat), NEW t \in Seq(Requests), Len(s) = Len(t)
    PROVE  Paired(s, t) \in Seq(Owed) /\ Len(Paired(s, t)) = Len(s)
<1>1. \A n \in 1 .. Len(s) : s[n] \in Nat /\ t[n] \in Requests
      OBVIOUS
<1> QED BY <1>1 DEF Paired, Owed

LEMMA PairedAppend ==
    ASSUME NEW s \in Seq(Nat), NEW t \in Seq(Requests), Len(s) = Len(t), NEW x \in Nat, NEW q \in Requests
    PROVE  Paired(Append(s, x), Append(t, q)) = Append(Paired(s, t), [id |-> x, request |-> q])
<1> DEFINE len == Len(s)
           a == Append(s, x)
           b == Append(t, q)
           p == Paired(s, t)
           e == [id |-> x, request |-> q]
<1>1. /\ len \in Nat /\ Len(a) = len + 1 /\ a[len + 1] = x /\ b[len + 1] = q
      /\ \A n \in 1 .. len : a[n] = s[n] /\ b[n] = t[n]
      OBVIOUS
<1>2. p \in Seq(Owed) /\ Len(p) = len /\ \A n \in 1 .. len : p[n] = [id |-> s[n], request |-> t[n]]
      BY PairedType DEF Paired
<1>3. e \in Owed
      BY DEF Owed
<1>4. Paired(a, b) = [n \in 1 .. len + 1 |-> [id |-> a[n], request |-> b[n]]]
      BY <1>1 DEF Paired
<1> HIDE DEF len, a, b, p
<1>5. /\ Append(p, e) \in Seq(Owed) /\ Len(Append(p, e)) = len + 1 /\ Append(p, e)[len + 1] = e
      /\ \A n \in 1 .. len : Append(p, e)[n] = p[n]
      BY <1>2, <1>3
<1>6. \A n \in 1 .. len + 1 : Append(p, e)[n] = [id |-> a[n], request |-> b[n]]
      BY <1>1, <1>2, <1>5, SMTT(30)
<1>7. Append(p, e) = [n \in 1 .. len + 1 |-> Append(p, e)[n]]
      BY <1>5
<1>8. Append(p, e) = Paired(a, b)
      BY <1>4, <1>6, <1>7
<1> QED BY <1>8 DEF a, b, p

LEMMA PairedTail ==
    ASSUME NEW s \in Seq(Nat), NEW t \in Seq(Requests), Len(s) = Len(t), s # <<>>
    PROVE  /\ Paired(Tail(s), Tail(t)) = Tail(Paired(s, t)) /\ Paired(s, t) # <<>>
           /\ Head(Paired(s, t)) = [id |-> Head(s), request |-> Head(t)]
           /\ Tail(s) \in Seq(Nat) /\ Head(s) \in Nat /\ Len(Tail(s)) = Len(s) - 1 /\ t # <<>>
<1> DEFINE len == Len(s) - 1
           a == Tail(s)
           b == Tail(t)
           p == Paired(s, t)
<1>1. /\ len \in Nat /\ Len(s) = len + 1 /\ Len(a) = len /\ a \in Seq(Nat) /\ Head(s) = s[1] /\ Head(t) = t[1]
      /\ Head(s) \in Nat /\ t # <<>> /\ \A n \in 1 .. len : a[n] = s[n + 1] /\ b[n] = t[n + 1]
      OBVIOUS
<1>2. p \in Seq(Owed) /\ Len(p) = len + 1 /\ \A n \in 1 .. len + 1 : p[n] = [id |-> s[n], request |-> t[n]]
      BY <1>1, PairedType DEF Paired
<1>3. Paired(a, b) = [n \in 1 .. len |-> [id |-> a[n], request |-> b[n]]]
      BY <1>1 DEF Paired
<1> HIDE DEF len, a, b, p
<1>4. p # <<>> /\ Len(Tail(p)) = len /\ Tail(p) \in Seq(Owed) /\ Head(p) = p[1] /\ \A n \in 1 .. len : Tail(p)[n] = p[n + 1]
      BY <1>1, <1>2
<1>5. \A n \in 1 .. len : n + 1 \in 1 .. len + 1
      BY <1>1
<1>6. \A n \in 1 .. len : Tail(p)[n] = [id |-> a[n], request |-> b[n]]
      BY <1>1, <1>2, <1>4, <1>5
<1>7. Tail(p) = [n \in 1 .. len |-> Tail(p)[n]]
      <2> DEFINE r == Tail(p)
      <2>1. r \in Seq(Owed) /\ Len(r) = len
            BY <1>4
      <2> HIDE DEF r
      <2>2. r = [n \in 1 .. len |-> r[n]]
            BY <2>1
      <2> QED BY <2>2 DEF r
<1>8. Tail(p) = Paired(a, b)
      BY <1>3, <1>6, <1>7
<1>9. Head(p) = [id |-> Head(s), request |-> Head(t)]
      BY <1>1, <1>2, <1>4
<1> QED BY <1>1, <1>4, <1>8, <1>9 DEF a, b, p, len

\* What is outstanding: the job's request, then the queue
LEMMA OutstandingType == IInv =>
    /\ Outstanding \in Seq(Requests) /\ channel \in Seq(Owed) /\ Pending = Paired(ids, Outstanding) \o channel
    /\ HasJob(ep) => /\ ep.job.request \in Requests /\ Outstanding # <<>>
                     /\ Head(Outstanding) = ep.job.request /\ Tail(Outstanding) = ep.queue
    /\ ~HasJob(ep) => Outstanding = ep.queue
<1> SUFFICES ASSUME IInv
             PROVE  /\ Outstanding \in Seq(Requests) /\ channel \in Seq(Owed)
                    /\ Pending = Paired(ids, Outstanding) \o channel
                    /\ HasJob(ep) => /\ ep.job.request \in Requests /\ Outstanding # <<>>
                                     /\ Head(Outstanding) = ep.job.request /\ Tail(Outstanding) = ep.queue
                    /\ ~HasJob(ep) => Outstanding = ep.queue
    OBVIOUS
<1>1. ep.queue \in Seq(Requests) /\ ep.job \in JobType
      BY DEF IInv, TaskType, EpaperType
<1>2. HasJob(ep) => ep.job.request \in Requests
      BY <1>1 DEF JobType, HasJob, NoRequest
<1>3. channel \in Seq(Owed) /\ Pending = Paired(ids, Outstanding) \o channel
      BY DEF IInv, TaskType, Owed, Pending, Paired
<1>4. CASE HasJob(ep)
      <2>1. Outstanding = <<ep.job.request>> \o ep.queue
            BY <1>4 DEF Outstanding
      <2>2. \A S, x, t : x \in S /\ t \in Seq(S) =>
               /\ <<x>> \o t \in Seq(S) /\ <<x>> \o t # <<>> /\ Head(<<x>> \o t) = x /\ Tail(<<x>> \o t) = t
            OBVIOUS
      <2> QED BY <1>1, <1>2, <1>3, <1>4, <2>1, <2>2
<1>5. CASE ~HasJob(ep)
      <2>1. Outstanding = <<>> \o ep.queue
            BY <1>5 DEF Outstanding
      <2>2. <<>> \o ep.queue = ep.queue
            BY <1>1
      <2> QED BY <1>1, <1>3, <1>5, <2>1, <2>2
<1> QED BY <1>4, <1>5

\* The promise's screens are this module's.
LEMMA PromiseOverlay ==
    /\ Promise!Image = Image /\ Promise!NoBox = NoBox
    /\ \A u, flush : Promise!Overlay(u, flush) = Overlay(u, flush)
BY DEF Promise!Image, Promise!Cells, Promise!Ink, Promise!NoBox, Promise!Overlay, Promise!Inside,
       Image, Cells, Ink, NoBox, Overlay, Inside

LEMMA HeadOfBoth ==
    ASSUME NEW S, NEW x \in Seq(S), NEW y \in Seq(S), x # <<>>
    PROVE  x \o y # <<>> /\ Head(x \o y) = Head(x) /\ Tail(x \o y) = Tail(x) \o y
<1>1. x \o y \in Seq(S) /\ Len(x \o y) = Len(x) + Len(y) /\ Len(x) # 0
      OBVIOUS
<1>2. x \o y # <<>> /\ Head(x \o y) = Head(x)
      BY <1>1
<1>3. Tail(x) \o y \in Seq(S) /\ Tail(x \o y) \in Seq(S)
      BY <1>1
<1>4. Len(Tail(x) \o y) = Len(Tail(x \o y))
      BY <1>1
<1>5. \A i \in 1 .. Len(Tail(x \o y)) : Tail(x \o y)[i] = (Tail(x) \o y)[i]
      BY <1>1, <1>4
<1> QED BY <1>2, <1>3, <1>4, <1>5, SeqEqual

\* The oldest request is answered.
LEMMA RespondAnswers ==
    ASSUME IInv, IInv', Numbered, NEW ok \in BOOLEAN, Respond(ok), UNCHANGED <<channel, asked, answers>>,
           Outstanding # <<>>, Outstanding' = Tail(Outstanding)
    PROVE  Promise!Answer(ok) /\ Promise!Oldest = Head(Outstanding) /\ Numbered'
<1> DEFINE p == Paired(ids, Outstanding)
           e == [id |-> Head(ids), ok |-> ok]
<1>1. /\ Outstanding \in Seq(Requests) /\ channel \in Seq(Owed) /\ Pending = p \o channel
      /\ Pending' = Paired(ids', Outstanding') \o channel'
      BY OutstandingType DEF Pending, Paired
<1>2. ids \in Seq(Nat) /\ out \in Seq(Answer) /\ answers \in Seq(Answer) /\ Len(ids) = Len(Outstanding)
      BY DEF Numbered
<1>3. ids # <<>>
      <2>1. \A S, t : t \in Seq(S) /\ t # <<>> => Len(t) # 0
            OBVIOUS
      <2>2. Len(Outstanding) # 0
            BY <1>1, <2>1
      <2> QED BY <1>2, <2>2
<1>4. out' = Append(out, e) /\ ids' = Tail(ids)
      BY DEF Respond
<1>5. /\ p \in Seq(Owed) /\ p # <<>> /\ Paired(ids', Outstanding') = Tail(p)
      /\ Head(p) = [id |-> Head(ids), request |-> Head(Outstanding)]
      /\ ids' \in Seq(Nat) /\ Head(ids) \in Nat /\ Len(ids') = Len(ids) - 1
      <2>1. Paired(Tail(ids), Tail(Outstanding)) = Tail(p)
            BY <1>1, <1>2, <1>3, PairedTail
      <2> QED BY <1>1, <1>2, <1>3, <1>4, <2>1, PairedType, PairedTail
<1>6. e \in Answer
      BY <1>5 DEF Answer
<1> HIDE DEF p, e
<1>7. Pending # <<>> /\ Head(Pending) = Head(p) /\ Pending' = Tail(Pending)
      <2>2. channel' = channel
            OBVIOUS
      <2>3. p \o channel # <<>> /\ Head(p \o channel) = Head(p) /\ Tail(p \o channel) = Tail(p) \o channel
            BY <1>1, <1>5, HeadOfBoth
      <2> QED BY <1>1, <1>5, <2>2, <2>3
<1>8. (answers \o out)' = Append(answers \o out, e)
      <2>1. \A S, x, y, z : x \in Seq(S) /\ y \in Seq(S) /\ z \in S => x \o Append(y, z) = Append(x \o y, z)
            OBVIOUS
      <2>2. answers \o Append(out, e) = Append(answers \o out, e)
            BY <1>2, <1>6, <2>1
      <2> QED BY <1>4, <2>2
<1>9. Head(Pending).id = Head(ids) /\ Head(Pending).request = Head(Outstanding)
      BY <1>5, <1>7
<1>10. Promise!Answer(ok)
      BY <1>7, <1>8, <1>9 DEF Promise!Answer, e
<1>11. Promise!Oldest = Head(Outstanding)
      BY <1>9 DEF Promise!Oldest
<1>12. Numbered'
      <2>1. Len(Outstanding') = Len(Outstanding) - 1
            BY <1>1
      <2>2. out' \in Seq(Answer) /\ Len(out') = Len(out) + 1
            BY <1>2, <1>4, <1>6
      <2>3. asked = Len(answers) + Len(out) + Len(ids) + Len(channel)
            BY DEF Numbered
      <2>4. Len(answers) \in Nat /\ Len(out) \in Nat /\ Len(ids) \in Nat /\ Len(channel) \in Nat
            BY <1>1, <1>2
      <2>5. asked' = Len(answers') + Len(out') + Len(ids') + Len(channel')
            BY <1>5, <2>2, <2>3, <2>4
      <2> QED BY <1>2, <1>5, <2>1, <2>2, <2>5 DEF Numbered
<1> QED BY <1>10, <1>11, <1>12

\* What a step of the promise leaves alone
LEMMA Unseen ==
    ASSUME IInv, IInv', Numbered, UNCHANGED <<channel, asked, ids, Outstanding, Meanwhile>>,
           UNCHANGED <<answers, out>> \/ (answers' = answers \o out /\ out' = <<>>)
    PROVE  UNCHANGED Promise!taskVars /\ Numbered'
<1>1. Pending = Paired(ids, Outstanding) \o channel /\ Pending' = Paired(ids', Outstanding') \o channel'
      BY DEF Pending, Paired
<1>2. Pending' = Pending
      BY <1>1 DEF Paired
<1>3. ids \in Seq(Nat) /\ out \in Seq(Answer) /\ answers \in Seq(Answer) /\ channel \in Seq(Owed)
      BY OutstandingType DEF Numbered
<1>4. /\ (answers \o out)' = answers \o out
      /\ out' \in Seq(Answer) /\ answers' \in Seq(Answer)
      /\ Len(answers') + Len(out') = Len(answers) + Len(out)
      <2>1. \A S, x, y : x \in Seq(S) /\ y \in Seq(S) =>
               (x \o y) \o <<>> = x \o y /\ x \o y \in Seq(S) /\ Len(x \o y) = Len(x) + Len(y) /\ Len(x \o y) \in Nat
            OBVIOUS
      <2>2. \A S : <<>> \in Seq(S)
            OBVIOUS
      <2>3. CASE answers' = answers \o out /\ out' = <<>>
            <3>1. Len(out') = 0 /\ out' \in Seq(Answer)
                  BY <2>2, <2>3
            <3> QED BY <1>3, <2>1, <2>3, <3>1
      <2>4. CASE UNCHANGED <<answers, out>>
            BY <1>3, <2>4
      <2> QED BY <2>3, <2>4
<1>5. Numbered'
      <2>1. asked = Len(answers) + Len(out) + Len(ids) + Len(channel) /\ Len(ids) = Len(Outstanding)
            BY DEF Numbered
      <2> QED BY <1>3, <1>4, <2>1 DEF Numbered
<1> QED BY <1>2, <1>4, <1>5 DEF Promise!taskVars, Promise!epVars

-----------------------------------------------------------------------------
(* The task keeps its promise *)

LEMMA AppendConcat ==
    ASSUME NEW S, NEW x \in Seq(S), NEW y \in Seq(S), NEW e \in S
    PROVE  x \o Append(y, e) = Append(x \o y, e)
<1>1. Append(y, e) = y \o <<e>> /\ Append(x \o y, e) = (x \o y) \o <<e>>
      BY AppendIsConcat, ConcatProperties
<1> QED BY <1>1, ConcatAssociative

LEMMA SubmitStep ==
    ASSUME IInv, IInv', Numbered, NEW r \in Requests, Submit(r)
    PROVE  Promise!Submit(r) /\ Numbered'
<1> DEFINE e == [id |-> asked, request |-> r]
           p == Paired(ids, Outstanding)
<1>1. /\ channel' = Append(channel, e) /\ asked' = asked + 1
      /\ UNCHANGED <<ids, ep, before, chip, answers, out>>
      BY DEF Submit
<1>2. Outstanding \in Seq(Requests) /\ channel \in Seq(Owed) /\ Pending = p \o channel
      BY OutstandingType
<1>3. /\ ids \in Seq(Nat) /\ out \in Seq(Answer) /\ answers \in Seq(Answer) /\ Len(ids) = Len(Outstanding)
      /\ asked = Len(answers) + Len(out) + Len(ids) + Len(channel)
      BY DEF Numbered
<1>4. e \in Owed /\ asked \in Nat
      BY DEF Owed, IInv, TaskType
<1>5. p \in Seq(Owed) /\ Len(p) = Len(ids)
      BY <1>2, <1>3, PairedType
<1>6. Outstanding' = Outstanding /\ Meanwhile' = Meanwhile
      BY <1>1 DEF Outstanding, Meanwhile, Seen
<1>7. Pending' = Append(Pending, e)
      <2>1. Pending' = p \o Append(channel, e)
            BY <1>1, <1>6 DEF Pending, Paired
      <2> HIDE DEF p, e
      <2> QED BY <2>1, <1>2, <1>4, <1>5, AppendConcat
<1>8. Len(answers \o out) + Len(Pending) = asked
      <2> HIDE DEF p, e
      <2>1. Len(answers \o out) = Len(answers) + Len(out) /\ Len(p \o channel) = Len(p) + Len(channel)
            BY <1>2, <1>3, <1>5, ConcatProperties
      <2>2. Len(answers) \in Nat /\ Len(out) \in Nat /\ Len(ids) \in Nat /\ Len(channel) \in Nat
            BY <1>2, <1>3
      <2> QED BY <1>2, <1>3, <1>5, <2>1, <2>2
<1>9. Promise!Submit(r)
      BY <1>1, <1>6, <1>7, <1>8 DEF Promise!Submit, Promise!epVars
<1>10. Numbered'
      <2> HIDE DEF p, e
      <2>1. Len(channel') = Len(channel) + 1
            BY <1>1, <1>2, <1>4
      <2>2. Len(answers) \in Nat /\ Len(out) \in Nat /\ Len(ids) \in Nat /\ Len(channel) \in Nat
            BY <1>2, <1>3
      <2>3. asked + 1 = Len(answers) + Len(out) + Len(ids) + (Len(channel) + 1)
            BY <1>3, <2>2
      <2>4. asked' = Len(answers') + Len(out') + Len(ids') + Len(channel')
            BY <1>1, <2>1, <2>3
      <2>5. /\ ids' \in Seq(Nat) /\ out' \in Seq(Answer) /\ answers' \in Seq(Answer)
            /\ Len(ids') = Len(Outstanding')
            BY <1>1, <1>3, <1>6
      <2> QED BY <2>4, <2>5 DEF Numbered
<1> QED BY <1>9, <1>10

LEMMA RecvStep ==
    ASSUME IInv, IInv', Numbered, Recv
    PROVE  UNCHANGED Promise!taskVars /\ Numbered'
<1> DEFINE e == Head(channel)
           rest == Tail(channel)
           p == Paired(ids, Outstanding)
<1>1. /\ channel' = rest /\ channel # <<>> /\ ids' = Append(ids, e.id) /\ ep' = Submitted(ep, e.request)
      /\ UNCHANGED <<asked, before, chip, answers, out>>
      BY DEF Recv
<1>2. Outstanding \in Seq(Requests) /\ channel \in Seq(Owed) /\ Pending = p \o channel
      BY OutstandingType
<1>3. e \in Owed /\ rest \in Seq(Owed) /\ Len(rest) = Len(channel) - 1
      BY <1>1, <1>2, HeadTailProperties
<1>4. e.id \in Nat /\ e.request \in Requests /\ e = [id |-> e.id, request |-> e.request]
      BY <1>3 DEF Owed
<1>5. /\ ids \in Seq(Nat) /\ out \in Seq(Answer) /\ answers \in Seq(Answer) /\ Len(ids) = Len(Outstanding)
      /\ asked = Len(answers) + Len(out) + Len(ids) + Len(channel)
      BY DEF Numbered
<1>6. ep \in EpaperType /\ ep.queue \in Seq(Requests)
      BY DEF IInv, TaskType, EpaperType
<1> HIDE DEF rest, e
<1>7. ep'.job = ep.job /\ ep'.queue = Append(ep.queue, e.request) /\ SameFlags(ep', ep)
      BY <1>1, <1>4, <1>6, SubmittedType
<1>8. Outstanding' = Append(Outstanding, e.request)
      <2> DEFINE first == IF HasJob(ep) THEN <<ep.job.request>> ELSE <<>>
      <2>1. first \in Seq(Requests)
            <3>1. HasJob(ep) => ep.job.request \in Requests
                  BY OutstandingType
            <3> QED BY <3>1
      <2>2. Outstanding = first \o ep.queue /\ Outstanding' = first \o Append(ep.queue, e.request)
            BY <1>7 DEF Outstanding, HasJob
      <2> HIDE DEF first
      <2> QED BY <1>4, <1>6, <2>1, <2>2, AppendConcat
<1>9. Meanwhile' = Meanwhile
      BY <1>1, <1>7 DEF Meanwhile, Seen, HasJob, SameFlags
<1>10. p \in Seq(Owed) /\ Paired(ids', Outstanding') = Append(p, e)
      BY <1>1, <1>2, <1>4, <1>5, <1>8, PairedType, PairedAppend
<1>11. Pending' = Append(p, e) \o rest
      BY <1>1, <1>10 DEF Pending, Paired
<1> HIDE DEF p
<1>12. Append(p, e) \o rest = p \o channel
      <2>1. channel = <<e>> \o rest
            BY <1>1, <1>2 DEF e, rest
      <2>2. Append(p, e) = p \o <<e>> /\ <<e>> \in Seq(Owed)
            BY <1>3, <1>10, AppendIsConcat
      <2> QED BY <1>3, <1>10, <2>1, <2>2, ConcatAssociative
<1>13. Numbered'
      <2>1. Len(ids') = Len(ids) + 1 /\ ids' \in Seq(Nat) /\ Len(Outstanding') = Len(Outstanding) + 1
            BY <1>1, <1>2, <1>4, <1>5, <1>8
      <2>2. Len(answers) \in Nat /\ Len(out) \in Nat /\ Len(ids) \in Nat /\ Len(channel) \in Nat
            BY <1>2, <1>5
      <2> QED BY <1>1, <1>3, <1>5, <2>1, <2>2 DEF Numbered
<1> QED BY <1>1, <1>2, <1>9, <1>11, <1>12, <1>13 DEF Promise!taskVars, Promise!epVars

LEMMA RefuseStep ==
    ASSUME IInv, IInv', Numbered, RefuseRequest
    PROVE  Promise!Fail /\ Numbered'
<1> DEFINE q == Head(ep.queue)
<1>1. /\ ~HasJob(ep) /\ ep.queue # <<>> /\ Refuses(ep, q) /\ ep' = Dequeued(ep) /\ Respond(FALSE)
      /\ UNCHANGED <<channel, asked, answers, chip, before>>
      BY DEF RefuseRequest, Within, InEpaper, handleVars
<1>2. ep'.job = ep.job /\ ep'.queue = Tail(ep.queue) /\ SameFlags(ep', ep)
      BY <1>1, DequeuedType DEF IInv, TaskType
<1>3. ~HasJob(ep')
      BY <1>1, <1>2 DEF HasJob
<1>4. Outstanding = ep.queue /\ Outstanding' = Tail(ep.queue)
      <2>1. Outstanding' = <<>> \o Tail(ep.queue)
            BY <1>2, <1>3 DEF Outstanding
      <2>2. ep.queue \in Seq(Requests)
            BY DEF IInv, TaskType, EpaperType
      <2>3. Tail(ep.queue) \in Seq(Requests)
            BY <1>1, <2>2, HeadTailProperties
      <2> QED BY <1>1, <2>1, <2>3, OutstandingType, ConcatEmptySeq
<1>5. Promise!Answer(FALSE) /\ Promise!Oldest = q /\ Numbered'
      BY <1>1, <1>4, RespondAnswers
<1>6. Meanwhile = Seen /\ Meanwhile' = Meanwhile
      BY <1>1, <1>2, <1>3 DEF Meanwhile, Seen, SameFlags
<1>7. Promise!Refused(q.flush)
      BY <1>1, <1>6, PromiseOverlay DEF Promise!Refused, Promise!Refusable, Promise!epVars, Refuses, Seen
<1> QED BY <1>1, <1>5, <1>7 DEF Promise!Fail, Refuses

LEMMA StartStep ==
    ASSUME IInv, IInv', Numbered, StartJob
    PROVE  UNCHANGED Promise!taskVars /\ Numbered'
<1> DEFINE q == Head(ep.queue)
<1>1. /\ ~HasJob(ep) /\ ep.queue # <<>> /\ ~Refuses(ep, q) /\ ep' = Started(ep) /\ before' = Seen
      /\ UNCHANGED <<channel, asked, answers, out, ids, chip>>
      BY DEF StartJob, Within, InEpaper, handleVars
<1>2. ep \in EpaperType /\ ep' \in EpaperType
      BY DEF IInv, TaskType
<1>3. ep'.job = [steps |-> Plan(ep, q), wait |-> "None", request |-> q] /\ ep'.queue = Tail(ep.queue)
      BY <1>1, <1>2, DequeuedType DEF Started, EpaperType
<1>4. q \in Requests /\ HasJob(ep')
      BY <1>1, <1>2, <1>3, DequeuedType, RequestOps DEF HasJob
<1>5. Outstanding' = Outstanding
      <2>1. Outstanding' = <<q>> \o Tail(ep.queue)
            BY <1>3, <1>4 DEF Outstanding
      <2>2. Outstanding = ep.queue
            BY <1>1, OutstandingType
      <2>3. ep.queue \in Seq(Requests)
            BY <1>2 DEF EpaperType
      <2> HIDE DEF q
      <2>4. ep.queue = <<q>> \o Tail(ep.queue)
            BY <1>1, <2>3 DEF q
      <2> QED BY <2>1, <2>2, <2>4
<1>6. Meanwhile' = Meanwhile
      BY <1>1, <1>4 DEF Meanwhile
<1> QED BY <1>1, <1>5, <1>6, Unseen

\* The job ends, done or not: its request is the oldest.
LEMMA JobAnswered ==
    ASSUME IInv, IInv', Numbered, HasJob(ep), NEW ok \in BOOLEAN, Respond(ok), UNCHANGED <<channel, asked, answers>>,
           ep'.queue = ep.queue, ep'.job = NoJob
    PROVE  /\ Promise!Answer(ok) /\ Promise!Oldest = ep.job.request /\ Numbered'
           /\ Meanwhile = before /\ Meanwhile' = Seen'
<1>1. ~HasJob(ep')
      BY DEF HasJob, NoJob
<1>2. Outstanding' = Tail(Outstanding) /\ Outstanding # <<>> /\ Head(Outstanding) = ep.job.request
      <2>1. Outstanding' = <<>> \o ep.queue
            BY <1>1 DEF Outstanding
      <2>2. ep.queue \in Seq(Requests)
            BY DEF IInv, TaskType, EpaperType
      <2> QED BY <2>1, <2>2, OutstandingType, ConcatEmptySeq
<1>3. Promise!Answer(ok) /\ Promise!Oldest = ep.job.request /\ Numbered'
      BY <1>2, RespondAnswers
<1> QED BY <1>1, <1>3 DEF Meanwhile

LEMMA FinishStep ==
    ASSUME IInv, IInv', Numbered, FinishJob
    PROVE  (Promise!Draw \/ Promise!PowerOff) /\ Numbered'
<1> DEFINE q == ep.job.request
           m == MachineOf(ep, chip)
<1>1. /\ HasJob(ep) /\ ep' = Finished(ep) /\ Respond(TRUE)
      /\ UNCHANGED <<channel, asked, answers, chip, before>>
      BY DEF FinishJob, Within, InEpaper, handleVars
<1>2. ep \in EpaperType /\ chip \in PanelType /\ Contained(q, before, chip)
      BY <1>1 DEF IInv, TaskType, InHand
<1>3. ep'.queue = ep.queue /\ ep'.job = NoJob /\ SameFlags(ep', ep)
      BY <1>1, <1>2, EndedType
<1>4. /\ Promise!Answer(TRUE) /\ Promise!Oldest = q /\ Numbered' /\ Meanwhile = before /\ Meanwhile' = Seen'
      BY <1>1, <1>3, JobAnswered
<1>5. Reached(q, before, m)
      BY FinishKeeps
<1>6. m.p = chip /\ m.power = ep.power /\ m.known = ep.known
      BY <1>2, MachineOfType
<1>7. Seen'.screen = chip.screen /\ Seen'.volts = chip.powered /\ Seen'.known = ep.known /\ Seen'.power = ep.power
      BY <1>1, <1>3 DEF Seen, SameFlags
<1>8. q.op \in {"Draw", "PowerOff"} /\ ep.known \in BOOLEAN
      BY <1>1, <1>2, OutstandingType, RequestOps DEF EpaperType
<1> HIDE DEF q, m
<1>9. CASE q.op = "Draw"
      <2>1. /\ ep.known = TRUE /\ chip.screen = Overlay(before.screen, q.flush)
            /\ ep.power = (q.flush.kind = "Full") /\ chip.powered = ep.power
            BY <1>5, <1>6, <1>8, <1>9 DEF Reached
      <2>2. q.flush.box # NoBox /\ (q.flush.kind = "Partial" => before.known)
            BY <1>2, <1>9 DEF Contained
      <2>3. Promise!Shown(q.flush)
            BY <1>4, <1>7, <2>1, <2>2, PromiseOverlay DEF Promise!Shown, Promise!Refusable
      <2> QED BY <1>4, <1>9, <2>3 DEF Promise!Draw
<1>10. CASE q.op = "PowerOff"
      <2>1. /\ ep.known = before.known /\ chip.screen = before.screen
            /\ ep.power = FALSE /\ chip.powered = (before.volts /\ ~before.power)
            BY <1>5, <1>6, <1>10 DEF Reached
      <2>2. Promise!SwitchedOff
            BY <1>4, <1>7, <2>1 DEF Promise!SwitchedOff
      <2> QED BY <1>4, <1>10, <2>2 DEF Promise!PowerOff
<1> QED BY <1>8, <1>9, <1>10

\* A transaction or a wait that failed: what was drawn outside the region and
\* what the voltages were before says what is there now.
LEMMA FailStep ==
    ASSUME IInv, IInv', Numbered, HasJob(ep), ep' = Failed(ep), Respond(FALSE),
           UNCHANGED <<channel, asked, answers, before>>, Contained(ep.job.request, before, chip')
    PROVE  (Promise!Fail \/ Promise!FailPowerOff) /\ Numbered'
<1> DEFINE q == ep.job.request
<1>1. ep \in EpaperType /\ chip' \in PanelType /\ before \in SeenType
      BY DEF IInv, TaskType
<1>2. ep'.queue = ep.queue /\ ep'.job = NoJob /\ ep'.power = FALSE /\ ep'.known = FALSE
      BY <1>1, EndedType
<1>3. /\ Promise!Answer(FALSE) /\ Promise!Oldest = q /\ Numbered' /\ Meanwhile = before /\ Meanwhile' = Seen'
      BY <1>2, JobAnswered
<1>4. Seen'.screen = chip'.screen /\ Seen'.volts = chip'.powered /\ Seen'.known = FALSE /\ Seen'.power = FALSE
      BY <1>2 DEF Seen
<1>5. q \in Requests /\ q.op \in {"Draw", "PowerOff"}
      BY OutstandingType, RequestOps
<1>6. /\ chip'.screen \in Image /\ chip'.powered \in BOOLEAN /\ before.screen \in Image /\ before.volts \in BOOLEAN
      BY <1>1 DEF PanelType, SeenType
<1> HIDE DEF q
<1>7. CASE q.op = "Draw"
      <2> DEFINE spoilt == [q.flush EXCEPT !.data = chip'.screen]
      <2>1. spoilt.data = chip'.screen /\ spoilt.box = q.flush.box
            BY <1>5, <1>7, RequestOps DEF Requestable, OffRequest, DrawRequest, Full, Partial
      <2>2. /\ q.flush.box # NoBox /\ (q.flush.kind = "Partial" => before.known)
            /\ \A x \in Cells : x \notin Inside(q.flush.box) => chip'.screen[x] = before.screen[x]
            BY <1>7 DEF Contained, q
      <2>3. chip'.screen = Overlay(before.screen, spoilt)
            <3> HIDE DEF spoilt
            <3>1. \A x \in Cells : Overlay(before.screen, spoilt)[x] = chip'.screen[x]
                  BY <2>1, <2>2 DEF Overlay
            <3> QED BY <1>6, <3>1 DEF Overlay, Image
      <2>4. Promise!Spoilt(q.flush)
            BY <1>3, <1>4, <1>6, <2>2, <2>3, PromiseOverlay DEF Promise!Spoilt, Promise!Refusable
      <2> QED BY <1>3, <1>7, <2>4 DEF Promise!Fail
<1>8. CASE q.op = "PowerOff"
      <2>1. chip'.screen = before.screen /\ (chip'.powered => before.volts)
            BY <1>8 DEF Contained, q
      <2>2. chip'.powered \in {before.volts, FALSE}
            BY <1>6, <2>1
      <2>3. Promise!SwitchOffFailed
            BY <1>3, <1>4, <2>1, <2>2 DEF Promise!SwitchOffFailed
      <2> QED BY <1>3, <1>8, <2>3 DEF Promise!FailPowerOff
<1> QED BY <1>5, <1>7, <1>8

LEMMA TransferStep ==
    ASSUME IInv, IInv', Numbered, RunTx
    PROVE  (UNCHANGED Promise!taskVars \/ Promise!Fail \/ Promise!FailPowerOff) /\ Numbered'
<1>1. /\ UNCHANGED <<channel, asked, answers, before>>
      /\ \/ ep' = Advanced(ep) /\ UNCHANGED <<out, ids>>
         \/ ep' = Failed(ep) /\ Respond(FALSE)
      BY DEF RunTx, InEpaper, handleVars
<1>2. HasJob(ep) /\ ep.job.steps # <<>> /\ Contained(ep.job.request, before, chip')
      BY TransferKeeps DEF RunTx, TxReady
<1>3. CASE ep' = Advanced(ep) /\ UNCHANGED <<out, ids>>
      <2>1. ep'.queue = ep.queue /\ ep'.job.request = ep.job.request
            BY <1>2, <1>3, AdvancedType DEF IInv, TaskType
      <2>2. UNCHANGED <<Outstanding, Meanwhile>>
            BY <1>1, <1>2, <2>1 DEF Outstanding, Meanwhile, HasJob
      <2> QED BY <1>1, <1>3, <2>2, Unseen
<1>4. CASE ep' = Failed(ep) /\ Respond(FALSE)
      BY <1>1, <1>2, <1>4, FailStep
<1> QED BY <1>1, <1>3, <1>4

LEMMA TimeoutStep ==
    ASSUME IInv, IInv', Numbered, TimedOut
    PROVE  (Promise!Fail \/ Promise!FailPowerOff) /\ Numbered'
<1>1. /\ HasJob(ep) /\ ep' = Failed(ep) /\ Respond(FALSE)
      /\ UNCHANGED <<channel, asked, answers, before, chip>>
      BY DEF TimedOut, AtStep, Within, InEpaper, handleVars
<1>2. Contained(ep.job.request, before, chip')
      BY <1>1 DEF IInv, InHand
<1> QED BY <1>1, <1>2, FailStep

\* Steps within a job: its request is still the oldest.
LEMMA WithinJob ==
    ASSUME IInv, IInv', Numbered, SetFlag \/ BeginWait \/ Settled \/ PinReached
    PROVE  UNCHANGED Promise!taskVars /\ Numbered'
<1>1. HasJob(ep) /\ ep.job.steps # <<>> /\ UNCHANGED <<channel, asked, ids, out, answers, before>> /\ ep \in EpaperType
      BY DEF SetFlag, BeginWait, Settled, PinReached, AtStep, Within, InEpaper, handleVars, IInv, TaskType
<1>2. ep'.queue = ep.queue /\ ep'.job.request = ep.job.request
      <2>1. CASE SetFlag
            <3>1. Head(ep.job.steps).t = "Set" /\ ep' = Flagged(ep)
                  BY <2>1 DEF SetFlag, AtStep, Step
            <3> QED BY <1>1, <3>1, FlaggedType, AdvancedType
      <2>2. CASE BeginWait \/ Settled
            <3>1. PICK w \in {"Settling", "Pin"} : ep' = Waiting(ep, w)
                  BY <2>2 DEF BeginWait, Settled
            <3> QED BY <1>1, <3>1, WaitingType
      <2>3. CASE PinReached
            BY <1>1, <2>3, AdvancedType DEF PinReached
      <2> QED BY <2>1, <2>2, <2>3
<1>3. UNCHANGED <<Outstanding, Meanwhile>>
      BY <1>1, <1>2 DEF Outstanding, Meanwhile, HasJob
<1> QED BY <1>1, <1>3, Unseen

\* Steps that answer nothing and ask nothing
LEMMA Quiet ==
    ASSUME IInv, IInv', Numbered, UNCHANGED <<channel, asked, ids, ep, before>>,
           chip'.screen = chip.screen, chip'.powered = chip.powered,
           UNCHANGED <<answers, out>> \/ SendAndArm
    PROVE  UNCHANGED Promise!taskVars /\ Numbered'
<1>1. UNCHANGED <<Outstanding, Meanwhile>>
      BY DEF Outstanding, Meanwhile, Seen
<1>2. UNCHANGED <<answers, out>> \/ (answers' = answers \o out /\ out' = <<>>)
      BY DEF SendAndArm
<1> QED BY <1>1, <1>2, Unseen

LEMMA PromiseStep ==
    ASSUME IInv, IInv', Numbered, [Next]_vars
    PROVE  [Promise!Next]_Promise!taskVars /\ Numbered'
<1>1. CASE \E r \in Requests : Submit(r)
      BY <1>1, SubmitStep DEF Promise!Next
<1>2. CASE Recv
      BY <1>2, RecvStep
<1>3. CASE RefuseRequest
      BY <1>3, RefuseStep DEF Promise!Next
<1>4. CASE StartJob
      BY <1>4, StartStep
<1>5. CASE FinishJob
      BY <1>5, FinishStep DEF Promise!Next
<1>6. CASE RunTx
      BY <1>6, TransferStep DEF Promise!Next
<1>7. CASE TimedOut
      BY <1>7, TimeoutStep DEF Promise!Next
<1>8. CASE SetFlag \/ BeginWait \/ Settled \/ PinReached
      BY <1>8, WithinJob
<1>9. CASE SendAndArm
      <2>1. UNCHANGED <<channel, asked, ids, ep, before, chip>>
            BY <1>9 DEF SendAndArm, handleVars
      <2> QED BY <1>9, <2>1, Quiet
<1>10. CASE PanelWorks
      <2>1. UNCHANGED <<channel, asked, ids, ep, before, answers, out>>
            BY <1>10 DEF PanelWorks, handleVars
      <2>2. chip \in PanelType
            BY DEF IInv, TaskType
      <2>3. chip'.screen = chip.screen /\ chip'.powered = chip.powered
            BY <1>10, <2>2 DEF PanelWorks, PanelType
      <2> QED BY <2>1, <2>3, Quiet
<1>11. CASE \/ Notify \/ Begin \/ Idle \/ KeepWaiting \/ Reread \/ Wake \/ RetryTime \/ Interrupt
            \/ SettleTime \/ BusyDeadline \/ UNCHANGED vars
            \/ \E i \in Slots : RunOther(i) \/ SkipOther(i) \/ OtherWants(i)
      <2>1. UNCHANGED <<channel, asked, ids, ep, before, chip, answers, out>>
            BY <1>11 DEF Notify, Begin, Idle, KeepWaiting, Reread, Wake, RetryTime, Interrupt, SettleTime,
                  BusyDeadline, RunOther, SkipOther, OtherWants, InEpaper, handleVars, vars
      <2> QED BY <2>1, Quiet
<1> QED BY <1>1, <1>2, <1>3, <1>4, <1>5, <1>6, <1>7, <1>8, <1>9, <1>10, <1>11
        DEF Next, Task, Time, EpaperSteps

LEMMA PromiseInit ==
    ASSUME Init
    PROVE  Promise!Init /\ Numbered
<1>1. /\ channel = <<>> /\ asked = 0 /\ out = <<>> /\ ids = <<>> /\ answers = <<>> /\ ep = NewEpaper
      BY DEF Init
<1>2. PICK volts \in BOOLEAN : chip = NewPanel(Blank, volts)
      BY DEF Init
<1>3. ~HasJob(ep) /\ ep.queue = <<>>
      BY <1>1 DEF NewEpaper, NoJob, HasJob
<1>4. Outstanding = <<>>
      BY <1>3 DEF Outstanding
<1>5. Pending = <<>>
      BY <1>1, <1>4 DEF Pending
<1>6. Meanwhile = Seen /\ Seen.known = FALSE /\ Seen.power = FALSE /\ Seen.volts = volts /\ Seen.screen = Blank
      BY <1>1, <1>2, <1>3 DEF Meanwhile, Seen, NewEpaper, NewPanel
<1>7. Blank \in Image
      BY DEF Blank, Image, Ink
<1>8. Promise!Init
      BY <1>1, <1>2, <1>5, <1>6, <1>7, PromiseOverlay DEF Promise!Init
<1>9. Numbered
      <2>1. \A S : <<>> \in Seq(S)
            OBVIOUS
      <2>2. Len(<<>>) = 0
            OBVIOUS
      <2>3. ids \in Seq(Nat) /\ out \in Seq(Answer) /\ answers \in Seq(Answer)
            BY <1>1, <2>1, Zenon
      <2>4. Len(ids) = Len(Outstanding) /\ asked = Len(answers) + Len(out) + Len(ids) + Len(channel)
            BY <1>1, <1>4
      <2> QED BY <2>3, <2>4 DEF Numbered
<1> QED BY <1>8, <1>9

\* Whatever is asked, and however failures of the wire, timeouts and the other
\* devices fall among the transactions: every request is answered once, in
\* order (scheduler.rs:15, spi_service.rs), and what each leaves on the panel
\* and believed of it is what epaper.rs's head comment promises, as a whole.
THEOREM PromiseKept == Spec => KeepsPromise
<1>1. Init => Promise!Init /\ Numbered
      BY PromiseInit
<1>2. IInv /\ IInv' /\ Numbered /\ [Next]_vars => [Promise!Next]_Promise!taskVars /\ Numbered'
      BY PromiseStep
<1> QED BY <1>1, <1>2, Inductive, PTL DEF Spec, KeepsPromise, Promise!Spec
=============================================================================
