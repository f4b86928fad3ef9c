----------------------------- MODULE MCVerdicts -----------------------------
(* Parts of every size, sound ones at every clock and ceiling on offer, and
   at the stock clock every single fault in how one decodes: a line stuck,
   two shorted, a dead cell, nothing there, a part slower than it says.
   Cards of every kind.  The fleet of boards, as its descriptors say: what
   no descriptor says of a board's pins is taken as bad as it can be: each
   other board in turn finds all of them the way its own signature wants.    *)
EXTENDS Verdicts

Lines == 0..(Low + Steps - 1)
Bit(w, l) == (w \div 2^l) % 2
With(w, l, b) == w + (b - Bit(w, l)) * 2^l
Folded(w, size) == w % 2^(Low + size)
Stuck(size, l, b) == [w \in Space |-> With(Folded(w, size), l, b)]
And(size, k, l) == [w \in Space |->
  LET v == Folded(w, size) b == Bit(v, k) * Bit(v, l) IN With(With(v, k, b), l, b)]
Or(size, k, l) == [w \in Space |->
  LET v == Folded(w, size) b == IF Bit(v, k) + Bit(v, l) = 0 THEN 0 ELSE 1
  IN  With(With(v, k, b), l, b)]

Bench(cpu, ceiling, rated, decode, dead, stated) ==
  [cpu |-> cpu, ceiling |-> ceiling, rated |-> rated, decode |-> decode, dead |-> dead,
   stated |-> stated]
Plain(size) == [w \in Space |-> Folded(w, size)]
Sizes == 0..Steps
Cpus == {150, 200, 252, 264, 300, 308, 336, 378, 396, 420, 450, 504}
Ceilings == {84, 109, 133, 150, 166, 200}

Decodings ==
  UNION {{Stuck(s, l, b) : l \in 0..(Low + s - 1), b \in 0..1} : s \in Sizes \ {Steps}}
  \cup UNION {{And(s, k, l), Or(s, k, l)} : s \in {Steps - 1}, k \in Lines, l \in Lines}
MCBenches ==
  {Bench(c, m, m, Plain(Steps - 1), {}, Steps - 1) : c \in Cpus, m \in Ceilings}
  \cup {Bench(252, 133, r, Plain(s), {}, t) : r \in {109, 133}, s \in Sizes, t \in {None, Steps - 1}}
  \cup {Bench(252, 133, 133, d, {}, t) : d \in Decodings, t \in {None, Steps - 1}}
  \cup {Bench(252, 133, 133, Plain(Steps - 1), {w}, t) : w \in Space, t \in {None, Steps - 1}}
  \cup {Bench(252, 133, 133, Plain(Steps - 1), Space, None)}
MCDividers == <<1, 2>>

Csd(v, size, mult, len) == [v |-> v, size |-> size, mult |-> mult, len |-> len]
MCCards ==
  {EmptySocket, [kind |-> "mmc", csd |-> Csd(1, 1, 3, 9)],
   [kind |-> "sdsc2", csd |-> Csd(1, 3, 7, 10)], [kind |-> "sdhc", csd |-> Csd(2, 7, 0, 9)]}
  \cup {[kind |-> "sdsc1", csd |-> Csd(1, s, m, l)] : s \in {0, 3}, m \in {0, 7}, l \in {9, 11}}

Pins == (UNION {Signature(d) : d \in ToSet(Table)}) \cup {42}
Pad(d, rival, p) ==
  IF p \in d.high THEN "high" ELSE IF p \in d.float THEN "float"
  ELSE IF p \in rival.high THEN "high" ELSE "float"

Real(d, mcu, psram, ds, peer, anomaly, rival) ==
  [is |-> d.slug, mcu |-> mcu, psram |-> psram, rtc |-> d.rtc, codec |-> d.codec,
   ds |-> ds, peer |-> peer, anomaly |-> anomaly,
   pads |-> [p \in Pins |-> Pad(d, rival, p)]]

AsDescribed ==
  {Real(d, mcu, IF d.soft THEN NC ELSE d.psram, ds, peer, anomaly, rival) :
     d \in ToSet(Table), mcu \in {"A", "B"}, ds \in {NC} \cup {e.ds : e \in ToSet(Table)},
     peer \in BOOLEAN, anomaly \in BOOLEAN, rival \in ToSet(Table)}
Healthy == {b \in AsDescribed :
   LET d == CHOOSE e \in ToSet(Table) : e.slug = b.is
   IN d.mcu \in {b.mcu, "any"} /\ b.ds \in {d.ds, NC} /\ (b.peer => d.bell # NC)}

(* Boards that are sold too: FRANK with a module of the larger chip, with  *)
(* or without PSRAM, and z0pa without PSRAM.                               *)
Sold == {b \in Healthy : b.is \in {"frank", "z0pa"}} \cup
        {[b EXCEPT !.psram = 47] : b \in {c \in Healthy : c.is = "frank" /\ c.mcu = "B"}} \cup
        {[b EXCEPT !.psram = NC] : b \in {c \in Healthy : c.is = "z0pa"}}

(* For the run that is about cards only.                                     *)
OneBench == {Stock}
OneBoard == {CHOOSE b \in Healthy : TRUE}
=============================================================================
