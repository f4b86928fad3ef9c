------------------------------- MODULE Memory -------------------------------
(***************************************************************************)
(* The QSPI PSRAM at boot: the memory controller is set up for the clock   *)
(* in force (drivers/psram_init.c); common/mem_test.c looks for the part,  *)
(* takes its size from where addresses alias and sweeps it through the     *)
(* write-back cache; core/detect.c keeps the figures, which                *)
(* tests/tests_memory.c turns into two rows.                               *)
(*                                                                         *)
(* Memory is 2^Low words to a megabyte.  What may be wrong with a part is  *)
(* in how it decodes addresses, in a cell, or in what its bus asks of it.  *)
(***************************************************************************)
EXTENDS Integers, FiniteSets

CONSTANTS
  Low,       \* address lines below the first megabyte
  Steps,     \* doublings the probe looks for, from 1 MB
  CacheSize, \* words the cache holds
  Benches    \* boards: clock and ceiling in MHz, part, size its descriptor states

ASSUME MemoryAssumption ==
  Low \in Nat \ {0} /\ Steps \in Nat \ {0} /\ CacheSize \in Nat \ {0}

None == -1
Pow2[n \in Nat] == IF n = 0 THEN 1 ELSE 2 * Pow2[n - 1]
WordsOf(size) == Pow2[Low + size]     \* of a part of 2^size MB
Space == 0..(WordsOf(Steps) - 1)      \* the word addresses the probe may use

VARIABLES
  bench,    \* [cpu, ceiling, rated, decode, dead, stated]
  timing,   \* of qmi_hw->m[1]: clock divisor, RX delay, longest select, shortest deselect
  cells,    \* the part
  held,     \* words in the cache
  dirty,    \* those of them the part has not been told of
  memAt,    \* how far the boot is
  next,     \* the step or the word that comes next
  found,    \* psram_bytes, as a number of doublings
  swept     \* psram_sweep_run, psram_sweep_ok
partVars == <<cells, held, dirty>>
memVars == <<bench, timing, partVars, memAt, next, found, swept>>

---------------------------------------------------------------------------
(* psram_init.  Times are in femtoseconds.                                 *)

Hz == bench.cpu * 1000000
Period == 1000000000 \div bench.cpu

(* Seeded fault: rounded down, the bus is faster than the ceiling.         *)
DivisorDown(max) == IF Hz \div max <= 1 THEN 2 ELSE Hz \div max
Divisor(max) ==
  LET d == (Hz + max - 1) \div max
  IN  IF d = 1 /\ Hz > 100000000 THEN 2 ELSE d

Timing(d) ==
  [div |-> d,
   rx |-> IF Hz \div d > 100000000 THEN d + 1 ELSE d,
   select |-> 125000000 \div Period,
   deselect |-> (18000000 + Period - 1) \div Period - (d + 1) \div 2]

(* What the part and the fields of the register ask for: a bus within its  *)
(* rate, selected for 8 us at most and then not for 18 ns.                 *)
KeepsUp ==
  /\ Hz <= bench.rated * 1000000 * timing.div
  /\ timing.select * Period <= 125000000
  /\ (timing.deselect + (timing.div + 1) \div 2) * Period >= 18000000
  /\ timing.div < 256 /\ timing.rx < 8
  /\ timing.select < 64 /\ timing.deselect \in 0..31

---------------------------------------------------------------------------
(* The part.                                                               *)

Junk == -1
Canary == -2
Flipped == -3
Mark(step) == -4 - step

Get(c, w) ==
  IF KeepsUp /\ bench.decode[w] \notin bench.dead THEN c[bench.decode[w]] ELSE Junk
Put(c, w, v) == IF KeepsUp THEN [c EXCEPT ![bench.decode[w]] = v] ELSE c

---------------------------------------------------------------------------
(* mem_test_psram_probe, past the cache.                                   *)

InitPsram ==
  /\ memAt = "init" /\ memAt' = "probe"
  /\ timing' = Timing(Divisor(bench.ceiling * 1000000))
  /\ UNCHANGED <<bench, partVars, next, found, swept>>

Probe ==
  /\ memAt = "probe"
  /\ LET c == Put(Put(cells, 0, Canary), 1, Flipped)
     IN  /\ cells' = c
         /\ memAt' = IF Get(c, 0) = Canary /\ Get(c, 1) = Flipped THEN "size" ELSE "done"
  /\ next' = 0
  /\ UNCHANGED <<bench, timing, held, dirty, found, swept>>

(* A write a doubling away comes back at the start, or does not stick.     *)
Size ==
  /\ memAt = "size"
  /\ LET far == WordsOf(next)
         c == Put(Put(cells, 0, Canary), far, Mark(next))
     IN  /\ cells' = c
         /\ IF Get(c, 0) = Canary /\ Get(c, far) = Mark(next) /\ next + 1 < Steps
            THEN next' = next + 1 /\ UNCHANGED <<memAt, found>>
            ELSE found' = next /\ next' = 0 /\ memAt' = "write"
  /\ UNCHANGED <<bench, timing, held, dirty, swept>>

---------------------------------------------------------------------------
(* mem_test_psram_sweep, through the cache: a word's value is its own.     *)

Store ==
  /\ memAt = "write" /\ next < WordsOf(found)
  /\ \/ /\ Cardinality(held) < CacheSize
        /\ held' = held \cup {next} /\ dirty' = dirty \cup {next}
        /\ UNCHANGED cells
     \/ /\ Cardinality(held) >= CacheSize
        /\ \E out \in held :
             /\ held' = (held \ {out}) \cup {next} /\ dirty' = (dirty \ {out}) \cup {next}
             /\ cells' = Put(cells, out, out)
  /\ next' = next + 1
  /\ UNCHANGED <<bench, timing, memAt, found, swept>>

(* xip_cache_clean_all. *)
Clean ==
  /\ memAt = "write" /\ next = WordsOf(found)
  /\ \E w \in dirty : cells' = Put(cells, w, w) /\ dirty' = dirty \ {w}
  /\ UNCHANGED <<bench, timing, held, memAt, next, found, swept>>

(* xip_cache_invalidate_all.  Seeded fault: not called. *)
StartOver == memAt' = "verify" /\ next' = 0 /\ swept' = [run |-> TRUE, ok |-> TRUE]
KeepCache ==
  /\ memAt = "write" /\ next = WordsOf(found) /\ dirty = {}
  /\ StartOver
  /\ UNCHANGED <<bench, timing, partVars, found>>
Invalidate ==
  /\ memAt = "write" /\ next = WordsOf(found) /\ dirty = {}
  /\ held' = {} /\ StartOver
  /\ UNCHANGED <<bench, timing, cells, dirty, found>>

Verify ==
  /\ memAt = "verify"
  /\ LET got == IF next \in held THEN next ELSE Get(cells, next)
     IN  swept' = [swept EXCEPT !.ok = @ /\ got = next]
  /\ next' = next + 1
  /\ memAt' = IF next + 1 = WordsOf(found) THEN "done" ELSE "verify"
  /\ UNCHANGED <<bench, timing, partVars, found>>

MemInit(benches) ==
  /\ bench \in benches
  /\ timing = [div |-> 0, rx |-> 0, select |-> 0, deselect |-> 0]
  /\ cells = [w \in Space |-> Junk] /\ held = {} /\ dirty = {}
  /\ memAt = "init" /\ next = 0 /\ found = None
  /\ swept = [run |-> FALSE, ok |-> FALSE]

MemNext == InitPsram \/ Probe \/ Size \/ Store \/ Clean \/ Invalidate \/ Verify

---------------------------------------------------------------------------
(* The rows, t_psram_probe and t_psram_sweep.                              *)

ProbeRow ==
  IF found = None \/ (bench.stated # None /\ bench.stated # found) THEN "fail" ELSE "pass"
SweepRow == IF ~swept.run THEN "norun" ELSE IF swept.ok THEN "pass" ELSE "fail"
BothPass == memAt = "done" /\ ProbeRow = "pass" /\ SweepRow = "pass"

(* "A PSRAM that is not really there makes a memory test pass by reading   *)
(* back its own cache" (tests_memory.c:20): if both rows pass, every word  *)
(* of the size shown has a cell of its own that holds what it is given,    *)
(* whatever the part does with addresses, and the size is the one the      *)
(* descriptor states.                                                      *)
PassMeansMemory ==
  BothPass =>
    LET words == 0..(WordsOf(found) - 1)
    IN  /\ \A w \in words : bench.decode[w] \notin bench.dead
        /\ \A v, w \in words : v # w => bench.decode[v] # bench.decode[w]
        /\ bench.stated \in {None, found} /\ KeepsUp

(* A sound part passes at its size, at every clock and every ceiling the   *)
(* overclock dialog offers that is not above what it is rated for.         *)
Sound(size) ==
  /\ \A w \in Space : bench.decode[w] = w % WordsOf(size)
  /\ bench.dead = {} /\ bench.ceiling <= bench.rated
GoodPartPasses ==
  memAt = "done" =>
    \A size \in 0..(Steps - 1) :
      Sound(size) /\ bench.stated \in {None, size} => BothPass /\ found = size

(* The two rows can be relied on in either direction.                      *)
MemoryRowsAreTrue == PassMeansMemory /\ GoodPartPasses
=============================================================================
