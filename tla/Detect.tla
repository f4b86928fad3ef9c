------------------------------- MODULE Detect -------------------------------
(***************************************************************************)
(* Which board is this?  core/detect.c: the silicon, the parts that answer *)
(* a probe, the fingerprint of the pins, the verdict; core/pinsig.c: how a *)
(* pin is classified; core/board_table.c: what each board should show.     *)
(* `truth` is the board under the firmware: its parts, and its pins, those *)
(* included that no descriptor says anything of.  The released images have *)
(* no compiled-in board, so the third tier has nothing to say.             *)
(***************************************************************************)
EXTENDS Integers, Sequences, FiniteSets, SequencesExt

CONSTANTS
  Fleet,     \* the boards the firmware may find itself on
  Samples    \* readings of a pin per classification

NC == -1
Level == {"float", "high", "low"}

(* A descriptor: chip class, PSRAM chip select (soft = bit-banged), clock  *)
(* chip and codec on I2C, DS2401 pin, the doorbell's input, signature.     *)
Board(slug, mcu, psram, soft, rtc, codec, ds, bell, high, float, any) ==
  [slug |-> slug, mcu |-> mcu, psram |-> psram, soft |-> soft, rtc |-> rtc,
   codec |-> codec, ds |-> ds, bell |-> bell,
   high |-> high, float |-> float, any |-> any]

Frank      == Board("frank", "any", NC, FALSE, FALSE, FALSE, NC, NC, {2, 3}, {8}, {22})
Pga        == Board("pga", "B", NC, FALSE, FALSE, FALSE, NC, NC, 0..3, {28, 29, 30, 47}, {})
Mega       == Board("mega", "B", 31, TRUE, TRUE, FALSE, 30, NC, {0, 2, 28, 29, 30}, {47}, {})
Micro      == Board("micro", "A", 8, FALSE, FALSE, FALSE, NC, NC, {8}, {0, 2, 3, 20, 26}, {})
Mini       == Board("mini", "A", 8, FALSE, FALSE, FALSE, NC, NC, {2, 3, 8, 20}, {}, {})
Zero       == Board("zero", "A", 8, FALSE, FALSE, FALSE, NC, NC, {8, 20}, {2, 3}, {})
Oldskool   == Board("oldskool", "B", NC, FALSE, FALSE, FALSE, NC, NC, {}, (0..3) \cup {28, 30, 47}, {})
Core2(s)   == Board(s, "B", 47, FALSE, FALSE, FALSE, NC, 42, {43, 47}, {2, 3, 23, 28}, {})
Slave(s)   == Board(s, "A", 0, FALSE, FALSE, FALSE, NC, 22, {0}, 4..8, {})
NextBoard  == Board("next", "B", 47, FALSE, TRUE, TRUE, 23, NC,
                    (3..7) \cup {23, 28, 29, 38, 39, 47}, {}, {})
Z0pa       == Board("z0pa", "B", 47, FALSE, FALSE, FALSE, NC, NC,
                    {28, 30, 31, 32, 35, 39, 43, 47}, {12, 46}, {})

Table == <<Frank, Pga, Mega, Micro, Mini, Zero, Oldskool, Core2("core2"), Slave("core2-slave"),
           Core2("core2u"), Slave("core2u-slave"), NextBoard, Z0pa>>
ForMcu(mcu) == SelectSeq(Table, LAMBDA d : d.mcu \in {mcu, "any"})

VARIABLES
  truth,    \* the board: class, parts that answer, level of every pin
  tier, turn,  \* the tier, and its loop
  answers,  \* what the probes found
  boards,   \* the descriptors still in the race
  best,     \* of the fingerprint: score, runner-up, length, winner
  tied,     \* the candidates the operator is offered
  decision, \* board, and where it came from
  tx        \* the function of GP0, on which the console transmits
detectVars == <<truth, tier, turn, answers, boards, best, tied, decision, tx>>

Tier(to) == tier' = to /\ turn' = 1
NextTurn == turn' = turn + 1 /\ UNCHANGED tier

---------------------------------------------------------------------------
(* Tier 0 and tier 1: the chip, and the parts that answer.                 *)

Silicon ==
  /\ tier = "silicon" /\ Tier("psram")
  /\ boards' = ForMcu(truth.mcu)
  /\ UNCHANGED <<truth, answers, best, tied, decision, tx>>

(* A chip select is tried if some candidate uses it, and stays routed to   *)
(* the memory controller; the first that answers ends the sweep.           *)
Selects == <<8, 47, 0>>
ProbePsram ==
  /\ tier = "psram"
  /\ IF turn > Len(Selects) \/ answers.psram # NC THEN Tier("i2c") /\ UNCHANGED <<answers, tx>>
     ELSE LET plausible == \E d \in ToSet(boards) : d.psram = Selects[turn]
          IN  /\ NextTurn
              /\ answers' = IF plausible /\ truth.psram = Selects[turn]
                          THEN [answers EXCEPT !.psram = truth.psram] ELSE answers
              /\ tx' = IF plausible /\ Selects[turn] = 0 THEN "cs1" ELSE tx
  /\ UNCHANGED <<truth, boards, best, tied, decision>>

(* The bus of the first candidate that has one, GP28 and GP29.             *)
ProbeI2c ==
  /\ tier = "i2c" /\ Tier("onewire")
  /\ answers' = IF truth.mcu = "B"
              THEN [answers EXCEPT !.rtc = truth.rtc, !.codec = truth.codec] ELSE answers
  /\ UNCHANGED <<truth, boards, best, tied, decision, tx>>

(* Every pin a candidate has a DS2401 on, until one answers; a missing one *)
(* is an answer of all ones, which no checksum fits.                       *)
ProbeOneWire ==
  /\ tier = "onewire" /\ Tier("link")
  /\ answers' = IF truth.ds \in {d.ds : d \in ToSet(boards)}
              THEN [answers EXCEPT !.ds = truth.ds] ELSE answers
  /\ UNCHANGED <<truth, boards, best, tied, decision, tx>>

(* The doorbell of the first candidate that is linked: a peer that is up,  *)
(* whatever else holds that pin high against the internal pull-down, and,  *)
(* on silicon with the pull-down anomaly, a pin that floats.               *)
ProbeLink ==
  /\ tier = "link" /\ Tier("veto")
  /\ LET bell == IF truth.mcu = "A" THEN 22 ELSE 42
     IN  \E heard \in IF truth.peer \/ truth.pads[bell] = "high" THEN {TRUE}
                      ELSE IF truth.pads[bell] = "float" /\ truth.anomaly THEN BOOLEAN
                      ELSE {FALSE} :
           answers' = [answers EXCEPT !.peer = heard]
  /\ UNCHANGED <<truth, boards, best, tied, decision, tx>>

(* tier1_consistent.                                                       *)
Consistent(d) ==
  /\ IF d.psram # NC /\ ~d.soft THEN answers.psram = d.psram
     ELSE answers.psram = NC \/ d.soft
  /\ d.rtc = answers.rtc /\ d.codec = answers.codec
  /\ answers.ds # NC => d.ds = answers.ds
  /\ answers.peer => d.bell # NC

(* Those the probes do not rule out; all of them if they rule out all.     *)
Vetoed ==
  LET viable == SelectSeq(boards, Consistent)
  IN  IF viable = << >> THEN boards ELSE viable

Veto ==
  /\ tier = "veto" /\ Tier("score")
  /\ boards' = Vetoed
  /\ UNCHANGED <<truth, answers, best, tied, decision, tx>>

---------------------------------------------------------------------------
(* Tier 2: the fingerprint.                                                *)

(* pinsig_classify: the majority of the samples, one of which is off; of   *)
(* equal counts the first of float, high, low.                             *)
Classify(level, off) ==
  LET votes == [l \in Level |-> (IF l = level THEN Samples - 1 ELSE 0) + (IF l = off THEN 1 ELSE 0)]
  IN  CHOOSE l \in Level : \A k \in Level :
        votes[l] > votes[k] \/ (votes[l] = votes[k] /\ (l = k \/ l = "float" \/ k = "low"))

Signature(d) == d.high \cup d.float \cup d.any
Length(d) == Cardinality(Signature(d))

(* pinsig_score: how many pins of d read as they should, when one sample   *)
(* of pin `noisy` reads `off`.                                             *)
Matches(d, noisy, off) ==
  LET seen(p) == Classify(truth.pads[p], IF p = noisy THEN off ELSE truth.pads[p])
  IN  Cardinality({p \in Signature(d) : \/ p \in d.any
                                        \/ p \in d.high /\ seen(p) = "high"
                                        \/ p \in d.float /\ seen(p) = "float"})
(* Seeded fault: pins matched, not the share of them.                      *)
ScoreByCount(d, noisy, off) == Matches(d, noisy, off)
Score(d, noisy, off) == (Matches(d, noisy, off) * 1000) \div Length(d)

(* A share of the pins, and of equal shares the longer signature; a board  *)
(* it replaces becomes the runner-up only if its share was the smaller.    *)
Fingerprint ==
  /\ tier = "score"
  /\ IF turn > Len(boards) THEN Tier("tie") /\ UNCHANGED best
     ELSE \E noisy \in Signature(boards[turn]), off \in Level :
            LET d == boards[turn]
                s == Score(d, noisy, off)
            IN  /\ NextTurn
                /\ best' = IF s > best.score \/ (s = best.score /\ Length(d) > best.len)
                           THEN [score |-> s, len |-> Length(d), winner |-> d.slug,
                                 second |-> IF s > best.score THEN best.score ELSE best.second]
                           ELSE IF s > best.second THEN [best EXCEPT !.second = s] ELSE best
  /\ UNCHANGED <<truth, answers, boards, tied, decision, tx>>

(* The pins are read once more, for the boards that did as well.           *)
Candidates ==
  /\ tier = "tie"
  /\ IF turn > Len(boards) THEN Tier("decide") /\ UNCHANGED tied
     ELSE \E noisy \in Signature(boards[turn]), off \in Level :
            /\ NextTurn
            /\ tied' = IF Score(boards[turn], noisy, off) = best.score
                       THEN Append(tied, boards[turn].slug) ELSE tied
  /\ UNCHANGED <<truth, answers, boards, best, decision, tx>>

Ambiguous == best.winner # "none" /\ best.score = best.second /\ Len(boards) > 1

(* An undecided board is driven by what the fleet has in common.           *)
Decide ==
  /\ tier = "decide" /\ Tier("done")
  /\ decision' = IF best.winner = "none" \/ Ambiguous
                THEN [board |-> "unknown", source |-> "none"]
                ELSE [board |-> best.winner, source |-> "auto"]
  /\ UNCHANGED <<truth, answers, boards, best, tied, tx>>

---------------------------------------------------------------------------
DetectInit(fleet) ==
  /\ truth \in fleet
  /\ tier = "silicon" /\ turn = 1
  /\ answers = [psram |-> NC, rtc |-> FALSE, codec |-> FALSE, ds |-> NC, peer |-> FALSE]
  /\ boards = << >> /\ tied = << >>
  /\ best = [score |-> 0, len |-> 0, second |-> 0, winner |-> "none"]
  /\ decision = [board |-> "unknown", source |-> "none"]
  /\ tx = "uart"

DetectNext ==
  \/ Silicon \/ ProbePsram \/ ProbeI2c \/ ProbeOneWire \/ ProbeLink \/ Veto
  \/ Fingerprint \/ Candidates \/ Decide

---------------------------------------------------------------------------
(* Properties.                                                             *)

Decided == tier = "done"

(* "When two descriptors tie the firmware says so and asks, instead of     *)
(* picking one and being quietly wrong" (README.md): a board the detector  *)
(* names is the board it runs on.  Not kept: of two full scores the longer *)
(* signature wins, and the margin it leaves is not zero (see Outscored).   *)
NeverQuietlyWrong == Decided /\ decision.source = "auto" => decision.board = truth.is

(* FRANK with a module of the larger chip, its four pins as they should    *)
(* be, is named as another board that the probes leave, all of whose       *)
(* longer signature the pins happen to fit as well: the two tie, and       *)
(* nobody is asked.                                                        *)
Outscored ==
  /\ truth.is = "frank" /\ truth.mcu = "B"
  /\ \E d \in ToSet(boards) :
       /\ d.slug = decision.board /\ Length(d) > Length(Frank)
       /\ \A p \in d.high : truth.pads[p] = "high"
       /\ \A p \in d.float : truth.pads[p] = "float"

(* A board with the parts and pins its descriptor says is named, whatever  *)
(* its other pins do, or asked for among the two that nothing electrical   *)
(* tells apart; and then these two and no other are offered, unless a      *)
(* floating pin was taken for the other chip.  One board is excepted: a    *)
(* FRANK with a module of the larger chip may be outscored, and by nothing *)
(* less than a full match.  (Such a module's PSRAM is not in the           *)
(* descriptor of FRANK, which it vetoes: nothing is said of that one.)     *)
Twins == {{"core2", "core2u"}, {"core2-slave", "core2u-slave"}}
VerdictIsRight ==
  /\ NeverQuietlyWrong \/ Outscored
  /\ Decided /\ answers.peer = truth.peer =>
       \/ decision.source = "auto"
       \/ \E t \in Twins : truth.is \in t /\ ToSet(tied) = t
=============================================================================
