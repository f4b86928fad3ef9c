---------------------------- MODULE LinkVerdict ----------------------------
(***************************************************************************)
(* What the rows "Processor link" and "Link soak" conclude                 *)
(* (tests/tests_link.c) from one exchange after the other                  *)
(* (diag_link_run, set_rate in tests/link_diag.c).  An exchange is one     *)
(* step and may fail for whatever reason LinkSession has; what it did to   *)
(* the slave when it failed is open, and the slave may reboot between two. *)
(***************************************************************************)
EXTENDS Integers, Sequences

CONSTANTS
  Dividers,   \* sweep_divs, the fastest first
  Attempts,   \* HELLOs of one handshake
  MaxBad,     \* bound: exchanges that fail or carry a bad byte, and reboots
  MaxPasses   \* bound: passes of a soak

ASSUME VerdictAssumption ==
  /\ Dividers \in Seq(Nat \ {0}) /\ Len(Dividers) > 0
  /\ \A i, j \in DOMAIN Dividers : i # j => Dividers[i] # Dividers[j]
  /\ Attempts \in Nat \ {0} /\ MaxBad \in Nat /\ MaxPasses \in Nat \ {0}

Full == Dividers[1]
Directions == {"m2s", "s2m"}

VARIABLES
  row,      \* which row runs
  linkAt,   \* the exchange that is next
  try, i,   \* HELLOs so far, the divider's place in the sweep
  div,      \* each chip's divider
  out,      \* diag_link_result_t: contacted, all_passed, sweep
  soak,     \* the soak's passes and errors
  verdict,  \* what the row said last
  proved,   \* history: direction and divider of every clean verify of this run
  bad,      \* history: what went wrong, in this row
  reboots   \* history: the slave rebooted in this row
lvVars == <<row, linkAt, try, i, div, out, soak, verdict, proved, bad, reboots>>

Rate == [m2s |-> FALSE, s2m |-> FALSE, errors |-> 0, ran |-> TRUE, ok |-> FALSE]
Blank == [contacted |-> FALSE, all |-> FALSE, sweep |-> [k \in DOMAIN Dividers |-> Rate]]

Goes(to) == linkAt' = to
May == bad + reboots < MaxBad
Fault == May /\ bad' = bad + 1
Well == UNCHANGED bad

---------------------------------------------------------------------------
(* diag_link_run: handshake, self-test, latency.                           *)

(* memset and the first HELLO; a row that begins has everything to prove.  *)
Row(r) ==
  /\ linkAt = "idle" /\ Goes("hello")
  /\ row' = r /\ try' = 1 /\ out' = Blank /\ proved' = {}
  /\ soak' = [passes |-> 0, errors |-> 0]
  /\ bad' = 0 /\ reboots' = 0 /\ verdict' = "running"
  /\ UNCHANGED <<i, div>>

Hello ==
  /\ linkAt = "hello"
  /\ \/ /\ Well /\ Goes("selftest")
        /\ out' = [out EXCEPT !.contacted = TRUE] /\ UNCHANGED try
     \/ /\ Fault /\ UNCHANGED out
        /\ IF try < Attempts THEN try' = try + 1 /\ UNCHANGED linkAt
           ELSE Goes("over") /\ UNCHANGED try
  /\ UNCHANGED <<row, i, div, soak, verdict, proved, reboots>>

(* Neither is looked at again.                                             *)
SelfTestAndPing ==
  /\ linkAt = "selftest" /\ Goes("rate")
  /\ i' = 1 /\ out' = [out EXCEPT !.all = TRUE]
  /\ Well \/ Fault
  /\ UNCHANGED <<row, try, div, soak, verdict, proved, reboots>>

---------------------------------------------------------------------------
(* One divider of the sweep.                                               *)

Sweep(field, v) == [out EXCEPT !.sweep[i][field] = v]
SweepFailed == [out EXCEPT !.all = FALSE]
NextRate == IF i < Len(Dividers) THEN i' = i + 1 /\ Goes("rate") ELSE UNCHANGED i /\ Goes("park")

(* set_rate: the slave follows when it has tried to acknowledge.  Seeded   *)
(* fault: the master follows when it has asked.                            *)
TriesRateBlindly(q, done, refused) ==
  \/ Well /\ div' = [m |-> q, s |-> q] /\ done
  \/ Fault /\ div' \in {[m |-> q, s |-> div.s], [m |-> q, s |-> q]} /\ done
TriesRate(q, done, refused) ==
  \/ Well /\ div' = [m |-> q, s |-> q] /\ done
  \/ Fault /\ div' \in {div, [div EXCEPT !.s = q]} /\ refused

SetRate ==
  /\ linkAt = "rate"
  /\ TriesRate(Dividers[i], Goes("m2s") /\ UNCHANGED <<i, out>>,
               out' = SweepFailed /\ NextRate)
  /\ UNCHANGED <<row, try, soak, verdict, proved, reboots>>

(* The three timed streams; nothing of them is compared.                   *)
Stream ==
  /\ linkAt \in {"m2s", "s2m", "duplex"}
  /\ \/ Well /\ out' = IF linkAt = "duplex" THEN out ELSE Sweep(linkAt, TRUE)
     \/ Fault /\ out' = SweepFailed
  /\ Goes(CASE linkAt = "m2s" -> "s2m" [] linkAt = "s2m" -> "duplex" [] OTHER -> "check_m2s")
  /\ UNCHANGED <<row, try, i, div, soak, verdict, proved, reboots>>

(* A verified transfer: clean, with bad bytes or lost blocks, or broken    *)
(* off.  The sender's divider is the one that is tried.                    *)
Verified(direction) ==
  \/ /\ Well /\ UNCHANGED out
     /\ proved' = proved \cup {<<direction, IF direction = "m2s" THEN div.m ELSE div.s>>}
  \/ Fault /\ out' = Sweep("errors", out.sweep[i].errors + 1) /\ UNCHANGED proved
  \/ Fault /\ out' = Sweep("ran", FALSE) /\ UNCHANGED proved

CheckM2s ==
  /\ linkAt = "check_m2s" /\ Verified("m2s") /\ Goes("check_s2m")
  /\ UNCHANGED <<row, try, i, div, soak, verdict, reboots>>
CheckS2m ==
  /\ linkAt = "check_s2m" /\ Verified("s2m") /\ Goes("judge")
  /\ UNCHANGED <<row, try, i, div, soak, verdict, reboots>>

Judged(r) == r.ran /\ r.errors = 0 /\ r.m2s /\ r.s2m

Judge ==
  /\ linkAt = "judge"
  /\ LET ok == Judged(out.sweep[i])
     IN  out' = [Sweep("ok", ok) EXCEPT !.all = @ /\ ok]
  /\ NextRate
  /\ UNCHANGED <<row, try, div, soak, verdict, proved, bad, reboots>>

(* Back to full rate, whether it works or not.                             *)
Park ==
  /\ linkAt = "park" /\ Goes("over")
  /\ TriesRate(Full, TRUE, TRUE)
  /\ UNCHANGED <<row, try, i, out, soak, verdict, proved, reboots>>

---------------------------------------------------------------------------
(* t_link, and t_link_soak, which goes round until its time is over.       *)

LinkEnds ==
  /\ linkAt = "over" /\ row = "link" /\ Goes("idle")
  /\ verdict' = IF ~out.contacted THEN "norun" ELSE IF out.all THEN "pass" ELSE "fail"
  /\ UNCHANGED <<row, try, i, div, out, soak, proved, bad, reboots>>

SoakTurns ==
  /\ linkAt = "over" /\ row = "soak"
  /\ IF ~out.contacted THEN verdict' = "fail" /\ Goes("idle") /\ UNCHANGED <<try, out, soak, proved>>
     ELSE LET s == [passes |-> soak.passes + 1, errors |-> soak.errors + out.sweep[1].errors]
          IN  /\ soak' = s
              /\ \/ /\ s.passes < MaxPasses /\ Goes("hello")
                    /\ try' = 1 /\ out' = Blank /\ proved' = {} /\ UNCHANGED verdict
                 \/ /\ verdict' = IF s.errors = 0 THEN "pass" ELSE "fail"
                    /\ Goes("idle") /\ UNCHANGED <<try, out, proved>>
  /\ UNCHANGED <<row, i, div, bad, reboots>>

(* A reboot takes less time than the master's patience with a doorbell.    *)
SlaveReboots ==
  /\ linkAt # "idle" /\ May
  /\ reboots' = reboots + 1 /\ div' = [div EXCEPT !.s = Full]
  /\ UNCHANGED <<row, linkAt, try, i, out, soak, verdict, proved, bad>>

LvInit ==
  /\ row = "link" /\ linkAt = "idle" /\ try = 0 /\ i = 1
  /\ div = [m |-> Full, s |-> Full] /\ out = Blank
  /\ soak = [passes |-> 0, errors |-> 0] /\ verdict = "none"
  /\ proved = {} /\ bad = 0 /\ reboots = 0

LvNext ==
  \/ \E r \in {"link", "soak"} : Row(r)
  \/ Hello \/ SelfTestAndPing \/ SetRate \/ Stream \/ CheckM2s \/ CheckS2m \/ Judge \/ Park
  \/ LinkEnds \/ SoakTurns \/ SlaveReboots

---------------------------------------------------------------------------
(* A passed "Processor link" has moved every divider's blocks both ways    *)
(* with both chips at that divider and not a byte wrong, in this very run, *)
(* unless the slave rebooted in the middle of it; and a failed row of      *)
(* either kind has something to show for it.                               *)
LinkVerdictIsEarned ==
  linkAt = "idle" /\ verdict # "none" =>
    /\ verdict = "pass" /\ row = "link" /\ reboots = 0 =>
         proved = Directions \X {Dividers[k] : k \in DOMAIN Dividers}
    /\ verdict = "fail" => bad > 0

(* "Verified pass at the same rate: this is what decides ok"               *)
(* (link_diag.c:280).                                                      *)
VerifiedAtTheRate ==
  linkAt = "idle" /\ verdict = "pass" /\ row = "link" =>
    proved = Directions \X {Dividers[k] : k \in DOMAIN Dividers}

(* "A single error fails the row" (tests_link.c:137).                      *)
SoakToleratesNothing == linkAt = "idle" /\ row = "soak" /\ verdict = "pass" => bad = 0
=============================================================================
