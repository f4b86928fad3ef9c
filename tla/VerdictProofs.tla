---------------------------- MODULE VerdictProofs ----------------------------
(* What a verdict that was said proves of the hardware under it, for every
   table of dividers, every part, every card and every bound: the link rows,
   the memory rows and the drivers of the card, as Verdicts puts them on their
   benches.                                                                  *)
EXTENDS Verdicts, WellFoundedInduction, TLAPS

----------------------------------------------------------------------------
(* The link rows.                                                           *)

Rates == [m2s : BOOLEAN, s2m : BOOLEAN, errors : Nat, ran : BOOLEAN, ok : BOOLEAN]
Outs == [contacted : BOOLEAN, all : BOOLEAN, sweep : [DOMAIN Dividers -> Rates]]
Tried == {Dividers[k] : k \in DOMAIN Dividers}

(* From the slave's agreement to a divider to the verdict on it.            *)
AtRate == {"m2s", "s2m", "duplex", "check_m2s", "check_s2m", "judge"}
LinkPlaces == AtRate \cup {"idle", "hello", "selftest", "rate", "park", "over"}

LinkTypes ==
  /\ row \in {"link", "soak"} /\ linkAt \in LinkPlaces /\ try \in Nat
  /\ i \in DOMAIN Dividers /\ out \in Outs
  /\ div \in [m : Tried, s : Tried]
  /\ linkAt = "hello" => ~out.all
  /\ linkAt \in AtRate \cup {"selftest", "rate", "park"} => out.contacted
  /\ bad \in Nat /\ reboots \in Nat
  /\ soak.passes \in Nat /\ soak.errors \in Nat

(* While the slave has not rebooted, both chips are at the divider that is  *)
(* tried, and nothing was proved at any other than the sweep's.             *)
BothAtTheRate ==
  reboots = 0 => /\ linkAt \in AtRate => div.m = Dividers[i] /\ div.s = Dividers[i]
                 /\ proved \subseteq Directions \X Tried

(* Whatever the result holds against the link happened.                     *)
BlameIsBad ==
  bad = 0 =>
    /\ soak.errors = 0
    /\ \A k \in DOMAIN Dividers : out.sweep[k].errors = 0 /\ out.sweep[k].ran
    /\ linkAt \in AtRate \ {"m2s"} => out.sweep[i].m2s
    /\ linkAt \in AtRate \ {"m2s", "s2m"} => out.sweep[i].s2m
    /\ linkAt = "over" => out.contacted
    /\ linkAt \in AtRate \cup {"rate", "park", "over"} => out.all

(* A sweep not yet failed has proved every divider behind it, and of the    *)
(* one that is tried what its result does not deny.                         *)
Both(k) == <<"m2s", Dividers[k]>> \in proved /\ <<"s2m", Dividers[k]>> \in proved
SweepIsProved ==
  reboots = 0 =>
    /\ out.all /\ linkAt \in AtRate \cup {"rate"} => \A k \in 1..(i - 1) : Both(k)
    /\ out.all /\ linkAt \in {"park", "over"} => \A k \in DOMAIN Dividers : Both(k)
    /\ linkAt \in {"check_s2m", "judge"} /\ out.sweep[i].ran /\ out.sweep[i].errors = 0
         => <<"m2s", Dividers[i]>> \in proved
    /\ linkAt = "judge" /\ out.sweep[i].ran /\ out.sweep[i].errors = 0
         => <<"s2m", Dividers[i]>> \in proved

(* What was said, and is still said when the next row begins.               *)
SaidIsEarned ==
  linkAt = "idle" /\ verdict # "none" =>
    /\ verdict = "pass" /\ row = "link" /\ reboots = 0 =>
         /\ proved \subseteq Directions \X Tried
         /\ \A k \in DOMAIN Dividers : Both(k)
    /\ verdict = "fail" => bad > 0

LinkInv == LinkTypes /\ BothAtTheRate /\ BlameIsBad /\ SweepIsProved /\ SaidIsEarned

(* The parts of a result, and what each change of one changes.               *)
LEMMA OutIs ==
  ASSUME out \in Outs
  PROVE  /\ out.contacted \in BOOLEAN /\ out.all \in BOOLEAN
         /\ \A k \in DOMAIN Dividers : out.sweep[k].errors \in Nat
         /\ \A k \in DOMAIN Dividers : out.sweep[k].ran \in BOOLEAN
         /\ \A k \in DOMAIN Dividers : out.sweep[k].m2s \in BOOLEAN
         /\ \A k \in DOMAIN Dividers : out.sweep[k].s2m \in BOOLEAN
  BY DEF Outs, Rates

(* A result nothing was noted in yet holds nothing against the link.        *)
LEMMA BlankIs ==
  /\ Blank \in Outs /\ ~Blank.all /\ ~Blank.contacted
  /\ \A k \in DOMAIN Dividers : Blank.sweep[k].errors = 0 /\ Blank.sweep[k].ran
  BY DEF Blank, Rate, Outs, Rates

(* Contact and the overall verdict are set one at a time.                   *)
LEMMA HeadIsSet ==
  ASSUME out \in Outs, NEW b \in BOOLEAN
  PROVE  /\ [out EXCEPT !.contacted = b] \in Outs /\ [out EXCEPT !.all = b] \in Outs
         /\ [out EXCEPT !.contacted = b].contacted = b
         /\ [out EXCEPT !.contacted = b].all = out.all
         /\ [out EXCEPT !.contacted = b].sweep = out.sweep
         /\ [out EXCEPT !.all = b].all = b
         /\ [out EXCEPT !.all = b].contacted = out.contacted
         /\ [out EXCEPT !.all = b].sweep = out.sweep
  BY DEF Outs

(* o is the result with something else noted at the divider that is tried.   *)
Noted(o) ==
  /\ o \in Outs /\ o.contacted = out.contacted /\ o.all = out.all
  /\ \A k \in DOMAIN Dividers : k # i => o.sweep[k] = out.sweep[k]

(* What is noted at a divider leaves the other notes there, and the other   *)
(* dividers, alone.                                                         *)
LEMMA SweepIsSet ==
  ASSUME out \in Outs, i \in DOMAIN Dividers, NEW b \in BOOLEAN
  PROVE  /\ /\ Noted(Sweep("m2s", b)) /\ Sweep("m2s", b).sweep[i].m2s = b
            /\ Sweep("m2s", b).sweep[i].s2m = out.sweep[i].s2m
            /\ Sweep("m2s", b).sweep[i].ran = out.sweep[i].ran
            /\ Sweep("m2s", b).sweep[i].errors = out.sweep[i].errors
         /\ /\ Noted(Sweep("s2m", b)) /\ Sweep("s2m", b).sweep[i].s2m = b
            /\ Sweep("s2m", b).sweep[i].m2s = out.sweep[i].m2s
            /\ Sweep("s2m", b).sweep[i].ran = out.sweep[i].ran
            /\ Sweep("s2m", b).sweep[i].errors = out.sweep[i].errors
         /\ /\ Noted(Sweep("ran", b)) /\ Sweep("ran", b).sweep[i].ran = b
            /\ Sweep("ran", b).sweep[i].errors = out.sweep[i].errors
         /\ /\ Noted(Sweep("ok", b))
            /\ Sweep("ok", b).sweep[i].ran = out.sweep[i].ran
            /\ Sweep("ok", b).sweep[i].errors = out.sweep[i].errors
<1>1. /\ Noted(Sweep("m2s", b)) /\ Sweep("m2s", b).sweep[i].m2s = b
      /\ Sweep("m2s", b).sweep[i].s2m = out.sweep[i].s2m
      /\ Sweep("m2s", b).sweep[i].ran = out.sweep[i].ran
      /\ Sweep("m2s", b).sweep[i].errors = out.sweep[i].errors
  BY DEF Sweep, Outs, Rates, Noted
<1>2. /\ Noted(Sweep("s2m", b)) /\ Sweep("s2m", b).sweep[i].s2m = b
      /\ Sweep("s2m", b).sweep[i].m2s = out.sweep[i].m2s
      /\ Sweep("s2m", b).sweep[i].ran = out.sweep[i].ran
      /\ Sweep("s2m", b).sweep[i].errors = out.sweep[i].errors
  BY DEF Sweep, Outs, Rates, Noted
<1>3. /\ Noted(Sweep("ran", b)) /\ Sweep("ran", b).sweep[i].ran = b
      /\ Sweep("ran", b).sweep[i].errors = out.sweep[i].errors
  BY DEF Sweep, Outs, Rates, Noted
<1>4. /\ Noted(Sweep("ok", b))
      /\ Sweep("ok", b).sweep[i].ran = out.sweep[i].ran
      /\ Sweep("ok", b).sweep[i].errors = out.sweep[i].errors
  BY DEF Sweep, Outs, Rates, Noted
<1> QED BY <1>1, <1>2, <1>3, <1>4

(* So do the errors counted there.                                          *)
LEMMA ErrorsAreSet ==
  ASSUME out \in Outs, i \in DOMAIN Dividers, NEW e \in Nat
  PROVE  Noted(Sweep("errors", e)) /\ Sweep("errors", e).sweep[i].errors = e
  BY DEF Sweep, Outs, Rates, Noted

(* The verdict on a divider reaches the overall one and nothing else.        *)
LEMMA JudgeIsSet ==
  ASSUME out \in Outs, i \in DOMAIN Dividers, NEW b \in BOOLEAN
  PROVE  LET o == [Sweep("ok", b) EXCEPT !.all = @ /\ b]
         IN  /\ o \in Outs /\ o.contacted = out.contacted /\ o.all = (out.all /\ b)
             /\ \A k \in DOMAIN Dividers :
                  o.sweep[k].ran = out.sweep[k].ran /\ o.sweep[k].errors = out.sweep[k].errors
  BY DEF Sweep, Outs, Rates

(* There is a first divider.                                                *)
LEMMA Places ==
  /\ DOMAIN Dividers = 1..Len(Dividers) /\ Len(Dividers) \in Nat /\ 1 \in DOMAIN Dividers
  /\ AtRate \subseteq LinkPlaces
  BY VerdictAssumption DEF AtRate, LinkPlaces

(* Every step of the link rows keeps it.                                    *)
LEMMA LinkKeeps ==
  ASSUME LinkInv, LvNext \/ UNCHANGED lvVars
  PROVE  LinkInv'
  <1> USE DEF LinkInv
  <1>0. /\ out \in Outs /\ i \in DOMAIN Dividers /\ bad \in Nat /\ reboots \in Nat
        /\ soak.errors \in Nat /\ soak.passes \in Nat /\ try \in Nat
        /\ div \in [m : Tried, s : Tried] /\ linkAt \in LinkPlaces /\ row \in {"link", "soak"}
        /\ linkAt = "hello" => ~out.all
        /\ linkAt \in AtRate \cup {"selftest", "rate", "park"} => out.contacted
    BY DEF LinkTypes
  <1>1. CASE \E r \in {"link", "soak"} : Row(r)
    <2>1. LinkTypes'
      BY <1>0, <1>1, BlankIs, Places DEF Row, Goes, LinkTypes, LinkPlaces, AtRate
    <2>2. BothAtTheRate'
      BY <1>0, <1>1, BlankIs, Places DEF Row, Goes, BothAtTheRate, AtRate, Tried, Directions
    <2>3. BlameIsBad'
      BY <1>0, <1>1, BlankIs, Places DEF Row, Goes, BlameIsBad, AtRate
    <2>4. SweepIsProved'
      BY <1>0, <1>1, BlankIs, Places DEF Row, Goes, SweepIsProved, Both, AtRate
    <2>5. SaidIsEarned'
      BY <1>0, <1>1, BlankIs, Places DEF Row, Goes, SaidIsEarned, Both, Tried, Directions
    <2> QED  BY <2>1, <2>2, <2>3, <2>4, <2>5
  <1>2. CASE Hello
    <2>0. /\ out' \in Outs /\ out'.all = out.all /\ out'.sweep = out.sweep /\ linkAt = "hello"
          /\ bad' \in {bad, bad + 1} /\ try' \in Nat /\ linkAt' \in {"selftest", "hello", "over"}
          /\ linkAt' = "over" => bad' = bad + 1
          /\ linkAt' = "selftest" => out'.contacted
          /\ UNCHANGED <<row, i, div, soak, verdict, proved, reboots>>
      <3>1. CASE /\ Well /\ Goes("selftest")
                /\ out' = [out EXCEPT !.contacted = TRUE] /\ UNCHANGED try
        BY <1>0, <1>2, <3>1 DEF Hello, Goes, Well, Outs
      <3>2. CASE /\ Fault /\ UNCHANGED out
                /\ IF try < Attempts THEN try' = try + 1 /\ UNCHANGED linkAt
                   ELSE Goes("over") /\ UNCHANGED try
        BY <1>0, <1>2, <3>2 DEF Hello, Goes, Fault
      <3> QED  BY <1>2, <3>1, <3>2 DEF Hello
    <2>1. LinkTypes'
      BY <1>0, <2>0 DEF LinkTypes, LinkPlaces, AtRate
    <2>2. BothAtTheRate'
      BY <1>0, <2>0 DEF BothAtTheRate, AtRate, Tried, Directions
    <2>3. BlameIsBad'
      BY <1>0, <2>0 DEF BlameIsBad, AtRate
    <2>4. SweepIsProved'
      BY <1>0, <2>0 DEF SweepIsProved, Both, AtRate
    <2>5. SaidIsEarned'
      BY <1>0, <2>0 DEF SaidIsEarned, Both, Tried, Directions
    <2> QED  BY <2>1, <2>2, <2>3, <2>4, <2>5
  <1>3. CASE SelfTestAndPing
    <2>0. /\ out' \in Outs /\ out'.all /\ out'.sweep = out.sweep /\ bad' \in {bad, bad + 1}
      BY <1>0, <1>3 DEF SelfTestAndPing, Well, Fault, Outs
    <2>1. LinkTypes'
      BY <1>0, <1>3, <2>0, Places DEF SelfTestAndPing, Goes, Well, Fault, LinkTypes, LinkPlaces, AtRate
    <2>2. BothAtTheRate'
      BY <1>0, <1>3, <2>0, Places DEF SelfTestAndPing, Goes, Well, Fault, BothAtTheRate, AtRate, Tried, Directions
    <2>3. BlameIsBad'
      BY <1>0, <1>3, <2>0, Places DEF SelfTestAndPing, Goes, Well, Fault, BlameIsBad, AtRate
    <2>4. SweepIsProved'
      BY <1>0, <1>3, <2>0, Places DEF SelfTestAndPing, Goes, Well, Fault, SweepIsProved, Both, AtRate
    <2>5. SaidIsEarned'
      BY <1>0, <1>3, <2>0, Places DEF SelfTestAndPing, Goes, Well, Fault, SaidIsEarned, Both, Tried, Directions
    <2> QED  BY <2>1, <2>2, <2>3, <2>4, <2>5
  <1>4. CASE SetRate
    <2>0. /\ out' \in Outs /\ out'.contacted = out.contacted /\ out'.sweep = out.sweep
          /\ (bad' = bad /\ out' = out) \/ (bad' = bad + 1 /\ ~out'.all)
          /\ div' \in [m : Tried, s : Tried]
      <3>1. CASE Well /\ div' = [m |-> Dividers[i], s |-> Dividers[i]] /\ UNCHANGED out
        <4>1. Dividers[i] \in Tried
          BY <1>0 DEF Tried
        <4> QED  BY <1>0, <3>1, <4>1 DEF Well
      <3>2. CASE Fault /\ div' \in {div, [div EXCEPT !.s = Dividers[i]]} /\ out' = SweepFailed
        <4>1. div' \in [m : Tried, s : Tried]
          BY <1>0, <3>2 DEF Tried
        <4>2. out' \in Outs /\ out'.contacted = out.contacted /\ out'.sweep = out.sweep /\ ~out'.all
          BY <1>0, <3>2 DEF SweepFailed, Outs
        <4> QED  BY <1>0, <3>2, <4>1, <4>2 DEF Fault
      <3> QED  BY <1>4, <3>1, <3>2 DEF SetRate, TriesRate
    <2>1. LinkTypes'
      BY <1>0, <1>4, <2>0, Places DEF SetRate, TriesRate, NextRate, Goes, Well, Fault, LinkTypes, LinkPlaces, AtRate
    <2>2. BothAtTheRate'
      BY <1>0, <1>4, <2>0, Places DEF SetRate, TriesRate, NextRate, Goes, Well, Fault, BothAtTheRate, AtRate, Tried, Directions
    <2>3. BlameIsBad'
      BY <1>0, <1>4, <2>0, Places DEF SetRate, TriesRate, NextRate, Goes, Well, Fault, BlameIsBad, AtRate
    <2>4. SweepIsProved'
      BY <1>0, <1>4, <2>0, Places DEF SetRate, TriesRate, NextRate, Goes, Well, Fault, SweepIsProved, Both, AtRate
    <2>5. SaidIsEarned'
      BY <1>0, <1>4, <2>0, Places DEF SetRate, TriesRate, NextRate, Goes, Well, Fault, SaidIsEarned, Both, Tried, Directions
    <2> QED  BY <2>1, <2>2, <2>3, <2>4, <2>5
  <1>5. CASE Stream
    <2>0. /\ out' \in Outs /\ bad' \in {bad, bad + 1} /\ out'.contacted = out.contacted
          /\ UNCHANGED <<row, try, i, div, soak, verdict, proved, reboots>>
          /\ \/ linkAt = "m2s" /\ linkAt' = "s2m"
             \/ linkAt = "s2m" /\ linkAt' = "duplex"
             \/ linkAt = "duplex" /\ linkAt' = "check_m2s"
          /\ out'.all => out.all
          /\ \A k \in DOMAIN Dividers :
               out'.sweep[k].ran = out.sweep[k].ran /\ out'.sweep[k].errors = out.sweep[k].errors
          /\ bad' = bad => /\ out'.all = out.all
                           /\ out.sweep[i].m2s \/ linkAt = "m2s" => out'.sweep[i].m2s
                           /\ out.sweep[i].s2m \/ linkAt = "s2m" => out'.sweep[i].s2m
      <3>0. /\ UNCHANGED <<row, try, i, div, soak, verdict, proved, reboots>>
            /\ \/ linkAt = "m2s" /\ linkAt' = "s2m"
               \/ linkAt = "s2m" /\ linkAt' = "duplex"
               \/ linkAt = "duplex" /\ linkAt' = "check_m2s"
        BY <1>5 DEF Stream, Goes
      <3>1. CASE Fault /\ out' = SweepFailed
        <4>1. out' \in Outs /\ ~out'.all /\ out'.sweep = out.sweep /\ out'.contacted = out.contacted
          BY <1>0, <3>1 DEF SweepFailed, Outs
        <4>2. bad' = bad + 1 /\ bad' # bad
          BY <1>0, <3>1 DEF Fault
        <4> QED  BY <1>0, <3>0, <4>1, <4>2
      <3>2. CASE Well /\ linkAt = "duplex" /\ out' = out
        BY <1>0, <3>0, <3>2, OutIs DEF Well
      <3>3. CASE Well /\ linkAt = "m2s" /\ out' = Sweep("m2s", TRUE)
        <4>1. Noted(out') /\ out'.sweep[i].m2s /\ out'.sweep[i].s2m = out.sweep[i].s2m
              /\ out'.sweep[i].ran = out.sweep[i].ran /\ out'.sweep[i].errors = out.sweep[i].errors
          BY <1>0, <3>3, SweepIsSet
        <4>2. bad' = bad BY <3>3 DEF Well
        <4> QED BY <1>0, <3>0, <3>3, <4>1, <4>2, OutIs DEF Noted
      <3>4. CASE Well /\ linkAt = "s2m" /\ out' = Sweep("s2m", TRUE)
        <4>1. Noted(out') /\ out'.sweep[i].s2m /\ out'.sweep[i].m2s = out.sweep[i].m2s
              /\ out'.sweep[i].ran = out.sweep[i].ran /\ out'.sweep[i].errors = out.sweep[i].errors
          BY <1>0, <3>4, SweepIsSet
        <4>2. bad' = bad BY <3>4 DEF Well
        <4> QED BY <1>0, <3>0, <3>4, <4>1, <4>2, OutIs DEF Noted
      <3> QED  BY <1>5, <3>1, <3>2, <3>3, <3>4 DEF Stream
    <2>1. LinkTypes'
      BY <1>0, <2>0 DEF LinkTypes, LinkPlaces, AtRate
    <2>2. BothAtTheRate'
      BY <1>0, <2>0 DEF BothAtTheRate, AtRate, Tried, Directions
    <2>3. BlameIsBad'
      <3> SUFFICES ASSUME bad' = 0 PROVE BlameIsBad'
        BY DEF BlameIsBad
      <3>1. bad = 0 /\ bad' = bad
        BY <1>0, <2>0
      <3>2. \A k \in DOMAIN Dividers : out'.sweep[k].errors = 0 /\ out'.sweep[k].ran
        BY <2>0, <3>1 DEF BlameIsBad
      <3>3. /\ out.all /\ (linkAt # "m2s" => out.sweep[i].m2s)
            /\ linkAt = "duplex" => out.sweep[i].s2m
        BY <2>0, <3>1 DEF BlameIsBad, AtRate
      <3>4. soak'.errors = 0 /\ out'.all
        BY <2>0, <3>1, <3>3 DEF BlameIsBad
      <3>5. linkAt' # "m2s" /\ linkAt' # "over" /\ out'.sweep[i].m2s
        BY <2>0, <3>1, <3>3
      <3>6. linkAt' # "s2m" => out'.sweep[i].s2m
        BY <2>0, <3>1, <3>3
      <3> QED  BY <2>0, <3>2, <3>4, <3>5, <3>6 DEF BlameIsBad, AtRate
    <2>4. SweepIsProved'
      BY <1>0, <2>0 DEF SweepIsProved, Both, AtRate
    <2>5. SaidIsEarned'
      BY <1>0, <2>0 DEF SaidIsEarned, Both, Tried, Directions
    <2> QED  BY <2>1, <2>2, <2>3, <2>4, <2>5
  <1>6. CASE CheckM2s
    <2>0. /\ out' \in Outs /\ out'.all = out.all /\ out'.contacted = out.contacted
          /\ \/ /\ bad' = bad /\ out' = out
                /\ proved' = proved \cup {<<"m2s", div.m>>}
             \/ /\ bad' = bad + 1 /\ proved' = proved
                /\ out'.sweep[i].ran /\ out'.sweep[i].errors = 0 => FALSE
          /\ linkAt = "check_m2s" /\ linkAt' = "check_s2m"
          /\ UNCHANGED <<row, try, i, div, soak, verdict, reboots>>
      <3>0. /\ linkAt = "check_m2s" /\ linkAt' = "check_s2m"
            /\ UNCHANGED <<row, try, i, div, soak, verdict, reboots>>
        BY <1>6 DEF CheckM2s, Goes
      <3>1. CASE Well /\ UNCHANGED out /\ proved' = proved \cup {<<"m2s", div.m>>}
        BY <1>0, <3>0, <3>1 DEF Well
      <3>2. CASE Fault /\ out' = Sweep("errors", out.sweep[i].errors + 1) /\ UNCHANGED proved
        <4>1. out.sweep[i].errors + 1 \in Nat /\ out.sweep[i].errors + 1 # 0
          BY <1>0, OutIs
        <4> QED  BY <1>0, <3>0, <3>2, <4>1, ErrorsAreSet DEF Fault, Noted
      <3>3. CASE Fault /\ out' = Sweep("ran", FALSE) /\ UNCHANGED proved
        BY <1>0, <3>0, <3>3, SweepIsSet DEF Fault, Noted
      <3> QED  BY <1>6, <3>1, <3>2, <3>3 DEF CheckM2s, Verified, Goes
    <2>1. LinkTypes'
      BY <1>0, <2>0, OutIs DEF LinkTypes, LinkPlaces, AtRate
    <2>2. BothAtTheRate'
      BY <1>0, <2>0, OutIs DEF BothAtTheRate, AtRate, Tried, Directions
    <2>3. BlameIsBad'
      BY <1>0, <2>0, OutIs DEF BlameIsBad, AtRate
    <2>4. SweepIsProved'
      <3>1. reboots = 0 => div.m = Dividers[i] /\ div.s = Dividers[i]
        BY <2>0 DEF BothAtTheRate, AtRate
      <3> QED  BY <1>0, <2>0, <3>1 DEF SweepIsProved, Both, AtRate
    <2>5. SaidIsEarned'
      BY <1>0, <2>0, OutIs DEF SaidIsEarned, Both, Tried, Directions
    <2> QED  BY <2>1, <2>2, <2>3, <2>4, <2>5
  <1>7. CASE CheckS2m
    <2>0. /\ out' \in Outs /\ out'.all = out.all /\ out'.contacted = out.contacted
          /\ \/ /\ bad' = bad /\ out' = out
                /\ proved' = proved \cup {<<"s2m", div.s>>}
             \/ /\ bad' = bad + 1 /\ proved' = proved
                /\ out'.sweep[i].ran /\ out'.sweep[i].errors = 0 => FALSE
          /\ linkAt = "check_s2m" /\ linkAt' = "judge"
          /\ UNCHANGED <<row, try, i, div, soak, verdict, reboots>>
      <3>0. /\ linkAt = "check_s2m" /\ linkAt' = "judge"
            /\ UNCHANGED <<row, try, i, div, soak, verdict, reboots>>
        BY <1>7 DEF CheckS2m, Goes
      <3>1. CASE Well /\ UNCHANGED out /\ proved' = proved \cup {<<"s2m", div.s>>}
        BY <1>0, <3>0, <3>1 DEF Well
      <3>2. CASE Fault /\ out' = Sweep("errors", out.sweep[i].errors + 1) /\ UNCHANGED proved
        <4>1. out.sweep[i].errors + 1 \in Nat /\ out.sweep[i].errors + 1 # 0
          BY <1>0, OutIs
        <4> QED  BY <1>0, <3>0, <3>2, <4>1, ErrorsAreSet DEF Fault, Noted
      <3>3. CASE Fault /\ out' = Sweep("ran", FALSE) /\ UNCHANGED proved
        BY <1>0, <3>0, <3>3, SweepIsSet DEF Fault, Noted
      <3> QED  BY <1>7, <3>1, <3>2, <3>3 DEF CheckS2m, Verified, Goes
    <2>1. LinkTypes'
      BY <1>0, <2>0, OutIs DEF LinkTypes, LinkPlaces, AtRate
    <2>2. BothAtTheRate'
      BY <1>0, <2>0, OutIs DEF BothAtTheRate, AtRate, Tried, Directions
    <2>3. BlameIsBad'
      BY <1>0, <2>0, OutIs DEF BlameIsBad, AtRate
    <2>4. SweepIsProved'
      <3>1. reboots = 0 => div.m = Dividers[i] /\ div.s = Dividers[i]
        BY <2>0 DEF BothAtTheRate, AtRate
      <3> QED  BY <1>0, <2>0, <3>1 DEF SweepIsProved, Both, AtRate
    <2>5. SaidIsEarned'
      BY <1>0, <2>0, OutIs DEF SaidIsEarned, Both, Tried, Directions
    <2> QED  BY <2>1, <2>2, <2>3, <2>4, <2>5
  <1>8. CASE Judge
    <2>0. /\ out' \in Outs /\ out'.contacted = out.contacted
          /\ UNCHANGED <<row, try, div, soak, verdict, proved, bad, reboots>> /\ linkAt = "judge"
          /\ \/ i < Len(Dividers) /\ i' = i + 1 /\ linkAt' = "rate"
             \/ i = Len(Dividers) /\ i' = i /\ linkAt' = "park"
          /\ out'.all => out.all /\ Judged(out.sweep[i])
          /\ out.all /\ Judged(out.sweep[i]) => out'.all
          /\ \A k \in DOMAIN Dividers :
               out'.sweep[k].ran = out.sweep[k].ran /\ out'.sweep[k].errors = out.sweep[k].errors
      <3>1. Judged(out.sweep[i]) \in BOOLEAN
        BY DEF Judged
      <3>2. /\ out' \in Outs /\ out'.contacted = out.contacted
            /\ out'.all => out.all /\ Judged(out.sweep[i])
            /\ out.all /\ Judged(out.sweep[i]) => out'.all
            /\ \A k \in DOMAIN Dividers :
                 out'.sweep[k].ran = out.sweep[k].ran /\ out'.sweep[k].errors = out.sweep[k].errors
        BY <1>0, <1>8, <3>1, JudgeIsSet DEF Judge
      <3>3. \/ i < Len(Dividers) /\ i' = i + 1 /\ linkAt' = "rate"
            \/ i = Len(Dividers) /\ i' = i /\ linkAt' = "park"
        BY <1>0, <1>8, Places DEF Judge, NextRate, Goes
      <3> QED  BY <1>8, <3>2, <3>3 DEF Judge
    <2>1. LinkTypes'
      BY <1>0, <2>0, Places DEF LinkTypes, LinkPlaces, AtRate
    <2>2. BothAtTheRate'
      BY <1>0, <2>0, Places DEF BothAtTheRate, AtRate, Tried, Directions
    <2>3. BlameIsBad'
      <3>1. bad = 0 => Judged(out.sweep[i])
        BY <1>0, <2>0, OutIs DEF BlameIsBad, Judged, AtRate
      <3> QED  BY <1>0, <2>0, <3>1, Places DEF BlameIsBad, AtRate
    <2>4. SweepIsProved'
      <3>1. reboots = 0 /\ out'.all => \A k \in 1..i : Both(k)
        <4>1. ASSUME reboots = 0, out'.all PROVE Both(i)
          <5>1. out.sweep[i].ran /\ out.sweep[i].errors = 0
            BY <2>0, <4>1 DEF Judged
          <5> QED  BY <2>0, <4>1, <5>1 DEF SweepIsProved, Both
        <4> QED  BY <1>0, <2>0, <4>1, Places DEF SweepIsProved, AtRate
      <3> QED  BY <1>0, <2>0, <3>1, Places DEF SweepIsProved, Both, AtRate
    <2>5. SaidIsEarned'
      BY <1>0, <2>0, Places DEF SaidIsEarned, Both, Tried, Directions
    <2> QED  BY <2>1, <2>2, <2>3, <2>4, <2>5
  <1>9. CASE Park
    <2>0. /\ div' \in [m : Tried, s : Tried] /\ bad' \in {bad, bad + 1}
      BY <1>0, <1>9, Places DEF Park, TriesRate, Well, Fault, Tried, Full
    <2>1. LinkTypes'
      BY <1>0, <1>9, <2>0 DEF Park, TriesRate, Goes, Well, Fault, LinkTypes, LinkPlaces, AtRate
    <2>2. BothAtTheRate'
      BY <1>0, <1>9, <2>0 DEF Park, TriesRate, Goes, Well, Fault, BothAtTheRate, AtRate, Tried, Directions
    <2>3. BlameIsBad'
      BY <1>0, <1>9, <2>0 DEF Park, TriesRate, Goes, Well, Fault, BlameIsBad, AtRate
    <2>4. SweepIsProved'
      BY <1>0, <1>9, <2>0 DEF Park, TriesRate, Goes, Well, Fault, SweepIsProved, Both, AtRate
    <2>5. SaidIsEarned'
      BY <1>0, <1>9, <2>0 DEF Park, TriesRate, Goes, Well, Fault, SaidIsEarned, Both, Tried, Directions
    <2> QED  BY <2>1, <2>2, <2>3, <2>4, <2>5
  <1>10. CASE LinkEnds
    <2>1. LinkTypes'
      BY <1>0, <1>10 DEF LinkEnds, Goes, LinkTypes, LinkPlaces, AtRate
    <2>2. BothAtTheRate'
      BY <1>0, <1>10 DEF LinkEnds, Goes, BothAtTheRate, AtRate, Tried, Directions
    <2>3. BlameIsBad'
      BY <1>0, <1>10 DEF LinkEnds, Goes, BlameIsBad, AtRate
    <2>4. SweepIsProved'
      BY <1>0, <1>10 DEF LinkEnds, Goes, SweepIsProved, Both, AtRate
    <2>5. SaidIsEarned'
      <3>1. linkAt = "over" /\ linkAt' = "idle" /\ UNCHANGED <<out, proved, bad, reboots, row>>
        BY <1>10 DEF LinkEnds, Goes
      <3>2. verdict' = "fail" => bad > 0
        BY <1>0, <1>10, <3>1 DEF LinkEnds, BlameIsBad
      <3>3. verdict' = "pass" => out.all
        BY <1>10 DEF LinkEnds
      <3> QED  BY <1>0, <3>1, <3>2, <3>3 DEF SaidIsEarned, SweepIsProved, BothAtTheRate, Both
    <2> QED  BY <2>1, <2>2, <2>3, <2>4, <2>5
  <1>11. CASE SoakTurns
    <2>0. /\ out' \in {out, Blank} /\ out' \in Outs /\ proved' \in {proved, {}} /\ soak'.errors \in Nat /\ soak'.passes \in Nat
          /\ linkAt' = "hello" \/ linkAt' = "idle"
          /\ bad = 0 => soak'.errors = 0
      <3>1. out.sweep[1].errors \in Nat /\ (bad = 0 => out.sweep[1].errors = 0 /\ soak.errors = 0)
        BY <1>0, OutIs, Places DEF BlameIsBad
      <3>2. CASE ~out.contacted
        BY <1>0, <1>11, <3>1, <3>2 DEF SoakTurns, Goes
      <3>3. CASE out.contacted
        <4>1. soak' = [passes |-> soak.passes + 1, errors |-> soak.errors + out.sweep[1].errors]
          BY <1>11, <3>3 DEF SoakTurns
        <4>2. out' \in {out, Blank} /\ proved' \in {proved, {}} /\ linkAt' \in {"hello", "idle"}
          BY <1>11, <3>3 DEF SoakTurns, Goes
        <4> QED  BY <1>0, <3>1, <4>1, <4>2, BlankIs
      <3> QED  BY <3>2, <3>3
    <2>1. LinkTypes'
      BY <1>0, <1>11, <2>0, BlankIs DEF SoakTurns, Goes, LinkTypes, LinkPlaces, AtRate
    <2>2. BothAtTheRate'
      BY <1>0, <1>11, <2>0, BlankIs DEF SoakTurns, Goes, BothAtTheRate, AtRate, Tried, Directions
    <2>3. BlameIsBad'
      BY <1>0, <1>11, <2>0, BlankIs DEF SoakTurns, Goes, BlameIsBad, AtRate
    <2>4. SweepIsProved'
      BY <1>0, <1>11, <2>0, BlankIs DEF SoakTurns, Goes, SweepIsProved, Both, AtRate
    <2>5. SaidIsEarned'
      <3>1. row' = "soak" /\ UNCHANGED bad
        BY <1>11 DEF SoakTurns
      <3>2. linkAt' = "idle" /\ verdict' = "fail" => bad > 0
        <4>1. CASE ~out.contacted
          BY <1>0, <1>11, <4>1 DEF SoakTurns, BlameIsBad
        <4>2. CASE out.contacted
          BY <1>0, <2>0, <1>11, <4>2 DEF SoakTurns, Goes
        <4> QED  BY <4>1, <4>2
      <3> QED  BY <3>1, <3>2 DEF SaidIsEarned
    <2> QED  BY <2>1, <2>2, <2>3, <2>4, <2>5
  <1>12. CASE SlaveReboots
    <2>0. /\ div' \in [m : Tried, s : Tried] /\ reboots' # 0 /\ reboots' \in Nat
      BY <1>0, <1>12, Places DEF SlaveReboots, Tried, Full
    <2>1. LinkTypes'
      BY <1>0, <1>12, <2>0 DEF SlaveReboots, LinkTypes, LinkPlaces, AtRate
    <2>2. BothAtTheRate'
      BY <1>0, <1>12, <2>0 DEF SlaveReboots, BothAtTheRate, AtRate, Tried, Directions
    <2>3. BlameIsBad'
      BY <1>0, <1>12, <2>0 DEF SlaveReboots, BlameIsBad, AtRate
    <2>4. SweepIsProved'
      BY <1>0, <1>12, <2>0 DEF SlaveReboots, SweepIsProved, Both, AtRate
    <2>5. SaidIsEarned'
      BY <1>0, <1>12, <2>0 DEF SlaveReboots, SaidIsEarned, Both, Tried, Directions
    <2> QED  BY <2>1, <2>2, <2>3, <2>4, <2>5
  <1>13. CASE UNCHANGED lvVars
    <2>1. LinkTypes'
      BY <1>0, <1>13 DEF lvVars, LinkTypes, LinkPlaces, AtRate
    <2>2. BothAtTheRate'
      BY <1>0, <1>13 DEF lvVars, BothAtTheRate, AtRate, Tried, Directions
    <2>3. BlameIsBad'
      BY <1>0, <1>13 DEF lvVars, BlameIsBad, AtRate
    <2>4. SweepIsProved'
      BY <1>0, <1>13 DEF lvVars, SweepIsProved, Both, AtRate
    <2>5. SaidIsEarned'
      BY <1>0, <1>13 DEF lvVars, SaidIsEarned, Both, Tried, Directions
    <2> QED  BY <2>1, <2>2, <2>3, <2>4, <2>5
  <1> QED  BY <1>1, <1>2, <1>3, <1>4, <1>5, <1>6, <1>7, <1>8, <1>9, <1>10, <1>11, <1>12, <1>13 DEF LvNext

(* It holds before the first row.                                           *)
LEMMA LinkStarts == LvInit => LinkInv
  <1> SUFFICES ASSUME LvInit PROVE LinkInv
    OBVIOUS
  <1> USE Places DEF LvInit
  <1>1. Full \in Tried
    BY DEF Full, Tried
  <1>2. LinkTypes
    BY <1>1, BlankIs DEF LinkTypes, LinkPlaces, AtRate
  <1>3. BothAtTheRate /\ BlameIsBad /\ SweepIsProved /\ SaidIsEarned
    BY BlankIs DEF BothAtTheRate, BlameIsBad, SweepIsProved, SaidIsEarned, AtRate
  <1> QED  BY <1>2, <1>3 DEF LinkInv

(* Of every run of the rows, on every table of dividers and with any number *)
(* of faults: both chips stay together, and what is held against the link   *)
(* or in its favour has happened.                                           *)
THEOREM LinkInvariance == Spec => []LinkInv
  <1>1. Init => LinkInv
    BY LinkStarts DEF Init
  <1>2. LinkInv /\ [Next]_vars => LinkInv'
    BY LinkKeeps DEF Next, vars
  <1> QED  BY <1>1, <1>2, PTL DEF Spec

(* A passed "Processor link" has moved verified blocks at every divider in  *)
(* both directions, unless the slave rebooted meanwhile; a failed row of    *)
(* either kind has something to show for it (tests_link.c, link_diag.c).    *)
THEOREM LinkVerdictEarned == Spec => []LinkVerdictIsEarned
  <1>1. LinkInv => LinkVerdictIsEarned
    <2> SUFFICES ASSUME LinkInv, linkAt = "idle", verdict # "none"
                 PROVE  /\ verdict = "pass" /\ row = "link" /\ reboots = 0 =>
                             proved = Directions \X Tried
                        /\ verdict = "fail" => bad > 0
      BY DEF LinkVerdictIsEarned, Tried
    <2>1. SaidIsEarned
      BY DEF LinkInv
    <2>2. ASSUME verdict = "pass", row = "link", reboots = 0 PROVE proved = Directions \X Tried
      <3>1. proved \subseteq Directions \X Tried /\ \A k \in DOMAIN Dividers : Both(k)
        BY <2>1, <2>2 DEF SaidIsEarned
      <3>2. ASSUME NEW d \in Directions, NEW t \in Tried PROVE <<d, t>> \in proved
        BY <3>1 DEF Directions, Tried, Both
      <3> QED  BY <3>1, <3>2
    <2> QED  BY <2>1, <2>2 DEF SaidIsEarned
  <1> QED  BY <1>1, LinkInvariance, PTL

----------------------------------------------------------------------------
(* The memory rows.                                                         *)

(* The sweep reads the part: nothing is left in the cache, and a word that  *)
(* has been read back as it was written is in the part as it was written.   *)
Sits(w) == Get(cells, w) = w
ReadBack ==
  /\ memAt \in {"init", "probe", "size", "write"} => ~swept.run
  /\ memAt = "verify" =>
       /\ held = {} /\ next \in Nat
       /\ swept.ok => \A w \in 0..(next - 1) : Sits(w)
  /\ memAt = "done" /\ swept.run =>
       /\ WordsOf(found) \in Nat \ {0}
       /\ swept.ok => \A w \in 0..(WordsOf(found) - 1) : Sits(w)
MemoryInv ==
  /\ memAt \in {"init", "probe", "size", "write", "verify", "done"}
  /\ swept \in [run : BOOLEAN, ok : BOOLEAN] /\ ReadBack

(* Every step of the boot and the sweep keeps it.                           *)
LEMMA MemoryKeeps ==
  ASSUME MemoryInv, MemNext \/ UNCHANGED memVars
  PROVE  MemoryInv'
  <1> USE DEF MemoryInv
  <1>1. CASE InitPsram
    BY <1>1 DEF InitPsram, ReadBack
  <1>2. CASE Probe
    BY <1>2 DEF Probe, ReadBack
  <1>3. CASE Size
    BY <1>3 DEF Size, ReadBack
  <1>4. CASE Store
    BY <1>4 DEF Store, ReadBack
  <1>5. CASE Clean
    BY <1>5 DEF Clean, ReadBack
  <1>6. CASE Invalidate
    BY <1>6 DEF Invalidate, StartOver, ReadBack
  <1>7. CASE Verify
    <2>1. /\ held = {} /\ next \in Nat /\ memAt = "verify"
          /\ swept.ok => \A w \in 0..(next - 1) : Sits(w)
      BY <1>7 DEF Verify, ReadBack
    <2>2. swept' \in [run : BOOLEAN, ok : BOOLEAN] /\ (swept'.ok => swept.ok /\ Sits(next))
      BY <1>7, <2>1 DEF Verify, Sits
    <2>3. \A w : Sits(w)' <=> Sits(w)
      BY <1>7 DEF Verify, Sits, Get, KeepsUp, Hz, Period, partVars
    <2>4. next' = next + 1 /\ next' \in Nat
      BY <1>7, <2>1 DEF Verify
    <2>5. swept'.ok => \A w \in 0..(next' - 1) : Sits(w)'
      BY <2>1, <2>2, <2>3, <2>4
    <2>6. WordsOf(found)' = WordsOf(found)
      BY <1>7 DEF Verify, WordsOf
    <2>7. \/ memAt' = "done" /\ next' = WordsOf(found)'
          \/ memAt' = "verify"
      BY <1>7, <2>4, <2>6 DEF Verify
    <2>8. held' = {}
      BY <1>7, <2>1 DEF Verify, partVars
    <2> QED  BY <2>1, <2>2, <2>4, <2>5, <2>7, <2>8 DEF ReadBack
  <1>8. CASE UNCHANGED memVars
    <2>1. \A w : Sits(w)' <=> Sits(w)
      BY <1>8 DEF memVars, partVars, Sits, Get, KeepsUp, Hz, Period
    <2> QED  BY <1>8, <2>1 DEF memVars, partVars, ReadBack, WordsOf
  <1> QED  BY <1>1, <1>2, <1>3, <1>4, <1>5, <1>6, <1>7, <1>8 DEF MemNext

(* "A PSRAM that is not really there makes a memory test pass by reading    *)
(* back its own cache" (tests_memory.c:20): for every way a part may decode *)
(* addresses, every set of dead cells and every clock, two passed rows mean *)
(* that each word of the size shown has a live cell of its own.             *)
THEOREM TwoPassesMeanMemory == Spec => []PassMeansMemory
  <1>1. Init => MemoryInv
    BY DEF Init, MemInit, MemoryInv, ReadBack
  <1>2. MemoryInv /\ [Next]_vars => MemoryInv'
    BY MemoryKeeps DEF Next, vars
  <1>3. MemoryInv => PassMeansMemory
    <2> SUFFICES ASSUME MemoryInv, BothPass
                 PROVE  LET words == 0..(WordsOf(found) - 1)
                        IN  /\ \A w \in words : bench.decode[w] \notin bench.dead
                            /\ \A v, w \in words : v # w => bench.decode[v] # bench.decode[w]
                            /\ bench.stated \in {None, found} /\ KeepsUp
      BY DEF PassMeansMemory
    <2>1. WordsOf(found) \in Nat \ {0} /\ \A w \in 0..(WordsOf(found) - 1) : Sits(w)
      BY DEF BothPass, SweepRow, MemoryInv, ReadBack
    <2>2. bench.stated \in {None, found}
      BY DEF BothPass, ProbeRow
    <2>3. ASSUME NEW w \in 0..(WordsOf(found) - 1)
          PROVE  KeepsUp /\ bench.decode[w] \notin bench.dead /\ cells[bench.decode[w]] = w
      <3>1. Get(cells, w) = w /\ w # Junk
        BY <2>1 DEF Sits, Junk
      <3> QED  BY <3>1 DEF Get
    <2>4. 0 \in 0..(WordsOf(found) - 1)
      BY <2>1
    <2> HIDE DEF KeepsUp
    <2> QED  BY <2>2, <2>3, <2>4
  <1> QED  BY <1>1, <1>2, <1>3, PTL DEF Spec

----------------------------------------------------------------------------
(* Memory that is there: the doublings, the clock, the probe and the sweep.  *)

(* The least of a set of numbers.                                           *)
LEMMA LeastOf ==
  ASSUME NEW T \in SUBSET Nat, T # {}
  PROVE  \E x \in T : \A y \in T : x <= y
<1> DEFINE less == OpToRel(<, Nat)
<1>1. IsWellFoundedOn(less, Nat) BY NatLessThanWellFounded
<1>2. \A x, y \in T : y < x => <<y, x>> \in less BY DEF OpToRel
<1> HIDE DEF less
<1>3. PICK x \in T : \A y \in T : ~(<<y, x>> \in less) BY <1>1, WFMin
<1>4. \A y \in T : x <= y
  <2> SUFFICES ASSUME NEW y \in T PROVE x <= y OBVIOUS
  <2>1. x \in Nat /\ y \in Nat /\ ~(y < x) BY <1>2, <1>3
  <2> QED BY <2>1
<1> QED BY <1>4

(* f doubles from 1, up to n.                                                *)
Doubles(f, n) ==
  /\ f[0] = 1 /\ f[0] \in Nat
  /\ \A b \in 0..(n - 1) : f[b] \in Nat \ {0} /\ f[b + 1] = 2 * f[b] /\ f[b + 1] \in Nat \ {0}

(* Every set of numbers that holds 0, and with each number the next, is Nat. *)
LEMMA FromZeroOn ==
  ASSUME NEW S \in SUBSET Nat, 0 \in S, \A n \in S : n + 1 \in S
  PROVE  S = Nat
<1> SUFFICES ASSUME S # Nat PROVE FALSE OBVIOUS
<1> DEFINE T == Nat \ S
<1>1. T \in SUBSET Nat /\ T # {} OBVIOUS
<1> HIDE DEF T
<1>2. PICK x \in T : \A y \in T : x <= y BY <1>1, LeastOf
<1>3. x \in Nat /\ x \notin S /\ x # 0 BY <1>1, <1>2 DEF T
<1>4. x - 1 \in Nat /\ x - 1 < x BY <1>3
<1>5. x - 1 \notin T BY <1>2, <1>3, <1>4
<1>6. x - 1 \in S BY <1>4, <1>5 DEF T
<1>7. (x - 1) + 1 \in S BY <1>6
<1> QED BY <1>3, <1>7

(* There is such a function up to any number.                               *)
LEMMA DoublesUpTo == \A n \in Nat : \E f : Doubles(f, n)
<1> DEFINE S == {n \in Nat : \E f : Doubles(f, n)}
<1>1. 0 \in S
  <2>1. Doubles([b \in {0} |-> 1], 0) BY DEF Doubles
  <2> QED BY <2>1
<1>2. ASSUME NEW n \in S PROVE n + 1 \in S
  <2>1. n \in Nat /\ n + 1 \in Nat OBVIOUS
  <2>2. PICK f : Doubles(f, n) OBVIOUS
  <2>3. f[n] \in Nat \ {0}
    <3>1. CASE n = 0 BY <2>2, <3>1 DEF Doubles
    <3>2. CASE n # 0
      <4>1. n - 1 \in 0..(n - 1) /\ (n - 1) + 1 = n BY <2>1, <3>2
      <4> QED BY <2>2, <4>1 DEF Doubles
    <3> QED BY <3>1, <3>2
  <2> DEFINE g == [b \in 0..(n + 1) |-> IF b = n + 1 THEN 2 * f[n] ELSE f[b]]
  <2>4. /\ g[n + 1] = 2 * f[n] /\ \A b \in 0..n : g[b] = f[b] BY <2>1
  <2> HIDE DEF g
  <2>5. g[0] = 1 BY <2>1, <2>2, <2>4 DEF Doubles
  <2>6. ASSUME NEW b \in 0..((n + 1) - 1)
        PROVE g[b] \in Nat \ {0} /\ g[b + 1] = 2 * g[b] /\ g[b + 1] \in Nat \ {0}
    <3>1. CASE b = n BY <2>1, <2>3, <2>4, <3>1
    <3>2. CASE b # n
      <4>1. b \in 0..(n - 1) /\ b \in 0..n /\ b + 1 \in 0..n BY <2>1, <3>2
      <4> QED BY <2>2, <2>4, <4>1 DEF Doubles
    <3> QED BY <3>1, <3>2
  <2>7. Doubles(g, n + 1) BY <2>5, <2>6 DEF Doubles
  <2> QED BY <2>1, <2>7
<1> HIDE DEF S
<1>3. S \in SUBSET Nat BY DEF S
<1>4. S = Nat BY <1>1, <1>2, <1>3, FromZeroOn
<1> QED BY <1>4 DEF S

(* It is the only one.                                                      *)
LEMMA DoublesAgree ==
  ASSUME NEW n \in Nat, NEW m \in Nat, NEW f, NEW g, Doubles(f, n), Doubles(g, m), n <= m
  PROVE  f[n] = g[n]
<1> DEFINE S == {b \in Nat : b <= n => f[b] = g[b]}
<1>1. 0 \in S BY DEF Doubles
<1>2. ASSUME NEW b \in S PROVE b + 1 \in S
  <2> SUFFICES ASSUME b + 1 <= n PROVE f[b + 1] = g[b + 1] OBVIOUS
  <2>1. b \in 0..(n - 1) /\ b \in 0..(m - 1) /\ f[b] = g[b] OBVIOUS
  <2> QED BY <2>1 DEF Doubles
<1> HIDE DEF S
<1>3. S \in SUBSET Nat BY DEF S
<1>4. n \in S BY <1>1, <1>2, <1>3, FromZeroOn
<1> QED BY <1>4 DEF S

(* The powers of two: a function that satisfies its recursion exists.       *)
LEMMA Pow2Is == Pow2[0] = 1 /\ \A n \in Nat : Pow2[n] \in Nat \ {0} /\ Pow2[n + 1] = 2 * Pow2[n]
<1> DEFINE To(n) == CHOOSE f : Doubles(f, n)
           p == [n \in Nat |-> To(n)[n]]
<1>1. \A n \in Nat : Doubles(To(n), n) BY DoublesUpTo
<1>2. p[0] = 1 BY <1>1 DEF Doubles
<1>3. ASSUME NEW n \in Nat PROVE p[n] \in Nat \ {0} /\ p[n + 1] = 2 * p[n]
  <2>1. PICK f, g : f = To(n) /\ g = To(n + 1) OBVIOUS
  <2>2. Doubles(f, n) /\ Doubles(g, n + 1) /\ p[n] = f[n] /\ p[n + 1] = g[n + 1] BY <1>1, <2>1
  <2> HIDE DEF p
  <2>3. f[n] = g[n] BY <2>2, DoublesAgree
  <2>4. n \in 0..((n + 1) - 1) OBVIOUS
  <2>5. g[n] \in Nat \ {0} /\ g[n + 1] = 2 * g[n] BY <2>2, <2>4 DEF Doubles
  <2> QED BY <2>2, <2>3, <2>5
<1>4. p = [n \in Nat |-> IF n = 0 THEN 1 ELSE 2 * p[n - 1]]
  <2>1. ASSUME NEW n \in Nat PROVE p[n] = IF n = 0 THEN 1 ELSE 2 * p[n - 1]
    <3>1. CASE n = 0 BY <1>2, <3>1
    <3>2. CASE n # 0
      <4>1. n - 1 \in Nat /\ (n - 1) + 1 = n BY <3>2
      <4> HIDE DEF p
      <4> QED BY <1>3, <3>2, <4>1
    <3> QED BY <3>1, <3>2
  <2>2. p = [n \in Nat |-> p[n]] OBVIOUS
  <2> HIDE DEF p
  <2> QED BY <2>1, <2>2
<1> HIDE DEF p
<1>5. Pow2 = [n \in Nat |-> IF n = 0 THEN 1 ELSE 2 * Pow2[n - 1]] BY <1>4 DEF Pow2
<1>6. Pow2[0] = 1 BY <1>5
<1> DEFINE S == {n \in Nat : Pow2[n] \in Nat \ {0}}
<1>7. ASSUME NEW n \in Nat PROVE Pow2[n + 1] = 2 * Pow2[n]
  <2>1. n + 1 \in Nat /\ n + 1 # 0 /\ (n + 1) - 1 = n OBVIOUS
  <2> QED BY <1>5, <2>1
<1>8. S = Nat
  <2>1. 0 \in S BY <1>6
  <2>2. ASSUME NEW n \in S PROVE n + 1 \in S BY <1>7
  <2>3. S \in SUBSET Nat OBVIOUS
  <2> HIDE DEF S
  <2> QED BY <2>1, <2>2, <2>3, FromZeroOn
<1> QED BY <1>6, <1>7, <1>8

(* What is smaller than a number and a multiple of it is nothing.           *)
LEMMA Small ==
  ASSUME NEW m \in Nat \ {0}, NEW d \in Int, d * m < m, d * m > -m
  PROVE  d = 0
<1>1. CASE d >= 1
  <2>1. (d - 1) * m >= 0 BY <1>1
  <2>2. (d - 1) * m = d * m - m OBVIOUS
  <2> QED BY <2>1, <2>2
<1>2. CASE d <= -1
  <2>1. (-1 - d) * m >= 0 BY <1>2
  <2>2. (-1 - d) * m = -m - d * m OBVIOUS
  <2> QED BY <2>1, <2>2
<1> QED BY <1>1, <1>2

(* A multiple leaves no rest.                                                *)
LEMMA MultipleRest ==
  ASSUME NEW a \in Nat, NEW m \in Nat \ {0}
  PROVE  (a * m) % m = 0
<1>1. PICK x : x = a * m OBVIOUS
<1>2. x \in Nat BY <1>1
<1>3. PICK q, r : q \in Int /\ r \in 0..(m - 1) /\ x = q * m + r /\ r = x % m
  <2>1. x = (x \div m) * m + (x % m) /\ x \div m \in Int /\ x % m \in 0..(m - 1) BY <1>2
  <2> QED BY <2>1
<1>4. (a - q) * m = a * m - q * m BY <1>3
<1>5. (a - q) * m = r BY <1>1, <1>2, <1>3, <1>4
<1>6. a - q = 0 BY <1>3, <1>5, Small
<1>7. (a - q) * m = 0 BY <1>6
<1> QED BY <1>1, <1>3, <1>5, <1>7

(* Each doubling is a multiple of those before it, and twice as much.        *)
LEMMA Pow2Times ==
  ASSUME NEW m \in Nat, NEW n \in Nat
  PROVE  \E k \in Nat \ {0} : Pow2[m + n] = k * Pow2[m] /\ (n # 0 => k >= 2)
<1> DEFINE T(b) == \E k \in Nat \ {0} : Pow2[m + b] = k * Pow2[m] /\ (b # 0 => k >= 2)
           S == {b \in Nat : T(b)}
<1>1. 0 \in S
  <2>1. Pow2[m + 0] = 1 * Pow2[m] BY Pow2Is
  <2> QED BY <2>1
<1>2. ASSUME NEW b \in S PROVE b + 1 \in S
  <2>1. PICK k \in Nat \ {0} : Pow2[m + b] = k * Pow2[m] OBVIOUS
  <2>2. m + b \in Nat /\ (m + b) + 1 = m + (b + 1) OBVIOUS
  <2>3. Pow2[m + (b + 1)] = 2 * (k * Pow2[m]) BY <2>1, <2>2, Pow2Is
  <2>4. PICK p \in Nat \ {0} : p = Pow2[m] BY Pow2Is
  <2>5. 2 * (k * p) = (2 * k) * p BY <2>4
  <2>6. Pow2[m + (b + 1)] = (2 * k) * Pow2[m] BY <2>3, <2>4, <2>5
  <2>7. 2 * k \in Nat \ {0} /\ 2 * k >= 2 OBVIOUS
  <2>8. T(b + 1) BY <2>6, <2>7
  <2> HIDE DEF T
  <2> QED BY <2>8
<1>3. S \in SUBSET Nat OBVIOUS
<1> HIDE DEF S
<1>4. n \in S BY <1>1, <1>2, <1>3, FromZeroOn
<1> QED BY <1>4 DEF S

(* So are the sizes of parts.                                                *)
LEMMA SizesDouble ==
  ASSUME NEW s \in Nat, NEW t \in Nat, s <= t
  PROVE  /\ WordsOf(s) \in Nat /\ WordsOf(s) >= 2
         /\ WordsOf(t) \in Nat /\ WordsOf(t) % WordsOf(s) = 0
         /\ WordsOf(s) <= WordsOf(t) /\ (s < t => WordsOf(s) < WordsOf(t))
<1>1. Low \in Nat \ {0} BY MemoryAssumption
<1>2. \A b \in Nat : WordsOf(b) \in Nat \ {0} BY <1>1, Pow2Is DEF WordsOf
<1>3. WordsOf(s) >= 2
  <2>1. Low + s - 1 \in Nat /\ (Low + s - 1) + 1 = Low + s BY <1>1
  <2>2. Pow2[Low + s] = 2 * Pow2[Low + s - 1] /\ Pow2[Low + s - 1] \in Nat \ {0} BY <2>1, Pow2Is
  <2> QED BY <2>2 DEF WordsOf
<1>4. PICK k \in Nat \ {0} : WordsOf(t) = k * WordsOf(s) /\ (t - s # 0 => k >= 2)
  <2>1. t - s \in Nat /\ Low + s \in Nat /\ (Low + s) + (t - s) = Low + t BY <1>1
  <2> QED BY <2>1, Pow2Times DEF WordsOf
<1>5. PICK m \in Nat \ {0} : m = WordsOf(s) BY <1>2
<1>6. (k * m) % m = 0 BY <1>5, MultipleRest
<1>7. k * m >= m
  <2>1. (k - 1) * m >= 0 BY <1>5
  <2>2. (k - 1) * m = k * m - m BY <1>5
  <2> QED BY <1>5, <2>1, <2>2
<1>8. ASSUME s < t PROVE k * m > m
  <2>1. k >= 2 BY <1>4, <1>8
  <2>2. (k - 2) * m >= 0 BY <1>5, <2>1
  <2>3. (k - 2) * m = k * m - 2 * m BY <1>5
  <2> QED BY <1>5, <2>2, <2>3
<1> HIDE DEF WordsOf
<1> QED BY <1>2, <1>3, <1>4, <1>5, <1>6, <1>7, <1>8

(* The clocks and ceilings the overclock dialog offers, and those between.   *)
Offered(b) == b.cpu \in 150..504 /\ b.ceiling \in 84..200 /\ b.rated \in Nat

(* A quotient of whole numbers.                                              *)
IsQuotient(q, x, m) == q \in Nat /\ q * m <= x /\ x < q * m + m

(* So is what div gives.                                                     *)
LEMMA Quotient == \A x \in Nat, m \in Nat \ {0} : IsQuotient(x \div m, x, m)
<1> SUFFICES ASSUME NEW x \in Nat, NEW m \in Nat \ {0} PROVE IsQuotient(x \div m, x, m) OBVIOUS
<1>1. x = (x \div m) * m + (x % m) /\ x \div m \in Nat /\ x % m \in 0..(m - 1) OBVIOUS
<1> QED BY <1>1 DEF IsQuotient

(* psram_init keeps within what the part and the register fields ask.        *)
LEMMA InitKeepsUp ==
  ASSUME Offered(bench), bench.ceiling <= bench.rated, InitPsram
  PROVE  KeepsUp'
<1>1. PICK cpu, max, rated :
        /\ cpu \in 150..504 /\ max \in 84..200 /\ rated \in Nat
        /\ cpu = bench.cpu /\ max = bench.ceiling /\ rated = bench.rated /\ max <= rated
  BY DEF Offered
<1>2. PICK P \in Nat : P = Period /\ P * cpu <= 1000000000 /\ 1000000000 < P * cpu + cpu
  <2>1. PICK g, w : g = 1000000000 /\ w = 1000000000 \div cpu OBVIOUS
  <2>2. g \in Nat /\ cpu \in Nat \ {0} /\ w = g \div cpu BY <1>1, <2>1
  <2>3. IsQuotient(w, g, cpu) BY <2>2, Quotient
  <2>4. w = Period BY <1>1, <2>1 DEF Period
  <2> QED BY <2>1, <2>3, <2>4 DEF IsQuotient
<1>3. P >= 1984126 /\ P <= 6666666
  <2>1. P * cpu <= P * 504 BY <1>1, <1>2
  <2>2. P * 150 <= P * cpu BY <1>1, <1>2
  <2>3. PICK w \in Nat : w <= P * 504 /\ P * 150 <= w /\ w <= 1000000000 /\ 1000000000 < w + cpu
    <3>1. PICK w : w = P * cpu OBVIOUS
    <3>2. w \in Nat BY <1>1, <1>2, <3>1
    <3>3. w <= P * 504 /\ P * 150 <= w BY <2>1, <2>2, <3>1
    <3>4. w <= 1000000000 /\ 1000000000 < w + cpu BY <1>2, <3>1
    <3> QED BY <3>2, <3>3, <3>4
  <2> QED BY <1>1, <1>2, <2>3
<1>4. PICK hz \in Nat, mx \in Nat \ {0} : hz = Hz /\ hz = cpu * 1000000 /\ mx = max * 1000000
  BY <1>1 DEF Hz
<1>5. PICK e \in Nat : e = (hz + mx - 1) \div mx /\ e * mx <= hz + mx - 1 /\ hz + mx - 1 < e * mx + mx
  <2>1. PICK g, w : g = hz + mx - 1 /\ w = g \div mx OBVIOUS
  <2>2. g \in Nat BY <1>4, <2>1
  <2>3. IsQuotient(w, g, mx) BY <1>4, <2>1, <2>2, Quotient
  <2> QED BY <2>1, <2>3 DEF IsQuotient
<1>6. e * mx = (e * max) * 1000000 BY <1>1, <1>4, <1>5
<1>7. e * max >= cpu /\ e * max <= cpu + max - 1
  <2>1. PICK w \in Nat : w = e * max BY <1>1, <1>5
  <2> QED BY <1>1, <1>4, <1>5, <1>6, <2>1
<1>8. e \in 1..6
  <2>1. e # 0 BY <1>1, <1>7
  <2>2. ASSUME e >= 7 PROVE FALSE
    <3>1. (e - 1) * max >= 6 * 84 BY <1>1, <2>2
    <3>2. (e - 1) * max = e * max - max BY <1>1, <1>5
    <3> QED BY <1>1, <1>5, <1>7, <3>1, <3>2
  <2> QED BY <1>5, <2>1, <2>2
<1> DEFINE d == Divisor(bench.ceiling * 1000000)
<1>9. d = IF e = 1 THEN 2 ELSE e
  <2>1. hz > 100000000 BY <1>1, <1>4
  <2>2. bench.ceiling * 1000000 = mx BY <1>1, <1>4
  <2>3. Divisor(mx) = IF e = 1 THEN 2 ELSE e BY <1>4, <1>5, <2>1 DEF Divisor
  <2> QED BY <2>2, <2>3
<1>10. d \in 2..6 /\ d >= e BY <1>8, <1>9
<1>11. timing' = Timing(d) /\ bench' = bench BY DEF InitPsram
<1> HIDE DEF d
<1>12. PICK q \in Nat : q = 125000000 \div P /\ q * P <= 125000000
  <2>1. PICK g, w : g = 125000000 /\ w = g \div P OBVIOUS
  <2>2. g \in Nat /\ P \in Nat \ {0} BY <1>3, <2>1
  <2>3. IsQuotient(w, g, P) BY <2>1, <2>2, Quotient
  <2> QED BY <2>1, <2>3 DEF IsQuotient
<1>13. q < 64
  <2>1. q >= 64 => q * P >= 64 * 1984126 BY <1>3
  <2> QED BY <1>12, <2>1
<1>14. PICK z \in Nat : z = (18000000 + P - 1) \div P /\ z * P <= 18000000 + P - 1 /\ 18000000 + P - 1 < z * P + P
  <2>1. PICK g, w : g = 18000000 + P - 1 /\ w = g \div P OBVIOUS
  <2>2. g \in Nat /\ P \in Nat \ {0} BY <1>3, <2>1
  <2>3. IsQuotient(w, g, P) BY <2>1, <2>2, Quotient
  <2> QED BY <2>1, <2>3 DEF IsQuotient
<1>15. z >= 3
  <2>1. z <= 2 => z * P <= 2 * 6666666 BY <1>3
  <2> QED BY <1>3, <1>14, <2>1
<1>16. z <= 10
  <2>1. z >= 11 => (z - 1) * P >= 10 * 1984126 BY <1>3
  <2>2. (z - 1) * P = z * P - P BY <1>3, <1>14
  <2> QED BY <1>3, <1>14, <2>1, <2>2
<1>17. PICK h \in 1..3 : h = (d + 1) \div 2 BY <1>10
<1>18. rated * 1000000 * d >= hz
  <2>1. d * rated >= e * max
    <3>1. d * rated >= e * rated /\ e * rated >= e * max BY <1>1, <1>8, <1>10
    <3> QED BY <1>1, <1>5, <1>10, <3>1
  <2>2. rated * 1000000 * d = (d * rated) * 1000000 BY <1>1, <1>10
  <2>3. d * rated >= cpu BY <1>1, <1>5, <1>7, <1>10, <2>1
  <2> QED BY <1>1, <1>4, <1>10, <2>2, <2>3
<1>19. timing'.div = d /\ timing'.rx \in {d, d + 1} /\ timing'.select = q /\ timing'.deselect = z - h
  BY <1>2, <1>11, <1>12, <1>14, <1>17 DEF Timing
<1>20. Hz' = hz /\ Period' = P BY <1>2, <1>4, <1>11 DEF Hz, Period
<1>21. hz <= bench'.rated * 1000000 * timing'.div BY <1>1, <1>11, <1>18, <1>19
<1>22. (timing'.deselect + ((timing'.div + 1) \div 2)) * P >= 18000000
  <2>1. timing'.deselect + ((timing'.div + 1) \div 2) = z BY <1>14, <1>17, <1>19
  <2> QED BY <1>3, <1>14, <2>1
<1>23. timing'.select * P <= 125000000 BY <1>12, <1>19
<1>24. /\ timing'.div < 256 /\ timing'.rx < 8 /\ timing'.select < 64 /\ timing'.deselect \in 0..31
  BY <1>10, <1>13, <1>14, <1>15, <1>16, <1>17, <1>19
<1> QED BY <1>20, <1>21, <1>22, <1>23, <1>24 DEF KeepsUp

(* A sound part that is kept up with, at every place of probe and sweep: an  *)
(* address is a cell of its own up to the part's size, and the first one     *)
(* again a size away.                                                        *)
PartOnItsWay(size) ==
  /\ memAt \in {"init", "probe", "size", "write", "verify", "done"}
  /\ cells \in [Space -> Int]
  /\ memAt # "init" => KeepsUp
  /\ memAt \in {"init", "probe", "size"} => held = {} /\ dirty = {}
  /\ memAt = "size" => next \in 0..size
  /\ memAt \in {"write", "verify", "done"} => found = size
  /\ memAt = "write" =>
       /\ next \in 0..WordsOf(size) /\ held \cup dirty \subseteq 0..(next - 1)
       /\ \A w \in 0..(next - 1) : w \in dirty \/ cells[w] = w
  /\ memAt = "verify" =>
       /\ next \in 0..(WordsOf(size) - 1) /\ held = {}
       /\ swept.run /\ swept.ok /\ \A w \in 0..(WordsOf(size) - 1) : cells[w] = w
  /\ memAt = "done" => swept.run /\ swept.ok

(* So it is with any sound part at clocks that are on offer.                 *)
GoodInv ==
  \A size \in 0..(Steps - 1) :
    Sound(size) /\ bench.stated \in {None, size} /\ Offered(bench) => PartOnItsWay(size)

(* Cells of a sound part: each address below its size is one, and what is    *)
(* put there is read there.                                                  *)
LEMMA SoundCells ==
  ASSUME NEW size \in 0..(Steps - 1), Sound(size)
  PROVE  /\ WordsOf(size) \in Nat /\ WordsOf(size) >= 2 /\ 0..(WordsOf(size) - 1) \subseteq Space
         /\ \A w \in 0..(WordsOf(size) - 1) : bench.decode[w] = w
         /\ bench.dead = {} /\ \A w \in Space : bench.decode[w] \in 0..(WordsOf(size) - 1)
<1>1. size \in Nat /\ Steps \in Nat /\ size <= Steps BY MemoryAssumption
<1>2. PICK W, V : /\ W = WordsOf(size) /\ V = WordsOf(Steps)
                  /\ W \in Nat /\ W >= 2 /\ V \in Nat /\ W <= V
  BY <1>1, SizesDouble
<1>3. Space = 0..(V - 1) BY <1>2 DEF Space
<1>4. \A w \in Space : bench.decode[w] = w % W BY <1>2 DEF Sound
<1>5. \A w \in 0..(W - 1) : w % W = w /\ w \in 0..(V - 1) BY <1>2
<1>6. \A w \in 0..(V - 1) : w % W \in 0..(W - 1) BY <1>2
<1> QED BY <1>2, <1>3, <1>4, <1>5, <1>6 DEF Sound

(* The doublings below the part's size are cells, and its size is the first. *)
LEMMA SoundDoublings ==
  ASSUME NEW size \in 0..(Steps - 1), Sound(size), NEW s \in 0..size
  PROVE  /\ WordsOf(s) \in Space
         /\ bench.decode[WordsOf(s)] = IF s < size THEN WordsOf(s) ELSE 0
         /\ s < size => WordsOf(s) \in 1..(WordsOf(size) - 1)
<1>1. s \in Nat /\ size \in Nat /\ Steps \in Nat /\ s <= size /\ s < Steps BY MemoryAssumption
<1>2. PICK w, W, V : w = WordsOf(s) /\ W = WordsOf(size) /\ V = WordsOf(Steps) OBVIOUS
<1>3. w \in Nat /\ w >= 2 /\ w < V /\ V \in Nat BY <1>1, <1>2, SizesDouble
<1>4. W \in Nat /\ W >= 2 /\ (s < size => w < W) BY <1>1, <1>2, SizesDouble
<1>5. w \in Space BY <1>2, <1>3 DEF Space
<1>6. bench.decode[w] = w % W BY <1>2, <1>5 DEF Sound
<1>7. CASE s < size
  <2>1. w % W = w BY <1>3, <1>4, <1>7
  <2> QED BY <1>2, <1>3, <1>4, <1>5, <1>6, <1>7, <2>1
<1>8. CASE ~(s < size)
  <2>1. s = size BY <1>1, <1>8
  <2>2. W % W = 0 BY <1>1, <1>2, SizesDouble
  <2> QED BY <1>2, <1>5, <1>6, <1>8, <2>1, <2>2
<1> QED BY <1>7, <1>8

(* The probe finds the part.                                                 *)
LEMMA ProbeFinds ==
  ASSUME NEW size \in 0..(Steps - 1), Sound(size), PartOnItsWay(size), Probe
  PROVE  PartOnItsWay(size)'
<1>1. KeepsUp /\ memAt = "probe" /\ held = {} /\ dirty = {} BY DEF Probe, PartOnItsWay
<1>2. cells \in [Space -> Int] BY DEF PartOnItsWay
<1>3. 0 \in Space /\ 1 \in Space /\ bench.decode[0] = 0 /\ bench.decode[1] = 1 /\ bench.dead = {}
  <2>1. 0 \in 0..(WordsOf(size) - 1) /\ 1 \in 0..(WordsOf(size) - 1) BY SoundCells
  <2> QED BY <2>1, SoundCells
<1>4. PICK c : c = Put(Put(cells, 0, Canary), 1, Flipped) OBVIOUS
<1>5. c = [[cells EXCEPT ![0] = Canary] EXCEPT ![1] = Flipped] BY <1>1, <1>3, <1>4 DEF Put
<1>6. c[0] = Canary /\ c[1] = Flipped /\ c \in [Space -> Int] BY <1>2, <1>3, <1>5 DEF Canary, Flipped
<1>7. Get(c, 0) = Canary /\ Get(c, 1) = Flipped BY <1>1, <1>3, <1>6 DEF Get
<1>8. cells' = c /\ memAt' = "size" /\ next' = 0 /\ UNCHANGED <<bench, timing, held, dirty>>
  BY <1>4, <1>7 DEF Probe
<1>9. KeepsUp' BY <1>1, <1>8 DEF KeepsUp, Hz, Period
<1> QED BY <1>1, <1>6, <1>8, <1>9 DEF PartOnItsWay

(* It doubles up to the size and no further.                                 *)
LEMMA SizeFinds ==
  ASSUME NEW size \in 0..(Steps - 1), Sound(size), PartOnItsWay(size), Size
  PROVE  PartOnItsWay(size)'
<1>1. KeepsUp /\ memAt = "size" /\ held = {} /\ dirty = {} /\ next \in 0..size BY DEF Size, PartOnItsWay
<1>2. cells \in [Space -> Int] BY DEF PartOnItsWay
<1>3. 0 \in Space /\ bench.decode[0] = 0 /\ bench.dead = {} /\ WordsOf(size) \in Nat /\ WordsOf(size) >= 2
  <2>1. 0 \in 0..(WordsOf(size) - 1) BY SoundCells
  <2> QED BY <2>1, SoundCells
<1>4. PICK c, far, z : far = WordsOf(next) /\ c = Put(Put(cells, 0, Canary), far, Mark(next))
                       /\ z = IF next < size THEN far ELSE 0
  OBVIOUS
<1>5. bench.decode[far] = z /\ z \in Space /\ (next < size => z # 0) BY <1>1, <1>3, <1>4, SoundDoublings
<1>6. c = [[cells EXCEPT ![0] = Canary] EXCEPT ![z] = Mark(next)] BY <1>1, <1>3, <1>4, <1>5 DEF Put
<1>7. Mark(next) \in Int /\ Mark(next) # Canary BY <1>1 DEF Mark, Canary
<1>8. c \in [Space -> Int] /\ c[z] = Mark(next) /\ c[0] = IF z = 0 THEN Mark(next) ELSE Canary
  BY <1>2, <1>3, <1>5, <1>6, <1>7 DEF Canary
<1>9. Get(c, far) = Mark(next) /\ (Get(c, 0) = Canary <=> next < size)
  BY <1>1, <1>3, <1>4, <1>5, <1>7, <1>8 DEF Get
<1>10. cells' = c /\ UNCHANGED <<bench, timing, held, dirty, swept>> BY <1>4 DEF Size
<1>11. KeepsUp' BY <1>1, <1>10 DEF KeepsUp, Hz, Period
<1>12. IF next < size THEN next' = next + 1 /\ memAt' = "size" ELSE found' = next /\ next' = 0 /\ memAt' = "write"
  <2>1. next < size => next + 1 < Steps BY <1>1, MemoryAssumption
  <2> QED BY <1>1, <1>4, <1>9, <2>1 DEF Size
<1>13. CASE next < size
  <2>1. next' = next + 1 /\ memAt' = "size" /\ next' \in 0..size BY <1>1, <1>12, <1>13
  <2> QED BY <1>1, <1>8, <1>10, <1>11, <2>1 DEF PartOnItsWay
<1>14. CASE ~(next < size)
  <2>1. found' = size /\ next' = 0 /\ memAt' = "write" BY <1>1, <1>12, <1>14
  <2>2. 0 \in 0..WordsOf(size) /\ held' \cup dirty' \subseteq 0..(0 - 1) /\ 0..(0 - 1) = {} BY <1>1, <1>3, <1>10
  <2> QED BY <1>8, <1>10, <1>11, <2>1, <2>2 DEF PartOnItsWay
<1> QED BY <1>13, <1>14

(* What was written is in the cache or in its cell.                          *)
LEMMA SweepKeeps ==
  ASSUME NEW size \in 0..(Steps - 1), Sound(size), PartOnItsWay(size), Store \/ Clean \/ Invalidate
  PROVE  PartOnItsWay(size)'
<1>1. /\ KeepsUp /\ memAt = "write" /\ found = size /\ next \in 0..WordsOf(size) /\ held \cup dirty \subseteq 0..(next - 1)
      /\ \A w \in 0..(next - 1) : w \in dirty \/ cells[w] = w
  BY DEF Store, Clean, Invalidate, PartOnItsWay
<1>2. cells \in [Space -> Int] BY DEF PartOnItsWay
<1>3. /\ WordsOf(size) \in Nat /\ WordsOf(size) >= 2 /\ bench.dead = {}
      /\ \A w \in 0..(WordsOf(size) - 1) : w \in Space /\ bench.decode[w] = w
  BY SoundCells
<1>4. UNCHANGED <<bench, timing, found>> BY DEF Store, Clean, Invalidate, partVars
<1>5. KeepsUp' BY <1>1, <1>4 DEF KeepsUp, Hz, Period
<1>6. \A w \in 0..(next - 1) : Put(cells, w, w) = [cells EXCEPT ![w] = w] /\ w \in Space /\ w \in Int
  <2> SUFFICES ASSUME NEW w \in 0..(next - 1)
               PROVE  Put(cells, w, w) = [cells EXCEPT ![w] = w] /\ w \in Space /\ w \in Int
    OBVIOUS
  <2>1. w \in Int /\ w \in 0..(WordsOf(size) - 1) BY <1>1, <1>3
  <2> QED BY <1>1, <1>3, <2>1 DEF Put
<1>7. CASE Store
  <2>1. next < WordsOf(size) /\ next' = next + 1 /\ memAt' = "write" /\ swept' = swept BY <1>1, <1>7 DEF Store
  <2>2. next' \in 0..WordsOf(size) /\ 0..(next' - 1) = 0..(next - 1) \cup {next} /\ next \in Nat
    BY <1>1, <1>3, <2>1
  <2>3. CASE held' = held \cup {next} /\ dirty' = dirty \cup {next} /\ UNCHANGED cells
    <3>1. held' \cup dirty' \subseteq 0..(next' - 1) BY <1>1, <2>2, <2>3
    <3>2. \A w \in 0..(next' - 1) : w \in dirty' \/ cells'[w] = w BY <1>1, <2>2, <2>3
    <3> QED BY <1>1, <1>2, <1>4, <1>5, <2>1, <2>2, <2>3, <3>1, <3>2 DEF PartOnItsWay
  <2>4. ASSUME NEW o \in held, held' = (held \ {o}) \cup {next}, dirty' = (dirty \ {o}) \cup {next},
               cells' = Put(cells, o, o)
        PROVE PartOnItsWay(size)'
    <3>1. o \in 0..(next - 1) /\ o \in Int
      <4>1. o \in 0..(next - 1) BY <1>1
      <4> QED BY <1>6, <4>1
    <3>2. cells' = [cells EXCEPT ![o] = o] /\ o \in Space BY <1>6, <2>4, <3>1
    <3>3. cells' \in [Space -> Int] /\ \A w \in Space : cells'[w] = IF w = o THEN o ELSE cells[w]
      BY <1>2, <3>1, <3>2
    <3>4. held' \cup dirty' \subseteq 0..(next' - 1) BY <1>1, <2>2, <2>4
    <3>5. \A w \in 0..(next' - 1) : w \in dirty' \/ cells'[w] = w BY <1>1, <1>6, <2>2, <2>4, <3>3
    <3> QED BY <1>1, <1>4, <1>5, <2>1, <2>2, <3>3, <3>4, <3>5 DEF PartOnItsWay
  <2> QED BY <1>7, <2>3, <2>4 DEF Store
<1>8. CASE Clean
  <2>1. next = WordsOf(size) /\ UNCHANGED <<held, memAt, next>> BY <1>1, <1>8 DEF Clean
  <2>2. PICK v \in dirty : cells' = Put(cells, v, v) /\ dirty' = dirty \ {v} BY <1>8 DEF Clean
  <2>3. v \in 0..(next - 1) BY <1>1
  <2>4. PartOnItsWay(size)'
    <3>1. v \in Int BY <1>6, <2>3
    <3>2. cells' = [cells EXCEPT ![v] = v] /\ v \in Space BY <1>6, <2>2, <2>3
    <3>3. cells' \in [Space -> Int] /\ \A w \in Space : cells'[w] = IF w = v THEN v ELSE cells[w]
      BY <1>2, <3>1, <3>2
    <3>4. \A w \in 0..(next' - 1) : w \in dirty' \/ cells'[w] = w BY <1>1, <1>6, <2>1, <2>2, <3>3
    <3>5. held' \cup dirty' \subseteq 0..(next' - 1) BY <1>1, <2>1, <2>2
    <3> QED BY <1>1, <1>4, <1>5, <2>1, <3>3, <3>4, <3>5 DEF PartOnItsWay
  <2> QED BY <2>4
<1>9. CASE Invalidate
  <2>1. next = WordsOf(size) /\ dirty = {} /\ cells' = cells /\ held' = {} /\ memAt' = "verify" /\ next' = 0
        /\ swept' = [run |-> TRUE, ok |-> TRUE]
    BY <1>1, <1>9 DEF Invalidate, StartOver
  <2>2. next' \in 0..(WordsOf(size) - 1) /\ \A w \in 0..(WordsOf(size) - 1) : cells'[w] = w BY <1>1, <1>3, <2>1
  <2> QED BY <1>1, <1>2, <1>4, <1>5, <2>1, <2>2 DEF PartOnItsWay
<1> QED BY <1>7, <1>8, <1>9

(* And read back.                                                            *)
LEMMA VerifyKeeps ==
  ASSUME NEW size \in 0..(Steps - 1), Sound(size), PartOnItsWay(size), Verify, swept \in [run : BOOLEAN, ok : BOOLEAN]
  PROVE  PartOnItsWay(size)'
<1>1. /\ KeepsUp /\ memAt = "verify" /\ found = size /\ held = {} /\ next \in 0..(WordsOf(size) - 1)
      /\ swept.run /\ swept.ok /\ \A w \in 0..(WordsOf(size) - 1) : cells[w] = w
  BY DEF Verify, PartOnItsWay
<1>2. WordsOf(size) \in Nat /\ WordsOf(size) >= 2 /\ bench.decode[next] = next /\ bench.dead = {}
  BY <1>1, SoundCells
<1>3. Get(cells, next) = next BY <1>1, <1>2 DEF Get
<1>4. /\ UNCHANGED <<bench, timing, cells, held, dirty, found>> /\ next' = next + 1
      /\ memAt' = IF next + 1 = WordsOf(size) THEN "done" ELSE "verify"
      /\ swept' = [swept EXCEPT !.ok = swept.ok /\ next = next]
  BY <1>1, <1>3 DEF Verify, partVars
<1>5. swept'.run /\ swept'.ok BY <1>1, <1>4
<1>6. KeepsUp' BY <1>1, <1>4 DEF KeepsUp, Hz, Period
<1>7. memAt' = "verify" => next' \in 0..(WordsOf(size) - 1) BY <1>1, <1>2, <1>4
<1>8. cells \in [Space -> Int] BY DEF PartOnItsWay
<1> QED BY <1>1, <1>4, <1>5, <1>6, <1>7, <1>8 DEF PartOnItsWay

(* Every step of the boot and the sweep keeps it.                            *)
LEMMA GoodKeeps ==
  ASSUME GoodInv, swept \in [run : BOOLEAN, ok : BOOLEAN], MemNext \/ UNCHANGED memVars
  PROVE  GoodInv'
<1> SUFFICES ASSUME NEW size \in 0..(Steps - 1), Sound(size)', (bench.stated \in {None, size})', Offered(bench)'
             PROVE  PartOnItsWay(size)'
  BY DEF GoodInv
<1>1. bench' = bench
  BY DEF MemNext, memVars, InitPsram, Probe, Size, Store, Clean, Invalidate, Verify
<1>2. Sound(size) /\ bench.stated \in {None, size} /\ Offered(bench) BY <1>1 DEF Sound, Offered
<1>3. PartOnItsWay(size) BY <1>2 DEF GoodInv
<1>4. CASE InitPsram
  <2>1. KeepsUp' BY <1>2, <1>4, InitKeepsUp DEF Sound
  <2>2. memAt = "init" /\ memAt' = "probe" /\ UNCHANGED <<cells, held, dirty>> BY <1>4 DEF InitPsram, partVars
  <2> QED BY <1>3, <2>1, <2>2 DEF PartOnItsWay
<1>5. CASE Probe BY <1>2, <1>3, <1>5, ProbeFinds
<1>6. CASE Size BY <1>2, <1>3, <1>6, SizeFinds
<1>7. CASE Store \/ Clean \/ Invalidate BY <1>2, <1>3, <1>7, SweepKeeps
<1>8. CASE Verify BY <1>2, <1>3, <1>8, VerifyKeeps
<1>9. CASE UNCHANGED memVars
  <2>1. UNCHANGED <<cells, held, dirty, timing, memAt, next, found, swept>> BY <1>9 DEF memVars, partVars
  <2>2. KeepsUp' <=> KeepsUp BY <1>1, <2>1 DEF KeepsUp, Hz, Period
  <2> QED BY <1>3, <2>1, <2>2 DEF PartOnItsWay
<1> QED BY <1>4, <1>5, <1>6, <1>7, <1>8, <1>9 DEF MemNext

(* The sweep's result stays one.                                             *)
LEMMA SweptType ==
  ASSUME swept \in [run : BOOLEAN, ok : BOOLEAN], MemNext \/ UNCHANGED memVars
  PROVE  swept' \in [run : BOOLEAN, ok : BOOLEAN]
<1>1. CASE Verify
  <2>1. \E b \in BOOLEAN : swept' = [swept EXCEPT !.ok = b]
    <3>1. PICK got : swept' = [swept EXCEPT !.ok = @ /\ got = next] BY <1>1 DEF Verify
    <3>2. (swept.ok /\ got = next) \in BOOLEAN OBVIOUS
    <3> QED BY <3>1, <3>2
  <2> QED BY <2>1
<1>2. CASE Invalidate BY <1>2 DEF Invalidate, StartOver
<1>3. CASE InitPsram \/ Probe \/ Size \/ Store \/ Clean \/ UNCHANGED memVars
  <2>1. swept' = swept BY <1>3 DEF InitPsram, Probe, Size, Store, Clean, memVars
  <2> QED BY <2>1
<1> QED BY <1>1, <1>2, <1>3 DEF MemNext

(* GoodPartPasses: a sound part passes both rows, at its size, at every      *)
(* clock and under every ceiling of the overclock dialog that its rating     *)
(* covers, however many address lines it has and however small the cache.    *)
THEOREM GoodPartsPass == (\A b \in Benches : Offered(b)) => (Spec => []GoodPartPasses)
<1> SUFFICES ASSUME \A b \in Benches : Offered(b) PROVE Spec => []GoodPartPasses OBVIOUS
<1> DEFINE Inv == /\ GoodInv /\ Offered(bench) /\ swept \in [run : BOOLEAN, ok : BOOLEAN]
<1>1. Init => Inv
  <2> SUFFICES ASSUME Init PROVE Inv OBVIOUS
  <2>1. MemInit(IF scene = "memory" THEN Benches ELSE {Stock}) BY DEF Init
  <2>2. /\ cells = [w \in Space |-> Junk] /\ held = {} /\ dirty = {} /\ memAt = "init"
        /\ swept = [run |-> FALSE, ok |-> FALSE] /\ (bench \in Benches \/ bench = Stock)
    BY <2>1 DEF MemInit
  <2>3. Offered(bench) BY <2>2 DEF Stock, Offered
  <2>4. cells \in [Space -> Int] BY <2>2 DEF Junk
  <2>5. \A size : PartOnItsWay(size) BY <2>2, <2>4 DEF PartOnItsWay
  <2> QED BY <2>2, <2>3, <2>5 DEF GoodInv
<1>2. Inv /\ [Next]_vars => Inv'
  <2> SUFFICES ASSUME Inv, [Next]_vars PROVE Inv' OBVIOUS
  <2>1. MemNext \/ UNCHANGED memVars BY DEF Next, vars
  <2>2. bench' = bench
    BY <2>1 DEF MemNext, memVars, InitPsram, Probe, Size, Store, Clean, Invalidate, Verify
  <2>3. swept' \in [run : BOOLEAN, ok : BOOLEAN] BY <2>1, SweptType
  <2>4. GoodInv' BY <2>1, GoodKeeps
  <2> QED BY <2>2, <2>3, <2>4 DEF Offered
<1>3. Inv => GoodPartPasses
  <2> SUFFICES ASSUME Inv, memAt = "done", NEW size \in 0..(Steps - 1), Sound(size), bench.stated \in {None, size}
               PROVE  BothPass /\ found = size
    BY DEF GoodPartPasses
  <2>1. found = size /\ swept.run /\ swept.ok BY DEF GoodInv, PartOnItsWay
  <2>2. size # None BY MemoryAssumption DEF None
  <2> QED BY <2>1, <2>2 DEF BothPass, ProbeRow, SweepRow
<1> HIDE DEF Inv
<1> QED BY <1>1, <1>2, <1>3, PTL DEF Spec

(* The two memory rows can be relied on in either direction: two passes mean *)
(* memory, and memory means two passes (tests_memory.c, mem_test.c).         *)
THEOREM MemoryRowsAlwaysTrue ==
  (\A b \in Benches : Offered(b)) => (Spec => []MemoryRowsAreTrue)
<1> SUFFICES ASSUME \A b \in Benches : Offered(b) PROVE Spec => []MemoryRowsAreTrue OBVIOUS
<1>1. Spec => []PassMeansMemory BY TwoPassesMeanMemory
<1>2. Spec => []GoodPartPasses BY GoodPartsPass
<1>3. PassMeansMemory /\ GoodPartPasses => MemoryRowsAreTrue BY DEF MemoryRowsAreTrue
<1> QED BY <1>1, <1>2, <1>3, PTL

----------------------------------------------------------------------------
(* The card and its drivers.                                                 *)

(* What a card, and what a driver sees of it, can be.                        *)
Csds == {k.csd : k \in Cards \cup {EmptySocket}}
SizesSeen == {0} \cup {RowsCapacity(c) : c \in Csds} \cup {ReportCapacity(c) : c \in Csds}
Doings == {"nothing", "CMD9", "CMD16", "CMD17", "CMD18", "CMD24"}
CardSet == [kind : Kinds, csd : Csds, mode : {"native", "idle", "ready"}, polls : 0..1,
            busy : BOOLEAN, doing : Doings, place : 0..2]
SdPlaces == {"idle", "CMD0", "CMD8", "which", "ACMD41", "CMD58", "CMD16", "registers"}

SdTypes ==
  /\ who \in Drivers /\ sdAt \in SdPlaces /\ tries \in Nat
  /\ v2 \in BOOLEAN /\ mmc \in BOOLEAN /\ failed \in BOOLEAN /\ ill \in BOOLEAN
  /\ card \in CardSet /\ card.doing = "nothing"
  /\ sees \in [Drivers -> [up : BOOLEAN, block : BOOLEAN, size : SizesSeen]]
  /\ blind \in [Drivers -> BOOLEAN] /\ changed \in [Drivers -> BOOLEAN]

(* What a driver remembers is of the card in the socket: the kind of its     *)
(* addresses unless nobody told, the size its register says.                 *)
SeesTheCard ==
  \A d \in Drivers : sees[d].up /\ ~changed[d] =>
    /\ blind[d] \/ (sees[d].block <=> card.kind = "sdhc")
    /\ d # "fatfs" /\ Fits(card.csd) => sees[d].size = RowsCapacity(card.csd)

(* A bring-up starts from nothing, has the card out of its native mode       *)
(* after CMD0, and leaves one of high capacity idle that it takes for an old *)
(* one.                                                                      *)
InABringUp ==
  sdAt # "idle" =>
    /\ ~sees[who].up /\ ~changed[who]
    /\ sdAt # "CMD0" => ~card.busy /\ card.mode # "native"
    /\ sdAt \in {"CMD0", "CMD8"} => ~v2 /\ ~mmc
    /\ sdAt \in {"which", "CMD16"} => who = "fatfs" /\ ~v2
    /\ sdAt = "CMD58" => v2
    /\ sdAt = "registers" => who # "fatfs"
    /\ sdAt # "CMD0" /\ ~v2 /\ card.kind = "sdhc" => card.mode = "idle"
    /\ sdAt # "registers" \/ ~v2 => ~sees[who].block
    /\ sdAt = "registers" /\ v2 => blind[who] \/ (sees[who].block <=> card.kind = "sdhc")

EndsReady == sdAt = "idle" /\ sees[who].up /\ ~failed /\ ~changed[who] => card.mode = "ready"

(* A bring-up nothing went wrong in, of a card its driver takes, is on its   *)
(* way to success: there are ACMD41s left for the poll the card needs.       *)
Takes == card.kind # "none" /\ (card.kind = "mmc" => who = "fatfs")
OnItsWay ==
  sdAt # "idle" /\ ~ill /\ Takes =>
    /\ ~card.busy
    /\ sdAt \in {"CMD8", "which"} => card.mode = "idle" /\ tries = 1
    /\ sdAt = "which" => card.kind \in {"mmc", "sdsc1"}
    /\ sdAt = "ACMD41" =>
         /\ card.mode = "ready" \/ card.polls + tries <= 2
         /\ v2 <=> card.kind \in {"sdsc2", "sdhc"}
         /\ mmc <=> card.kind = "mmc"
    /\ sdAt \in {"CMD58", "CMD16", "registers"} => card.mode = "ready"

CardInv == SdTypes /\ SeesTheCard /\ InABringUp /\ EndsReady /\ OnItsWay
           /\ SectorsAreTheOnesAskedFor /\ GoodCardsWork

(* What the capacity of a card is to either driver.                          *)
LEMMA CardsHeld ==
  ASSUME NEW csd \in Csds, Fits(csd)
  PROVE  ReportCapacity(csd) = RowsCapacity(csd)
  <1>1. /\ csd.size \in Nat
        /\ IF csd.v = 1 THEN Bytes(csd) \in Nat ELSE (csd.size + 1) * 1024 < 2^Width
    <2>1. csd \in {k.csd : k \in Cards} \/ csd = EmptySocket.csd
      BY DEF Csds
    <2>2. CASE csd = EmptySocket.csd
      <3>1. csd.v = 1 /\ csd.size = 0 /\ csd.mult = 0 /\ csd.len = 9
        BY <2>2 DEF EmptySocket
      <3>2. 2^2 = 4 /\ 2^9 = 512
        OBVIOUS
      <3>3. 2^(csd.mult + 2) = 4 /\ 2^csd.len = 512
        BY <3>1, <3>2
      <3> QED  BY <3>1, <3>3 DEF Bytes
    <2> QED  BY <2>1, <2>2, SdAssumption
  <1>2. 2^Width \in Int
    BY SdAssumption
  <1> QED  BY <1>1, <1>2 DEF ReportCapacity, RowsCapacity, Fits

(* What it means that an exchange went one way or the other.                 *)
LEMMA AnswerOrLoss ==
  ASSUME NEW cmd, NEW arg, NEW e \in Exchange(cmd, arg)
  PROVE  \/ e.lost = 0 /\ e.r = Reply(cmd, arg)[1] /\ e.card = Reply(cmd, arg)[2]
         \/ e.lost = 1 /\ e.r = Silent /\ e.card \in {card, Reply(cmd, arg)[2]}
  BY DEF Exchange

(* What each command gets out of the card, and what it changes there.        *)
Alike(c) == c \in CardSet /\ c.kind = card.kind /\ c.csd = card.csd
Heeds == card \in CardSet /\ card.doing = "nothing"

(* CMD0 wakes the card, unless there is none, it is busy or something got    *)
(* lost.                                                                     *)
LEMMA ZeroIs ==
  ASSUME Heeds, NEW e \in Exchange("CMD0", 0)
  PROVE  /\ e.lost \in 0..1 /\ (e.lost = 1 => e.r = Silent)
         /\ Alike(e.card) /\ e.card.doing = "nothing" /\ e.card.busy = card.busy
         /\ e.r = Idle => /\ ~e.card.busy /\ e.card.kind # "none"
                          /\ e.card.mode = "idle" /\ e.card.polls = 1
         /\ e.lost = 0 /\ ~card.busy /\ card.kind # "none" => e.r = Idle
  <1> DEFINE R == Reply("CMD0", 0)
             wakes == [card EXCEPT !.mode = "idle", !.polls = 1]
  <1>1. \/ ~Talks /\ R = <<Silent, card>>
        \/ card.busy /\ R = <<0, card>>
        \/ Talks /\ ~card.busy /\ R = <<Idle, wakes>>
    BY DEF Reply
  <1>2. /\ Alike(wakes) /\ wakes.mode = "idle" /\ wakes.polls = 1
        /\ wakes.busy = card.busy /\ wakes.doing = card.doing
    <2>1. wakes \in CardSet
      BY 1 \in 0..1 DEF Heeds, CardSet
    <2>2. /\ wakes.kind = card.kind /\ wakes.csd = card.csd /\ wakes.mode = "idle"
          /\ wakes.polls = 1 /\ wakes.busy = card.busy /\ wakes.doing = card.doing
      BY DEF Heeds, CardSet
    <2> QED  BY <2>1, <2>2 DEF Alike
  <1>3. Alike(card) /\ card.busy \in BOOLEAN
    BY DEF Alike, Heeds, CardSet
  <1> HIDE DEF R, wakes
  <1>4. R[2] \in {card, wakes}
    BY <1>1
  <1>5. \/ e.lost = 0 /\ e.r = R[1] /\ e.card = R[2]
        \/ e.lost = 1 /\ e.r = Silent /\ e.card \in {card, R[2]}
    BY AnswerOrLoss DEF R
  <1> QED  BY <1>1, <1>2, <1>3, <1>4, <1>5 DEF Alike, Heeds, Talks, Idle, Silent

(* CMD8 is answered with Idle by cards of version 2 only.                    *)
LEMMA IfCondIs ==
  ASSUME Heeds, NEW e \in Exchange("CMD8", 0)
  PROVE  /\ e.lost \in 0..1 /\ (e.lost = 1 => e.r = Silent) /\ e.card = card
         /\ e.lost = 0 /\ ~card.busy /\ card.kind # "none" /\ card.mode # "native" =>
              (e.r = Idle <=> card.kind \in {"sdsc2", "sdhc"})
  <1>1. \/ ~Talks /\ Reply("CMD8", 0) = <<Silent, card>>
        \/ card.busy /\ Reply("CMD8", 0) = <<0, card>>
        \/ card.mode = "native" /\ Reply("CMD8", 0) = <<Silent, card>>
        \/ /\ card.kind \in {"sdsc2", "sdhc"} /\ Reply("CMD8", 0) = <<Idle, card>>
        \/ /\ card.kind \notin {"sdsc2", "sdhc"} /\ Reply("CMD8", 0) = <<Illegal, card>>
    BY DEF Reply
  <1> QED  BY <1>1, AnswerOrLoss DEF Talks, Idle, Silent, Illegal

(* A poll that does not get Ok is the last that does not, but for a card of  *)
(* high capacity whose host says nothing of it.                              *)
LEMMA PolledIs ==
  ASSUME Heeds, NEW b \in BOOLEAN
  PROVE  LET p == Polled(b)
         IN  /\ Alike(p[2]) /\ p[2].busy = card.busy /\ p[2].doing = "nothing"
             /\ p[2].mode \in {card.mode, "ready"} /\ (p[1] = Ok => p[2].mode = "ready")
             /\ card.kind = "sdhc" /\ ~b => p[2].mode = card.mode
             /\ p[1] \in {Ok, Idle}
             /\ (card.kind = "sdhc" => b) /\ p[1] # Ok =>
                  p[2].mode # "ready" /\ card.polls = 1 /\ p[2].polls = 0
  <1> DEFINE p == Polled(b)
             c == [card EXCEPT !.polls = @ - 1]
  <1>1. \/ Ready /\ p = <<Ok, card>>
        \/ ~Ready /\ card.kind = "sdhc" /\ ~b /\ p = <<Idle, card>>
        \/ ~Ready /\ card.polls > 0 /\ p = <<Idle, c>>
        \/ ~(card.kind = "sdhc" /\ ~b) /\ p = <<Ok, OpCondDone>>
    BY DEF Polled
  <1>2. card.polls > 0 => /\ Alike(c) /\ c.mode = card.mode /\ card.polls = 1 /\ c.polls = 0
                          /\ c.busy = card.busy /\ c.doing = card.doing
    <2>1. card.polls \in 0..1
      BY DEF Heeds, CardSet
    <2> QED  BY <2>1 DEF Alike, Heeds, CardSet
  <1>3. /\ Alike(OpCondDone) /\ OpCondDone.mode = "ready"
        /\ OpCondDone.busy = card.busy /\ OpCondDone.doing = card.doing
    BY DEF OpCondDone, Alike, Heeds, CardSet
  <1>4. Alike(card)
    BY DEF Alike, Heeds
  <1> HIDE DEF p, c
  <1>5. /\ Alike(p[2]) /\ p[2].busy = card.busy /\ p[2].doing = "nothing"
        /\ p[2].mode \in {card.mode, "ready"} /\ (p[1] = Ok => p[2].mode = "ready")
        /\ card.kind = "sdhc" /\ ~b => p[2].mode = card.mode
        /\ p[1] \in {Ok, Idle}
        /\ (card.kind = "sdhc" => b) /\ p[1] # Ok =>
             p[2].mode # "ready" /\ card.polls = 1 /\ p[2].polls = 0
    BY <1>1, <1>2, <1>3, <1>4 DEF Heeds, Ready, Ok, Idle
  <1> QED  BY <1>5 DEF p

(* CMD1 takes no argument.                                                   *)
Hcs(cmd, b) == cmd = "ACMD41" /\ b
(* The same of the command that polls.                                       *)
LEMMA PollIs ==
  ASSUME Heeds, NEW cmd \in {"ACMD41", "CMD1"}, NEW b \in BOOLEAN, NEW e \in Exchange(cmd, b)
  PROVE  /\ e.lost \in 0..1 /\ (e.lost = 1 => e.r = Silent)
         /\ Alike(e.card) /\ e.card.busy = card.busy /\ e.card.doing = "nothing"
         /\ e.card.mode \in {card.mode, "ready"}
         /\ card.kind = "sdhc" /\ ~Hcs(cmd, b) => e.card.mode = card.mode
         /\ e.r = Ok /\ ~card.busy => e.card.mode = "ready"
         /\ e.lost = 0 /\ ~card.busy /\ card.kind # "none" /\ card.mode # "native" =>
              IF card.kind = "mmc" /\ cmd = "ACMD41" THEN e.r = Illegal /\ e.card = card
              ELSE /\ e.r \in {Ok, Idle}
                   /\ (card.kind = "sdhc" => Hcs(cmd, b)) /\ e.r # Ok =>
                        e.card.mode # "ready" /\ card.polls = 1 /\ e.card.polls = 0
  <1> DEFINE R == Reply(cmd, b)
             p == Polled(Hcs(cmd, b))
  <1>0. card.busy \in BOOLEAN /\ Alike(card)
    BY DEF Heeds, CardSet, Alike
  <1>1. \/ ~Talks /\ R = <<Silent, card>>
        \/ card.busy /\ R = <<0, card>>
        \/ Talks /\ ~card.busy /\ card.mode = "native" /\ R = <<Silent, card>>
        \/ Talks /\ ~card.busy /\ card.kind = "mmc" /\ cmd = "ACMD41" /\ R = <<Illegal, card>>
        \/ Talks /\ ~card.busy /\ ~(card.kind = "mmc" /\ cmd = "ACMD41") /\ R = p
    BY DEF Reply, Hcs
  <1>2. /\ Alike(p[2]) /\ p[2].busy = card.busy /\ p[2].doing = "nothing"
        /\ p[2].mode \in {card.mode, "ready"} /\ (p[1] = Ok => p[2].mode = "ready")
        /\ card.kind = "sdhc" /\ ~Hcs(cmd, b) => p[2].mode = card.mode
        /\ p[1] \in {Ok, Idle}
        /\ (card.kind = "sdhc" => Hcs(cmd, b)) /\ p[1] # Ok =>
             p[2].mode # "ready" /\ card.polls = 1 /\ p[2].polls = 0
    <2>1. Hcs(cmd, b) \in BOOLEAN
      BY DEF Hcs
    <2> QED  BY <2>1, PolledIs
  <1> HIDE DEF R, p
  <1>3. \/ e.lost = 0 /\ e.r = R[1] /\ e.card = R[2]
        \/ e.lost = 1 /\ e.r = Silent /\ e.card \in {card, R[2]}
    BY AnswerOrLoss DEF R
  <1>4. R[2] \in {card, p[2]}
    BY <1>1
  <1>5. /\ Alike(e.card) /\ e.card.busy = card.busy /\ e.card.doing = "nothing"
        /\ e.card.mode \in {card.mode, "ready"}
        /\ card.kind = "sdhc" /\ ~Hcs(cmd, b) => e.card.mode = card.mode
    BY <1>0, <1>2, <1>3, <1>4 DEF Heeds
  <1>6. e.r = Ok /\ ~card.busy => e.card.mode = "ready"
    BY <1>0, <1>1, <1>2, <1>3 DEF Ok, Silent, Illegal
  <1> QED  BY <1>0, <1>1, <1>2, <1>3, <1>5, <1>6 DEF Ok, Silent, Illegal, Talks

(* CMD58 gets Ok of a card that has left idle.                               *)
LEMMA OcrIs ==
  ASSUME Heeds, NEW e \in Exchange("CMD58", 0)
  PROVE  /\ e.lost \in 0..1 /\ (e.lost = 1 => e.r = Silent) /\ e.card = card
         /\ e.r = Ok /\ ~card.busy => card.mode = "ready"
         /\ e.lost = 0 /\ ~card.busy /\ card.kind # "none" /\ card.mode = "ready" => e.r = Ok
  <1>1. \/ ~Talks /\ Reply("CMD58", 0) = <<Silent, card>>
        \/ card.busy /\ Reply("CMD58", 0) = <<0, card>>
        \/ card.mode = "native" /\ Reply("CMD58", 0) = <<Silent, card>>
        \/ Ready /\ Reply("CMD58", 0) = <<Ok, card>>
        \/ ~Ready /\ Reply("CMD58", 0) = <<Idle, card>>
    BY DEF Reply
  <1> QED  BY <1>1, AnswerOrLoss DEF Talks, Idle, Silent, Ready, Ok

(* The commands a block follows, and CMD16.  A card that is busy says Ok and *)
(* does nothing.                                                             *)
Moving == {"CMD17", "CMD18", "CMD24"}
(* After Ok, a card that was ready sends or takes the block asked for.       *)
LEMMA BlockIs ==
  ASSUME Heeds, NEW cmd \in Doings \ {"nothing"}, NEW arg \in 0..2, NEW e \in Exchange(cmd, arg)
  PROVE  /\ e.lost \in 0..1 /\ (e.lost = 1 => e.r = Silent)
         /\ Alike(e.card) /\ e.card.busy = card.busy /\ e.card.mode = card.mode
         /\ e.r = Ok /\ (Accepts(e.card, cmd) \/ ~card.busy) =>
              /\ card.kind # "none" /\ ~card.busy /\ card.mode = "ready"
              /\ cmd \in Moving => e.card.place = arg
         /\ e.lost = 0 /\ ~card.busy /\ card.kind # "none" /\ card.mode = "ready" =>
              e.r = Ok /\ Accepts(e.card, cmd)
  <1> DEFINE R == Reply(cmd, arg)
             moves == [card EXCEPT !.doing = cmd, !.place = arg]
             tells == [card EXCEPT !.doing = cmd]
  <1>0. card.busy \in BOOLEAN /\ Alike(card)
    BY DEF Heeds, CardSet, Alike
  <1>1. \/ ~Talks /\ R = <<Silent, card>>
        \/ card.busy /\ R = <<0, card>>
        \/ card.mode = "native" /\ R = <<Silent, card>>
        \/ ~Ready /\ R = <<Idle, card>>
        \/ Talks /\ ~card.busy /\ Ready /\ cmd \in Moving /\ R = <<Ok, moves>>
        \/ Talks /\ ~card.busy /\ Ready /\ cmd \notin Moving /\ R = <<Ok, tells>>
    BY <1>0 DEF Reply, Doings, Moving
  <1>2. /\ Alike(moves) /\ moves.busy = card.busy /\ moves.mode = card.mode
        /\ moves.doing = cmd /\ moves.place = arg
    BY DEF Alike, Heeds, CardSet
  <1>3. Alike(tells) /\ tells.busy = card.busy /\ tells.mode = card.mode /\ tells.doing = cmd
    BY DEF Alike, Heeds, CardSet
  <1> HIDE DEF R, moves, tells
  <1>4. \/ e.lost = 0 /\ e.r = R[1] /\ e.card = R[2]
        \/ e.lost = 1 /\ e.r = Silent /\ e.card \in {card, R[2]}
    BY AnswerOrLoss DEF R
  <1>5. R[2] \in {card, moves, tells}
    BY <1>1
  <1>6. Alike(e.card) /\ e.card.busy = card.busy /\ e.card.mode = card.mode
    BY <1>0, <1>2, <1>3, <1>4, <1>5
  <1>7. cmd # "nothing"
    OBVIOUS
  <1>8. e.r = Ok => e.lost = 0
    BY <1>4 DEF Ok, Silent
  <1>9. ASSUME e.r = Ok, Accepts(e.card, cmd) \/ ~card.busy
        PROVE  /\ card.kind # "none" /\ ~card.busy /\ card.mode = "ready"
               /\ cmd \in Moving => e.card.place = arg
    BY <1>0, <1>1, <1>2, <1>4, <1>7, <1>8, <1>9 DEF Accepts, Heeds, Talks, Ready, Ok, Idle, Silent
  <1> QED  BY <1>0, <1>1, <1>2, <1>3, <1>4, <1>6, <1>9 DEF Accepts, Talks, Ready, Ok

(* The end of a transfer.                                                    *)
LEMMA DoneIs ==
  ASSUME NEW c \in CardSet
  PROVE  /\ Done(c) \in CardSet /\ Done(c).doing = "nothing" /\ Done(c).mode = c.mode
         /\ Done(c).kind = c.kind /\ Done(c).csd = c.csd /\ Done(c).busy = c.busy
         /\ Done(c).polls = c.polls /\ Done(c).place = c.place
  BY DEF Done, CardSet, Doings

(* Every step of the drivers and of the card keeps it.                       *)
LEMMA CardKeeps ==
  ASSUME CardInv, SdNext \/ UNCHANGED sdVars
  PROVE  CardInv'
  <1> USE DEF CardInv
  <1>0. /\ who \in Drivers /\ sdAt \in SdPlaces /\ tries \in Nat /\ v2 \in BOOLEAN /\ mmc \in BOOLEAN
        /\ failed \in BOOLEAN /\ ill \in BOOLEAN /\ Heeds /\ card \in CardSet /\ card.doing = "nothing"
        /\ card.busy \in BOOLEAN /\ card.mode \in {"native", "idle", "ready"} /\ card.kind \in Kinds
        /\ card.polls \in 0..1 /\ card.csd \in Csds
        /\ sees \in [Drivers -> [up : BOOLEAN, block : BOOLEAN, size : SizesSeen]]
        /\ blind \in [Drivers -> BOOLEAN] /\ changed \in [Drivers -> BOOLEAN]
        /\ Patience \in Nat /\ Patience > 1
    BY SdAssumption DEF SdTypes, Heeds, CardSet
  <1>1. CASE \E d \in Drivers : BringUp(d)
    <2>0. /\ sdAt' = "CMD0" /\ v2' = FALSE /\ mmc' = FALSE /\ tries' = 1 /\ who' \in Drivers
          /\ ill' = card.busy /\ ~sees'[who'].up /\ ~sees'[who'].block /\ ~changed'[who']
          /\ \A d \in Drivers : d # who' => sees'[d] = sees[d] /\ blind'[d] = blind[d] /\ changed'[d] = changed[d]
          /\ sees' \in [Drivers -> [up : BOOLEAN, block : BOOLEAN, size : SizesSeen]]
          /\ blind' \in [Drivers -> BOOLEAN] /\ changed' \in [Drivers -> BOOLEAN]
          /\ UNCHANGED <<card, failed, moved>>
      <3>1. Unseen \in [up : BOOLEAN, block : BOOLEAN, size : SizesSeen] /\ ~Unseen.up /\ ~Unseen.block
        BY DEF Unseen, SizesSeen
      <3> QED  BY <1>0, <1>1, <3>1 DEF BringUp, StepTo
    <2>1. SdTypes'
      BY <1>0, <2>0 DEF SdTypes, SdPlaces, CardSet
    <2>2. SeesTheCard'
      BY <1>0, <2>0 DEF SeesTheCard
    <2>3. InABringUp'
      BY <1>0, <2>0 DEF InABringUp, SdPlaces
    <2>4. EndsReady'
      BY <1>0, <2>0 DEF EndsReady, InABringUp
    <2>5. OnItsWay'
      BY <1>0, <2>0 DEF OnItsWay, InABringUp, Takes, SdPlaces, Kinds
    <2>6. SectorsAreTheOnesAskedFor'
      BY <1>0, <2>0 DEF SectorsAreTheOnesAskedFor
    <2>7. GoodCardsWork'
      BY <1>0, <2>0 DEF GoodCardsWork, SoundCallsWork, Ready, OnItsWay, Takes
    <2> QED  BY <2>1, <2>2, <2>3, <2>4, <2>5, <2>6, <2>7 DEF CardInv
  <1>2. CASE GoIdle
    <2>0. /\ card' \in CardSet /\ card'.doing = "nothing" /\ card'.kind = card.kind /\ card'.csd = card.csd
          /\ sdAt = "CMD0" /\ tries' \in Nat /\ ill' \in BOOLEAN /\ failed' \in BOOLEAN /\ (ill => ill')
          /\ card'.busy = card.busy
          /\ \/ /\ sdAt' = "CMD8" /\ tries' = 1 /\ ~card'.busy /\ card'.mode = "idle" /\ card'.polls = 1
             \/ sdAt' = "CMD0"
             \/ sdAt' = "idle"
          /\ sdAt' # "CMD8" => ill' \/ card.busy \/ card.kind = "none"
          /\ UNCHANGED <<who, v2, mmc, sees, blind, changed, moved>>
      <3>1. PICK e \in Exchange("CMD0", 0) :
              /\ Heard(e)
              /\ IF e.r = Idle THEN StepTo("CMD8") /\ tries' = 1 /\ Still
                 ELSE IF who = "rows" /\ tries < ZeroTries
                      THEN tries' = tries + 1 /\ UNCHANGED sdAt /\ Still
                 ELSE Fails /\ UNCHANGED tries
        BY <1>2 DEF GoIdle
      <3>2. sdAt = "CMD0" /\ UNCHANGED <<who, v2, mmc, sees, blind, changed, moved>>
        BY <1>2 DEF GoIdle, Same
      <3>3. /\ e.lost \in 0..1 /\ (e.lost = 1 => e.r = Silent)
            /\ Alike(e.card) /\ e.card.doing = "nothing" /\ e.card.busy = card.busy
            /\ e.r = Idle => ~e.card.busy /\ e.card.mode = "idle" /\ e.card.polls = 1
            /\ e.lost = 0 /\ ~card.busy /\ card.kind # "none" => e.r = Idle
        BY <1>0, ZeroIs
      <3>4. (ill => ill') /\ ill' \in BOOLEAN /\ (~ill' => e.lost = 0) /\ card' = e.card
        <4>1. (ill' <=> ill \/ e.lost = 1) /\ ill' \in BOOLEAN /\ card' = e.card
          BY <3>1 DEF Heard
        <4> QED  BY <3>3, <4>1
      <3>5. tries' \in Nat
        <4>1. tries' = tries \/ tries' = 1 \/ tries' = tries + 1
          BY <3>1
        <4> QED  BY <1>0, <4>1
      <3>6. failed' \in BOOLEAN
        <4>1. failed' = failed \/ failed' = TRUE
          BY <3>1 DEF Still, Fails
        <4> QED  BY <1>0, <4>1
      <3>7. \/ e.r = Idle /\ sdAt' = "CMD8" /\ tries' = 1
            \/ e.r # Idle /\ sdAt' \in {"CMD0", "idle"}
        BY <3>1, <3>2 DEF StepTo, Fails
      <3> QED  BY <1>0, <3>2, <3>3, <3>4, <3>5, <3>6, <3>7 DEF Alike
    <2>1. SdTypes'
      BY <1>0, <2>0 DEF SdTypes, SdPlaces, CardSet
    <2>2. SeesTheCard'
      BY <1>0, <2>0 DEF SeesTheCard
    <2>3. InABringUp'
      BY <1>0, <2>0 DEF InABringUp, SdPlaces
    <2>4. EndsReady'
      BY <1>0, <2>0 DEF EndsReady, InABringUp
    <2>5. OnItsWay'
      BY <1>0, <2>0 DEF OnItsWay, InABringUp, Takes, SdPlaces, Kinds
    <2>6. SectorsAreTheOnesAskedFor'
      BY <1>0, <2>0 DEF SectorsAreTheOnesAskedFor
    <2>7. GoodCardsWork'
      BY <1>0, <2>0 DEF GoodCardsWork, SoundCallsWork, Ready, OnItsWay, Takes
    <2> QED  BY <2>1, <2>2, <2>3, <2>4, <2>5, <2>6, <2>7 DEF CardInv
  <1>3. CASE IfCond
    <2>0. /\ card' = card /\ sdAt = "CMD8" /\ ill' \in BOOLEAN /\ failed' \in BOOLEAN /\ (ill => ill')
          /\ v2' \in BOOLEAN
          /\ \/ sdAt' = "which" /\ who = "fatfs" /\ ~v2'
             \/ sdAt' = "ACMD41"
             \/ sdAt' = "idle" /\ ill'
          /\ ~ill' /\ ~card.busy /\ card.kind # "none" /\ card.mode # "native" =>
               (v2' <=> card.kind \in {"sdsc2", "sdhc"})
          /\ sdAt' = "ACMD41" => who # "fatfs" \/ v2'
          /\ UNCHANGED <<who, tries, mmc, sees, blind, changed, moved>>
      <3>1. PICK e \in Exchange("CMD8", 0), garbled \in 0..1 :
              /\ card' = e.card /\ ill' = (ill \/ e.lost + garbled > 0)
              /\ v2' = (e.r = Idle) /\ (garbled = 1 => e.r = Idle)
              /\ IF garbled = 1 /\ who # "report" THEN Fails
                 ELSE Still /\ StepTo(IF who = "fatfs" /\ e.r # Idle THEN "which" ELSE "ACMD41")
        BY <1>3 DEF IfCond
      <3>2. sdAt = "CMD8" /\ UNCHANGED <<who, tries, mmc, sees, blind, changed, moved>>
        BY <1>3 DEF IfCond, Same
      <3>3. /\ e.lost \in 0..1 /\ (e.lost = 1 => e.r = Silent) /\ e.card = card
            /\ e.lost = 0 /\ ~card.busy /\ card.kind # "none" /\ card.mode # "native" =>
                 (e.r = Idle <=> card.kind \in {"sdsc2", "sdhc"})
        BY <1>0, IfCondIs
      <3>4. (ill => ill') /\ ill' \in BOOLEAN /\ (garbled = 1 => ill') /\ (~ill' => e.lost = 0)
        <4>1. ill' <=> ill \/ e.lost + garbled > 0
          BY <3>1
        <4>2. ill' \in BOOLEAN
          BY <3>1
        <4> QED  BY <3>3, <4>1, <4>2
      <3>5. v2' \in BOOLEAN /\ (v2' <=> e.r = Idle)
        BY <3>1
      <3> QED  BY <1>0, <3>1, <3>2, <3>3, <3>4, <3>5 DEF StepTo, Fails, Still
    <2>1. SdTypes'
      BY <1>0, <2>0 DEF SdTypes, SdPlaces, CardSet
    <2>2. SeesTheCard'
      BY <1>0, <2>0 DEF SeesTheCard
    <2>3. InABringUp'
      BY <1>0, <2>0 DEF InABringUp, SdPlaces
    <2>4. EndsReady'
      BY <1>0, <2>0 DEF EndsReady, InABringUp
    <2>5. OnItsWay'
      BY <1>0, <2>0 DEF OnItsWay, InABringUp, Takes, SdPlaces, Kinds
    <2>6. SectorsAreTheOnesAskedFor'
      BY <1>0, <2>0 DEF SectorsAreTheOnesAskedFor
    <2>7. GoodCardsWork'
      BY <1>0, <2>0 DEF GoodCardsWork, SoundCallsWork, Ready, OnItsWay, Takes
    <2> QED  BY <2>1, <2>2, <2>3, <2>4, <2>5, <2>6, <2>7 DEF CardInv
  <1>4. CASE Which
    <2>0. /\ card' \in CardSet /\ card'.doing = "nothing" /\ card'.kind = card.kind /\ card'.csd = card.csd
          /\ card'.busy = card.busy /\ card'.mode \in {card.mode, "ready"}
          /\ ill' \in BOOLEAN /\ failed' \in BOOLEAN /\ (ill => ill')
          /\ sdAt = "which" /\ sdAt' = "ACMD41" /\ mmc' \in BOOLEAN
          /\ card.kind = "sdhc" => card'.mode = card.mode
          /\ ~ill' /\ ~card.busy /\ card.kind # "none" /\ card.mode # "native" =>
               /\ mmc' <=> card.kind = "mmc"
               /\ card.kind \notin {"mmc", "sdhc"} => card'.mode = "ready" \/ card'.polls = 0
               /\ card.kind = "mmc" => card' = card
          /\ UNCHANGED <<who, tries, v2, sees, failed, blind, changed, moved>>
      <3>1. PICK e \in Exchange("ACMD41", FALSE) : Heard(e) /\ mmc' = (e.r > Idle)
        BY <1>4 DEF Which
      <3>2. sdAt = "which" /\ sdAt' = "ACMD41"
            /\ UNCHANGED <<who, tries, v2, sees, failed, blind, changed, moved>>
        BY <1>4 DEF Which, Same, StepTo
      <3>3. /\ e.lost \in 0..1 /\ (e.lost = 1 => e.r = Silent)
            /\ Alike(e.card) /\ e.card.busy = card.busy /\ e.card.doing = "nothing"
            /\ e.card.mode \in {card.mode, "ready"}
            /\ card.kind = "sdhc" => e.card.mode = card.mode
            /\ e.r = Ok /\ ~card.busy => e.card.mode = "ready"
            /\ e.lost = 0 /\ ~card.busy /\ card.kind # "none" /\ card.mode # "native" =>
                 IF card.kind = "mmc" THEN e.r = Illegal /\ e.card = card
                 ELSE /\ e.r \in {Ok, Idle}
                      /\ card.kind # "sdhc" /\ e.r # Ok => e.card.polls = 0
        BY <1>0, PollIs DEF Hcs
      <3>4. (ill => ill') /\ ill' \in BOOLEAN /\ (~ill' => e.lost = 0) /\ card' = e.card
        <4>1. (ill' <=> ill \/ e.lost = 1) /\ ill' \in BOOLEAN /\ card' = e.card
          BY <3>1 DEF Heard
        <4> QED  BY <3>3, <4>1
      <3>5. mmc' \in BOOLEAN /\ (e.r = Illegal => mmc') /\ (e.r \in {Ok, Idle} => ~mmc')
        <4>1. mmc' = (e.r > Idle)
          BY <3>1
        <4>2. mmc' \in BOOLEAN
          BY <4>1
        <4>3. mmc' <=> e.r > Idle
          BY <4>1
        <4> QED  BY <4>2, <4>3 DEF Illegal, Ok, Idle
      <3>6. /\ card' \in CardSet /\ card'.doing = "nothing" /\ card'.kind = card.kind /\ card'.csd = card.csd
            /\ card'.busy = card.busy /\ card'.mode \in {card.mode, "ready"}
            /\ card.kind = "sdhc" => card'.mode = card.mode
        BY <3>3, <3>4 DEF Alike
      <3>7. ASSUME ~ill', ~card.busy, card.kind # "none", card.mode # "native"
            PROVE  /\ mmc' <=> card.kind = "mmc"
                   /\ card.kind \notin {"mmc", "sdhc"} => card'.mode = "ready" \/ card'.polls = 0
                   /\ card.kind = "mmc" => card' = card
        <4>1. e.lost = 0 /\ card' = e.card BY <3>4, <3>7
        <4>2. CASE card.kind = "mmc" BY <3>3, <3>5, <3>7, <4>1, <4>2
        <4>3. CASE card.kind # "mmc"
          <5>1. e.r \in {Ok, Idle} /\ (card.kind # "sdhc" /\ e.r # Ok => e.card.polls = 0)
            BY <3>3, <3>7, <4>1, <4>3
          <5>2. e.r = Ok => e.card.mode = "ready" BY <3>3, <3>7
          <5> QED BY <3>5, <4>1, <4>3, <5>1, <5>2
        <4> QED BY <4>2, <4>3
      <3>8. failed \in BOOLEAN BY <1>0 DEF SdTypes
      <3> QED  BY <3>2, <3>4, <3>5, <3>6, <3>7, <3>8
    <2>1. SdTypes'
      BY <1>0, <2>0 DEF SdTypes, SdPlaces, CardSet
    <2>2. SeesTheCard'
      BY <1>0, <2>0 DEF SeesTheCard
    <2>3. InABringUp'
      BY <1>0, <2>0 DEF InABringUp, SdPlaces
    <2>4. EndsReady'
      BY <1>0, <2>0 DEF EndsReady, InABringUp
    <2>5. OnItsWay'
      BY <1>0, <2>0 DEF OnItsWay, InABringUp, Takes, SdPlaces, Kinds
    <2>6. SectorsAreTheOnesAskedFor'
      BY <1>0, <2>0 DEF SectorsAreTheOnesAskedFor
    <2>7. GoodCardsWork'
      BY <1>0, <2>0 DEF GoodCardsWork, SoundCallsWork, Ready, OnItsWay, Takes
    <2> QED  BY <2>1, <2>2, <2>3, <2>4, <2>5, <2>6, <2>7 DEF CardInv
  <1>5. CASE OpCond
    <2>0. /\ card' \in CardSet /\ card'.doing = "nothing" /\ card'.kind = card.kind /\ card'.csd = card.csd
          /\ card'.busy = card.busy /\ card'.mode \in {card.mode, "ready"}
          /\ ill' \in BOOLEAN /\ failed' \in BOOLEAN /\ (ill => ill')
          /\ sdAt = "ACMD41" /\ tries' \in Nat
          /\ card.kind = "sdhc" /\ ~v2 => card'.mode = card.mode
          /\ \/ sdAt' = NextAfterOpCond /\ (~card.busy => card'.mode = "ready")
             \/ sdAt' = NextAfterOpCond /\ who = "report" /\ tries >= Patience
             \/ sdAt' = "ACMD41" /\ tries' = tries + 1
             \/ sdAt' = "idle" /\ (who = "rows" \/ tries >= Patience)
          /\ /\ ~ill' /\ ~card.busy /\ card.kind # "none" /\ card.mode # "native"
             /\ mmc <=> card.kind = "mmc"
             /\ card.kind = "sdhc" => v2
             => \/ card'.mode = "ready" /\ sdAt' = NextAfterOpCond
                \/ card.polls = 1 /\ card'.polls = 0 /\ card.mode # "ready"
                     /\ (tries < Patience => sdAt' = "ACMD41" /\ tries' = tries + 1)
          /\ UNCHANGED <<who, v2, mmc, sees, blind, changed, moved>>
      <3> DEFINE cmd == IF mmc THEN "CMD1" ELSE "ACMD41"
      <3>1. PICK e \in Exchange(cmd, v2) :
              /\ Heard(e)
              /\ IF e.r = Ok THEN StepTo(NextAfterOpCond) /\ Still /\ UNCHANGED tries
                 ELSE IF who = "rows" /\ e.r # Idle THEN Fails /\ UNCHANGED tries
                 ELSE IF tries < Patience THEN tries' = tries + 1 /\ UNCHANGED sdAt /\ Still
                 ELSE /\ UNCHANGED tries
                      /\ IF who = "report" THEN StepTo(NextAfterOpCond) /\ Still ELSE Fails
        BY <1>5 DEF OpCond
      <3>2. sdAt = "ACMD41" /\ UNCHANGED <<who, v2, mmc, sees, blind, changed, moved>>
        BY <1>5 DEF OpCond, Same
      <3>3. cmd \in {"ACMD41", "CMD1"} /\ (mmc <=> cmd = "CMD1")
        BY <1>0
      <3> HIDE DEF cmd
      <3>4. /\ e.lost \in 0..1 /\ (e.lost = 1 => e.r = Silent)
            /\ Alike(e.card) /\ e.card.busy = card.busy /\ e.card.doing = "nothing"
            /\ e.card.mode \in {card.mode, "ready"}
            /\ card.kind = "sdhc" /\ ~Hcs(cmd, v2) => e.card.mode = card.mode
            /\ e.r = Ok /\ ~card.busy => e.card.mode = "ready"
            /\ e.lost = 0 /\ ~card.busy /\ card.kind # "none" /\ card.mode # "native" =>
                 IF card.kind = "mmc" /\ cmd = "ACMD41" THEN e.r = Illegal /\ e.card = card
                 ELSE /\ e.r \in {Ok, Idle}
                      /\ (card.kind = "sdhc" => Hcs(cmd, v2)) /\ e.r # Ok =>
                           e.card.mode # "ready" /\ card.polls = 1 /\ e.card.polls = 0
        BY <1>0, <3>3, PollIs
      <3>5. (ill => ill') /\ ill' \in BOOLEAN /\ (~ill' => e.lost = 0) /\ card' = e.card
        <4>1. (ill' <=> ill \/ e.lost = 1) /\ ill' \in BOOLEAN /\ card' = e.card
          BY <3>1 DEF Heard
        <4> QED  BY <3>4, <4>1
      <3>6. tries' \in Nat /\ failed' \in BOOLEAN
        <4>1. tries' = tries \/ tries' = tries + 1
          BY <3>1
        <4>2. failed' = failed \/ failed' = TRUE
          BY <3>1 DEF Still, Fails
        <4>3. tries' \in Nat
          BY <1>0, <4>1
        <4>4. failed' \in BOOLEAN
          BY <1>0, <4>2
        <4> QED  BY <4>3, <4>4
      <3>7. Patience \in Nat
        BY SdAssumption
      <3> QED  BY <1>0, <3>1, <3>2, <3>3, <3>4, <3>5, <3>6, <3>7 DEF StepTo, Fails, Still, Alike, Hcs
    <2>1. SdTypes'
      BY <1>0, <2>0 DEF SdTypes, SdPlaces, CardSet, NextAfterOpCond
    <2>2. SeesTheCard'
      BY <1>0, <2>0 DEF SeesTheCard, NextAfterOpCond
    <2>3. InABringUp'
      BY <1>0, <2>0 DEF InABringUp, SdPlaces, NextAfterOpCond
    <2>4. EndsReady'
      BY <1>0, <2>0 DEF EndsReady, InABringUp, NextAfterOpCond
    <2>5. OnItsWay'
      BY <1>0, <2>0 DEF OnItsWay, InABringUp, Takes, SdPlaces, Kinds, NextAfterOpCond
    <2>6. SectorsAreTheOnesAskedFor'
      BY <1>0, <2>0 DEF SectorsAreTheOnesAskedFor, NextAfterOpCond
    <2>7. GoodCardsWork'
      BY <1>0, <2>0 DEF GoodCardsWork, SoundCallsWork, Ready, OnItsWay, Takes, InABringUp, NextAfterOpCond
    <2> QED  BY <2>1, <2>2, <2>3, <2>4, <2>5, <2>6, <2>7 DEF CardInv
  <1>6. CASE Ocr
    <2>0. /\ card' = card /\ sdAt = "CMD58" /\ ill' \in BOOLEAN /\ failed' \in BOOLEAN /\ (ill => ill')
          /\ sdAt' \in {"registers", "idle"} /\ (sdAt' = "registers" <=> who # "fatfs")
          /\ \A d \in Drivers : d # who => sees'[d] = sees[d] /\ blind'[d] = blind[d]
          /\ sees' \in [Drivers -> [up : BOOLEAN, block : BOOLEAN, size : SizesSeen]]
          /\ blind' \in [Drivers -> BOOLEAN]
          /\ sees'[who].up => who = "fatfs" /\ ~blind'[who] /\ (~card.busy => card.mode = "ready")
          /\ blind'[who] \/ (sees'[who].block <=> card.kind = "sdhc")
          /\ sdAt' = "idle" => (failed' <=> blind'[who])
          /\ UNCHANGED <<who, tries, v2, mmc, changed, moved>>
      <3>1. PICK e \in Exchange("CMD58", 0) :
              /\ Heard(e)
              /\ sees' = [sees EXCEPT ![who].block = e.r = Ok /\ card.kind = "sdhc",
                                      ![who].up = who = "fatfs" /\ e.r = Ok]
              /\ blind' = [blind EXCEPT ![who] = e.r # Ok]
              /\ IF who # "fatfs" THEN StepTo("registers") /\ Still
                 ELSE IF e.r = Ok THEN Works ELSE Fails
        BY <1>6 DEF Ocr
      <3>2. sdAt = "CMD58" /\ UNCHANGED <<who, tries, v2, mmc, changed, moved>>
        BY <1>6 DEF Ocr, Same
      <3>3. /\ e.lost \in 0..1 /\ e.card = card
            /\ e.r = Ok /\ ~card.busy => card.mode = "ready"
        BY <1>0, OcrIs
      <3>4. /\ \A d \in Drivers : d # who => sees'[d] = sees[d] /\ blind'[d] = blind[d]
            /\ sees' \in [Drivers -> [up : BOOLEAN, block : BOOLEAN, size : SizesSeen]]
            /\ blind' \in [Drivers -> BOOLEAN] /\ (blind'[who] <=> e.r # Ok)
            /\ sees'[who].block <=> e.r = Ok /\ card.kind = "sdhc"
            /\ sees'[who].up <=> who = "fatfs" /\ e.r = Ok
        <4> DEFINE b == e.r = Ok /\ card.kind = "sdhc"
                   u == who = "fatfs" /\ e.r = Ok
        <4>1. b \in BOOLEAN /\ u \in BOOLEAN
          OBVIOUS
        <4>2. sees' = [sees EXCEPT ![who].block = b, ![who].up = u]
          BY <3>1
        <4>3. (b <=> e.r = Ok /\ card.kind = "sdhc") /\ (u <=> who = "fatfs" /\ e.r = Ok)
          OBVIOUS
        <4> HIDE DEF b, u
        <4>4. /\ sees' \in [Drivers -> [up : BOOLEAN, block : BOOLEAN, size : SizesSeen]]
              /\ \A d \in Drivers : d # who => sees'[d] = sees[d]
              /\ sees'[who].block = b /\ sees'[who].up = u
          BY <1>0, <4>1, <4>2
        <4>5. /\ \A d \in Drivers : d # who => blind'[d] = blind[d]
              /\ blind' \in [Drivers -> BOOLEAN] /\ (blind'[who] <=> e.r # Ok)
          BY <1>0, <3>1
        <4> QED  BY <4>3, <4>4, <4>5
      <3> QED  BY <1>0, <3>1, <3>2, <3>3, <3>4 DEF Heard, StepTo, Works, Fails, Still
    <2>1. SdTypes'
      BY <1>0, <2>0 DEF SdTypes, SdPlaces, CardSet
    <2>2. SeesTheCard'
      BY <1>0, <2>0 DEF SeesTheCard
    <2>3. InABringUp'
      BY <1>0, <2>0 DEF InABringUp, SdPlaces
    <2>4. EndsReady'
      BY <1>0, <2>0 DEF EndsReady, InABringUp
    <2>5. OnItsWay'
      BY <1>0, <2>0 DEF OnItsWay, InABringUp, Takes, SdPlaces, Kinds
    <2>6. SectorsAreTheOnesAskedFor'
      BY <1>0, <2>0 DEF SectorsAreTheOnesAskedFor
    <2>7. GoodCardsWork'
      BY <1>0, <2>0 DEF GoodCardsWork, SoundCallsWork, Ready, OnItsWay, Takes
    <2> QED  BY <2>1, <2>2, <2>3, <2>4, <2>5, <2>6, <2>7 DEF CardInv
  <1>7. CASE BlockLength
    <2>0. /\ card' \in CardSet /\ card'.doing = "nothing" /\ card'.kind = card.kind /\ card'.csd = card.csd
          /\ card'.busy = card.busy /\ card'.mode = card.mode
          /\ sdAt = "CMD16" /\ sdAt' = "idle" /\ ill' \in BOOLEAN /\ failed' \in BOOLEAN /\ (ill => ill')
          /\ \A d \in Drivers : d # who => sees'[d] = sees[d]
          /\ sees' \in [Drivers -> [up : BOOLEAN, block : BOOLEAN, size : SizesSeen]]
          /\ sees'[who].block = sees[who].block
          /\ sees'[who].up /\ ~card.busy => card.mode = "ready"
          /\ failed' /\ ~ill' /\ ~card.busy /\ card.kind # "none" => card.mode # "ready"
          /\ UNCHANGED <<who, tries, v2, mmc, blind, changed, moved>>
      <3>1. PICK e \in Exchange("CMD16", 0) :
              /\ Heard([e EXCEPT !.card = Done(e.card)])
              /\ sees' = [sees EXCEPT ![who].up = e.r = Ok]
              /\ IF e.r = Ok THEN Works ELSE Fails
        BY <1>7 DEF BlockLength
      <3>2. sdAt = "CMD16" /\ UNCHANGED <<who, tries, v2, mmc, blind, changed, moved>>
        BY <1>7 DEF BlockLength, Same
      <3>3. /\ e.lost \in 0..1
            /\ Alike(e.card) /\ e.card.busy = card.busy /\ e.card.mode = card.mode
            /\ e.r = Ok /\ ~card.busy => card.mode = "ready"
            /\ e.lost = 0 /\ ~card.busy /\ card.kind # "none" /\ card.mode = "ready" => e.r = Ok
        BY <1>0, BlockIs DEF Doings
      <3>4. card' = Done(e.card) /\ ill' = (ill \/ e.lost = 1)
        <4>1. e \in [r : {e.r}, card : {e.card}, lost : {e.lost}]
          BY DEF Exchange
        <4> QED  BY <3>1, <4>1 DEF Heard
      <3>5. /\ \A d \in Drivers : d # who => sees'[d] = sees[d]
            /\ sees' \in [Drivers -> [up : BOOLEAN, block : BOOLEAN, size : SizesSeen]]
            /\ sees'[who].block = sees[who].block /\ (sees'[who].up <=> e.r = Ok)
        <4> DEFINE u == e.r = Ok
        <4>1. u \in BOOLEAN /\ sees' = [sees EXCEPT ![who].up = u] /\ (u <=> e.r = Ok)
          BY <3>1
        <4> HIDE DEF u
        <4>2. /\ sees' \in [Drivers -> [up : BOOLEAN, block : BOOLEAN, size : SizesSeen]]
              /\ \A d \in Drivers : d # who => sees'[d] = sees[d]
              /\ sees'[who].block = sees[who].block /\ sees'[who].up = u
          BY <1>0, <4>1
        <4> QED  BY <4>1, <4>2
      <3>6. (ill => ill') /\ ill' \in BOOLEAN /\ (~ill' => e.lost = 0)
        <4>1. (ill' <=> ill \/ e.lost = 1) /\ ill' \in BOOLEAN
          BY <3>4
        <4> QED  BY <3>3, <4>1
      <3> QED  BY <1>0, <3>1, <3>2, <3>3, <3>4, <3>5, <3>6, DoneIs DEF Works, Fails, StepTo, Alike
    <2>1. SdTypes'
      BY <1>0, <2>0 DEF SdTypes, SdPlaces, CardSet
    <2>2. SeesTheCard'
      BY <1>0, <2>0 DEF SeesTheCard, InABringUp
    <2>3. InABringUp'
      BY <1>0, <2>0 DEF InABringUp, SdPlaces
    <2>4. EndsReady'
      BY <1>0, <2>0 DEF EndsReady, InABringUp
    <2>5. OnItsWay'
      BY <1>0, <2>0 DEF OnItsWay, InABringUp, Takes, SdPlaces, Kinds
    <2>6. SectorsAreTheOnesAskedFor'
      BY <1>0, <2>0 DEF SectorsAreTheOnesAskedFor
    <2>7. GoodCardsWork'
      BY <1>0, <2>0 DEF GoodCardsWork, SoundCallsWork, Ready, OnItsWay, Takes
    <2> QED  BY <2>1, <2>2, <2>3, <2>4, <2>5, <2>6, <2>7 DEF CardInv
  <1>8. CASE Registers
    <2>0. /\ card' \in CardSet /\ card'.doing = "nothing" /\ card'.kind = card.kind /\ card'.csd = card.csd
          /\ card'.busy = card.busy /\ card'.mode = card.mode
          /\ sdAt = "registers" /\ sdAt' = "idle" /\ ill' \in BOOLEAN /\ failed' \in BOOLEAN /\ (ill => ill')
          /\ \A d \in Drivers : d # who => sees'[d] = sees[d]
          /\ sees' \in [Drivers -> [up : BOOLEAN, block : BOOLEAN, size : SizesSeen]]
          /\ sees'[who].block = sees[who].block
          /\ ~failed' => /\ card.mode = "ready"
                          /\ sees'[who].size = IF who = "rows" THEN RowsCapacity(card.csd)
                                               ELSE ReportCapacity(card.csd)
          /\ failed' => sees' = sees
          /\ failed' /\ ~ill' /\ ~card.busy /\ card.kind # "none" => card.mode # "ready"
          /\ UNCHANGED <<who, tries, v2, mmc, blind, changed, moved>>
      <3> DEFINE size == IF who = "rows" THEN RowsCapacity(card.csd) ELSE ReportCapacity(card.csd)
                 Got(e, late) == e.r = Ok /\ Accepts(e.card, "CMD9") /\ late = 0
      <3>1. PICK e \in Exchange("CMD9", 0), late \in 0..1 :
              /\ card' = Done(e.card) /\ ill' = (ill \/ e.lost + late > 0)
              /\ sees' = IF Got(e, late) THEN [sees EXCEPT ![who].up = TRUE, ![who].size = size] ELSE sees
              /\ IF Got(e, late) THEN Works ELSE Fails
        BY <1>8 DEF Registers
      <3>2. sdAt = "registers" /\ UNCHANGED <<who, tries, v2, mmc, blind, changed, moved>>
        BY <1>8 DEF Registers, Same
      <3>3. /\ e.lost \in 0..1
            /\ Alike(e.card) /\ e.card.busy = card.busy /\ e.card.mode = card.mode
            /\ e.r = Ok /\ Accepts(e.card, "CMD9") => card.mode = "ready"
            /\ e.lost = 0 /\ ~card.busy /\ card.kind # "none" /\ card.mode = "ready" =>
                 e.r = Ok /\ Accepts(e.card, "CMD9")
        BY <1>0, BlockIs DEF Doings
      <3>4. size \in SizesSeen
        BY <1>0 DEF SizesSeen
      <3>5. (ill => ill') /\ ill' \in BOOLEAN /\ (~ill' => e.lost = 0 /\ late = 0)
        <4>1. (ill' <=> ill \/ e.lost + late > 0) /\ ill' \in BOOLEAN
          BY <3>1
        <4> QED  BY <3>3, <4>1
      <3>6. Got(e, late) => card.mode = "ready"
        BY <3>3
      <3>7. ~ill' /\ ~card.busy /\ card.kind # "none" /\ card.mode = "ready" => Got(e, late)
        BY <3>3, <3>5
      <3> HIDE DEF size, Got
      <3>8. /\ \A d \in Drivers : d # who => sees'[d] = sees[d]
            /\ sees' \in [Drivers -> [up : BOOLEAN, block : BOOLEAN, size : SizesSeen]]
            /\ sees'[who].block = sees[who].block
            /\ Got(e, late) => sees'[who].size = size
            /\ ~Got(e, late) => sees' = sees
        BY <1>0, <3>1, <3>4
      <3>9. sdAt' = "idle" /\ failed' \in BOOLEAN /\ (failed' <=> ~Got(e, late))
        BY <3>1 DEF Works, Fails, StepTo
      <3> QED  BY <1>0, <3>1, <3>2, <3>3, <3>5, <3>6, <3>7, <3>8, <3>9, DoneIs DEF Alike, size
    <2>1. SdTypes'
      BY <1>0, <2>0 DEF SdTypes, SdPlaces, CardSet
    <2>2. SeesTheCard'
      <3> SUFFICES ASSUME NEW d \in Drivers, sees'[d].up, ~changed'[d]
                   PROVE  /\ blind'[d] \/ (sees'[d].block <=> card'.kind = "sdhc")
                          /\ d # "fatfs" /\ Fits(card'.csd) => sees'[d].size = RowsCapacity(card'.csd)
        BY DEF SeesTheCard
      <3>1. CASE d # who \/ failed'
        BY <1>0, <2>0, <3>1 DEF SeesTheCard
      <3>2. CASE d = who /\ ~failed'
        <4>1. blind'[d] \/ (sees'[d].block <=> card'.kind = "sdhc")
          <5>1. CASE v2
            BY <1>0, <2>0, <3>2, <5>1 DEF InABringUp
          <5>2. CASE ~v2
            BY <1>0, <2>0, <3>2, <5>2 DEF InABringUp
          <5> QED  BY <5>1, <5>2, <1>0
        <4>2. Fits(card.csd) => sees'[who].size = RowsCapacity(card.csd)
          BY <1>0, <2>0, <3>2, CardsHeld
        <4> QED  BY <2>0, <3>2, <4>1, <4>2
      <3> QED  BY <1>0, <2>0, <3>1, <3>2
    <2>3. InABringUp'
      BY <1>0, <2>0 DEF InABringUp, SdPlaces
    <2>4. EndsReady'
      BY <1>0, <2>0 DEF EndsReady, InABringUp
    <2>5. OnItsWay'
      BY <1>0, <2>0 DEF OnItsWay, InABringUp, Takes, SdPlaces, Kinds
    <2>6. SectorsAreTheOnesAskedFor'
      BY <1>0, <2>0 DEF SectorsAreTheOnesAskedFor
    <2>7. GoodCardsWork'
      BY <1>0, <2>0 DEF GoodCardsWork, SoundCallsWork, Ready, OnItsWay, Takes
    <2> QED  BY <2>1, <2>2, <2>3, <2>4, <2>5, <2>6, <2>7 DEF CardInv
  <1>9. CASE \E d \in Drivers, lba \in Sectors : Read(d, lba)
    <2>0. /\ card' \in CardSet /\ card'.doing = "nothing" /\ card'.kind = card.kind /\ card'.csd = card.csd
          /\ card'.mode = card.mode /\ sdAt = "idle" /\ sdAt' = "idle" /\ who' \in Drivers /\ tries' = 0
          /\ ill' \in BOOLEAN /\ failed' \in BOOLEAN /\ sees[who'].up
          /\ ~failed' => card.mode = "ready"
          /\ SectorsAreTheOnesAskedFor'
          /\ failed' /\ ~ill' /\ ~changed[who'] /\ ~blind[who'] /\ card.kind # "none" =>
               card.mode # "ready" \/ astray'
          /\ UNCHANGED <<v2, mmc, sees, blind, changed>>
      <3>1. PICK d \in Drivers, lba \in Sectors : Read(d, lba)
        BY <1>9
      <3> DEFINE p == Place(lba, sees[d].block)
                 Got(e, late, refused) == e.r = Ok /\ Accepts(e.card, "CMD17") /\ late = 0 /\ ~refused
      <3>2. /\ who' = d /\ tries' = 0 /\ sdAt = "idle" /\ sees[d].up
            /\ UNCHANGED <<v2, mmc, sees, blind, changed>>
        BY <3>1 DEF Read, CanTransfer
      <3>3. PICK e \in Exchange("CMD17", p), late \in 0..1, refused \in BOOLEAN :
              /\ refused => e.card.place = Elsewhere
              /\ card' = Done(e.card) /\ ill' = (card.busy \/ e.lost + late > 0)
              /\ IF Got(e, late, refused) THEN Works /\ Asked(d, lba, e.card.place)
                 ELSE Fails /\ UNCHANGED moved
        BY <3>1 DEF Read
      <3>4. p \in 0..2 /\ (blind[d] \/ changed[d] \/ p = lba) /\ (p = lba => p # Elsewhere)
        <4>1. ~blind[d] /\ ~changed[d] => (sees[d].block <=> card.kind = "sdhc")
          BY <1>0, <3>2 DEF SeesTheCard
        <4>2. sees[d].block \in BOOLEAN
          BY <1>0
        <4> QED  BY <1>0, <4>1, <4>2 DEF Place, Sectors, Elsewhere
      <3> HIDE DEF p
      <3>5. /\ e.lost \in 0..1 /\ (e.lost = 1 => e.r = Silent)
            /\ Alike(e.card) /\ e.card.busy = card.busy /\ e.card.mode = card.mode
            /\ e.r = Ok /\ Accepts(e.card, "CMD17") => card.mode = "ready" /\ e.card.place = p
            /\ e.lost = 0 /\ ~card.busy /\ card.kind # "none" /\ card.mode = "ready" =>
                 e.r = Ok /\ Accepts(e.card, "CMD17")
        BY <1>0, <3>4, BlockIs DEF Doings, Moving
      <3>6. ill' \in BOOLEAN /\ (~ill' => e.lost = 0 /\ late = 0 /\ ~card.busy)
        <4>1. (ill' <=> card.busy \/ e.lost + late > 0) /\ ill' \in BOOLEAN
          BY <3>3
        <4> QED  BY <3>5, <4>1
      <3>7. ~ill' /\ ~changed[d] /\ ~blind[d] /\ card.kind # "none" /\ card.mode = "ready" =>
              Got(e, late, refused)
        <4> SUFFICES ASSUME ~ill', ~changed[d], ~blind[d], card.kind # "none", card.mode = "ready"
                     PROVE  e.r = Ok /\ Accepts(e.card, "CMD17") /\ late = 0 /\ ~refused
          OBVIOUS
        <4>1. e.r = Ok /\ Accepts(e.card, "CMD17") /\ late = 0
          BY <3>5, <3>6
        <4>2. e.card.place = lba /\ e.card.place # Elsewhere
          BY <1>0, <3>4, <3>5, <4>1
        <4> QED  BY <3>3, <4>1, <4>2
      <3>8. Got(e, late, refused) => card.mode = "ready" /\ e.card.place = p
        BY <3>5
      <3> HIDE DEF Got
      <3>9. Got(e, late, refused) =>
              moved'.excused \/ (moved'.place = moved'.lba /\ moved'.mode = "ready")
        <4> DEFINE x == blind[d] \/ changed[d]
        <4>1. x \in BOOLEAN /\ (x <=> blind[d] \/ changed[d])
          OBVIOUS
        <4>2. Got(e, late, refused) =>
                moved' = [lba |-> lba, place |-> e.card.place, mode |-> card.mode, excused |-> x]
          BY <3>3 DEF Asked
        <4> HIDE DEF x
        <4>3. Got(e, late, refused) =>
                /\ moved'.excused = x /\ moved'.place = e.card.place /\ moved'.lba = lba
                /\ moved'.mode = card.mode
          BY <4>2
        <4> QED  BY <3>4, <3>8, <4>1, <4>3
      <3> QED  BY <1>0, <3>2, <3>3, <3>5, <3>6, <3>7, <3>8, <3>9, DoneIs
               DEF Alike, Works, Fails, StepTo, SectorsAreTheOnesAskedFor
    <2>1. SdTypes'
      BY <1>0, <2>0 DEF SdTypes, SdPlaces, CardSet
    <2>2. SeesTheCard'
      BY <1>0, <2>0 DEF SeesTheCard
    <2>3. InABringUp'
      BY <1>0, <2>0 DEF InABringUp, SdPlaces
    <2>4. EndsReady'
      BY <1>0, <2>0 DEF EndsReady, InABringUp
    <2>5. OnItsWay'
      BY <1>0, <2>0 DEF OnItsWay, InABringUp, Takes, SdPlaces, Kinds
    <2>6. SectorsAreTheOnesAskedFor'
      BY <1>0, <2>0 DEF SectorsAreTheOnesAskedFor
    <2>7. GoodCardsWork'
      BY <1>0, <2>0 DEF GoodCardsWork, SoundCallsWork, Ready, OnItsWay, Takes
    <2> QED  BY <2>1, <2>2, <2>3, <2>4, <2>5, <2>6, <2>7 DEF CardInv
  <1>10. CASE Speed
    <2>0. /\ card' \in CardSet /\ card'.doing = "nothing" /\ card'.kind = card.kind /\ card'.csd = card.csd
          /\ card'.mode = card.mode /\ sdAt = "idle" /\ sdAt' = "idle" /\ who' \in Drivers /\ tries' = 0
          /\ ill' \in BOOLEAN /\ failed' \in BOOLEAN /\ sees[who'].up
          /\ ~failed' => card.mode = "ready"
          /\ SectorsAreTheOnesAskedFor'
          /\ failed' /\ ~ill' /\ ~changed[who'] /\ ~blind[who'] /\ card.kind # "none" =>
               card.mode # "ready" \/ astray'
          /\ UNCHANGED <<v2, mmc, sees, blind, changed>>
      <3> DEFINE Got(e, late) == e.r = Ok /\ Accepts(e.card, "CMD18") /\ late = 0
      <3>1. PICK e \in Exchange("CMD18", 0), late \in 0..1, aligned \in BOOLEAN :
              /\ card' = Done(e.card) /\ ill' = (card.busy \/ e.lost + late > 0)
              /\ astray' = (Got(e, late) /\ ~aligned)
              /\ IF Got(e, late) /\ aligned THEN Works /\ Asked("rows", 0, e.card.place)
                 ELSE Fails /\ UNCHANGED moved
        BY <1>10 DEF Speed
      <3>2. /\ who' = "rows" /\ tries' = 0 /\ sdAt = "idle" /\ sees["rows"].up
            /\ UNCHANGED <<v2, mmc, sees, blind, changed>>
        BY <1>10 DEF Speed, CanTransfer
      <3>3. /\ e.lost \in 0..1 /\ (e.lost = 1 => e.r = Silent)
            /\ Alike(e.card) /\ e.card.busy = card.busy /\ e.card.mode = card.mode
            /\ e.r = Ok /\ Accepts(e.card, "CMD18") => card.mode = "ready" /\ e.card.place = 0
            /\ e.lost = 0 /\ ~card.busy /\ card.kind # "none" /\ card.mode = "ready" =>
                 e.r = Ok /\ Accepts(e.card, "CMD18")
        BY <1>0, BlockIs DEF Doings, Moving
      <3>4. ill' \in BOOLEAN /\ (~ill' => e.lost = 0 /\ late = 0 /\ ~card.busy)
        <4>1. (ill' <=> card.busy \/ e.lost + late > 0) /\ ill' \in BOOLEAN
          BY <3>1
        <4> QED  BY <3>3, <4>1
      <3>5. ~ill' /\ card.kind # "none" /\ card.mode = "ready" => Got(e, late)
        BY <3>3, <3>4
      <3>6. Got(e, late) => card.mode = "ready" /\ e.card.place = 0
        BY <3>3
      <3> HIDE DEF Got
      <3>7. Got(e, late) /\ aligned =>
              moved'.excused \/ (moved'.place = moved'.lba /\ moved'.mode = "ready")
        BY <3>1, <3>6 DEF Asked
      <3> QED  BY <1>0, <3>1, <3>2, <3>3, <3>4, <3>5, <3>6, <3>7, DoneIs
               DEF Alike, Works, Fails, StepTo, Drivers, SectorsAreTheOnesAskedFor
    <2>1. SdTypes'
      BY <1>0, <2>0 DEF SdTypes, SdPlaces, CardSet
    <2>2. SeesTheCard'
      BY <1>0, <2>0 DEF SeesTheCard
    <2>3. InABringUp'
      BY <1>0, <2>0 DEF InABringUp, SdPlaces
    <2>4. EndsReady'
      BY <1>0, <2>0 DEF EndsReady, InABringUp
    <2>5. OnItsWay'
      BY <1>0, <2>0 DEF OnItsWay, InABringUp, Takes, SdPlaces, Kinds
    <2>6. SectorsAreTheOnesAskedFor'
      BY <1>0, <2>0 DEF SectorsAreTheOnesAskedFor
    <2>7. GoodCardsWork'
      BY <1>0, <2>0 DEF GoodCardsWork, SoundCallsWork, Ready, OnItsWay, Takes
    <2> QED  BY <2>1, <2>2, <2>3, <2>4, <2>5, <2>6, <2>7 DEF CardInv
  <1>11. CASE \E d \in Drivers, lba \in Sectors : Write(d, lba)
    <2>0. /\ card' \in CardSet /\ card'.doing = "nothing" /\ card'.kind = card.kind /\ card'.csd = card.csd
          /\ card'.mode = card.mode /\ sdAt = "idle" /\ sdAt' = "idle" /\ who' \in Drivers /\ tries' = 0
          /\ ill' \in BOOLEAN /\ failed' \in BOOLEAN /\ sees[who'].up
          /\ ~failed' => card.mode = "ready"
          /\ SectorsAreTheOnesAskedFor'
          /\ failed' /\ ~ill' /\ ~changed[who'] /\ ~blind[who'] /\ card.kind # "none" =>
               card.mode # "ready" \/ astray'
          /\ UNCHANGED <<v2, mmc, sees, blind, changed>>
      <3>1. PICK d \in Drivers, lba \in Sectors : Write(d, lba)
        BY <1>11
      <3> DEFINE p == Place(lba, sees[d].block)
                 Took(e, refused) == e.r = Ok /\ Accepts(e.card, "CMD24") /\ ~refused
      <3>2. /\ who' = d /\ tries' = 0 /\ sdAt = "idle" /\ sees[d].up
            /\ UNCHANGED <<v2, mmc, sees, blind, changed>>
        BY <3>1 DEF Write, CanTransfer
      <3>3. PICK e \in Exchange("CMD24", p), slow \in 0..1, refused \in BOOLEAN :
              /\ refused => e.card.place = Elsewhere
              /\ card' = [Done(e.card) EXCEPT !.busy = @ \/ slow = 1]
              /\ ill' = (card.busy \/ e.lost + slow > 0)
              /\ IF Took(e, refused) /\ slow = 0 THEN Works /\ Asked(d, lba, e.card.place)
                 ELSE Fails /\ UNCHANGED moved
        BY <3>1 DEF Write
      <3>4. p \in 0..2 /\ (blind[d] \/ changed[d] \/ p = lba) /\ (p = lba => p # Elsewhere)
        <4>1. ~blind[d] /\ ~changed[d] => (sees[d].block <=> card.kind = "sdhc")
          BY <1>0, <3>2 DEF SeesTheCard
        <4>2. sees[d].block \in BOOLEAN
          BY <1>0
        <4> QED  BY <1>0, <4>1, <4>2 DEF Place, Sectors, Elsewhere
      <3> HIDE DEF p
      <3>5. /\ e.lost \in 0..1 /\ (e.lost = 1 => e.r = Silent)
            /\ Alike(e.card) /\ e.card.busy = card.busy /\ e.card.mode = card.mode
            /\ e.r = Ok /\ Accepts(e.card, "CMD24") => card.mode = "ready" /\ e.card.place = p
            /\ e.lost = 0 /\ ~card.busy /\ card.kind # "none" /\ card.mode = "ready" =>
                 e.r = Ok /\ Accepts(e.card, "CMD24")
        BY <1>0, <3>4, BlockIs DEF Doings, Moving
      <3>6. ill' \in BOOLEAN /\ (~ill' => e.lost = 0 /\ slow = 0 /\ ~card.busy)
        <4>1. (ill' <=> card.busy \/ e.lost + slow > 0) /\ ill' \in BOOLEAN
          BY <3>3
        <4> QED  BY <3>5, <4>1
      <3>7. ~ill' /\ ~changed[d] /\ ~blind[d] /\ card.kind # "none" /\ card.mode = "ready" =>
              Took(e, refused) /\ slow = 0
        <4> SUFFICES ASSUME ~ill', ~changed[d], ~blind[d], card.kind # "none", card.mode = "ready"
                     PROVE  e.r = Ok /\ Accepts(e.card, "CMD24") /\ slow = 0 /\ ~refused
          OBVIOUS
        <4>1. e.r = Ok /\ Accepts(e.card, "CMD24") /\ slow = 0
          BY <3>5, <3>6
        <4>2. e.card.place = lba /\ e.card.place # Elsewhere
          BY <1>0, <3>4, <3>5, <4>1
        <4> QED  BY <3>3, <4>1, <4>2
      <3>8. Took(e, refused) => card.mode = "ready" /\ e.card.place = p
        BY <3>5
      <3> HIDE DEF Took
      <3>9. Took(e, refused) /\ slow = 0 =>
              /\ moved'.excused \/ (moved'.place = moved'.lba /\ moved'.mode = "ready")
        <4> DEFINE x == blind[d] \/ changed[d]
        <4>2. x \in BOOLEAN /\ (x <=> blind[d] \/ changed[d])
          OBVIOUS
        <4>3. Took(e, refused) /\ slow = 0 =>
                moved' = [lba |-> lba, place |-> e.card.place, mode |-> card.mode, excused |-> x]
          BY <3>3 DEF Asked
        <4> HIDE DEF x
        <4>4. Took(e, refused) /\ slow = 0 =>
                /\ moved'.excused = x /\ moved'.place = e.card.place /\ moved'.lba = lba
                /\ moved'.mode = card.mode
          BY <4>3
        <4> QED  BY <3>4, <3>8, <4>2, <4>4
      <3>10. /\ card' \in CardSet /\ card'.doing = "nothing" /\ card'.kind = card.kind
             /\ card'.csd = card.csd /\ card'.mode = card.mode
        <4>1. /\ Done(e.card) \in CardSet /\ Done(e.card).doing = "nothing" /\ Done(e.card).mode = card.mode
              /\ Done(e.card).kind = card.kind /\ Done(e.card).csd = card.csd
              /\ Done(e.card).busy \in BOOLEAN
          BY <1>0, <3>5, DoneIs DEF Alike
        <4>2. (Done(e.card).busy \/ slow = 1) \in BOOLEAN
          OBVIOUS
        <4> QED  BY <3>3, <4>1, <4>2 DEF CardSet
      <3> QED  BY <1>0, <3>2, <3>3, <3>6, <3>7, <3>8, <3>9, <3>10
               DEF Works, Fails, StepTo, SectorsAreTheOnesAskedFor
    <2>1. SdTypes'
      BY <1>0, <2>0 DEF SdTypes, SdPlaces, CardSet
    <2>2. SeesTheCard'
      BY <1>0, <2>0 DEF SeesTheCard
    <2>3. InABringUp'
      BY <1>0, <2>0 DEF InABringUp, SdPlaces
    <2>4. EndsReady'
      BY <1>0, <2>0 DEF EndsReady, InABringUp
    <2>5. OnItsWay'
      BY <1>0, <2>0 DEF OnItsWay, InABringUp, Takes, SdPlaces, Kinds
    <2>6. SectorsAreTheOnesAskedFor'
      BY <1>0, <2>0 DEF SectorsAreTheOnesAskedFor
    <2>7. GoodCardsWork'
      BY <1>0, <2>0 DEF GoodCardsWork, SoundCallsWork, Ready, OnItsWay, Takes
    <2> QED  BY <2>1, <2>2, <2>3, <2>4, <2>5, <2>6, <2>7 DEF CardInv
  <1>12. CASE Release
    <2>0. /\ \A d \in Drivers : sees'[d].up => sees'[d] = sees[d]
          /\ sees' \in [Drivers -> [up : BOOLEAN, block : BOOLEAN, size : SizesSeen]] /\ sdAt = "idle"
          /\ UNCHANGED <<card, who, sdAt, tries, v2, mmc, failed, ill, blind, changed, moved, astray>>
      <3>1. Unseen \in [up : BOOLEAN, block : BOOLEAN, size : SizesSeen] /\ ~Unseen.up
        BY DEF Unseen, SizesSeen
      <3> QED  BY <1>0, <1>12, <3>1 DEF Release, histVars, Drivers
    <2>1. SdTypes'
      BY <1>0, <2>0 DEF SdTypes, SdPlaces, CardSet
    <2>2. SeesTheCard'
      BY <1>0, <2>0 DEF SeesTheCard
    <2>3. InABringUp'
      BY <1>0, <2>0 DEF InABringUp, SdPlaces
    <2>4. EndsReady'
      BY <1>0, <2>0 DEF EndsReady, InABringUp
    <2>5. OnItsWay'
      BY <1>0, <2>0 DEF OnItsWay, InABringUp, Takes, SdPlaces, Kinds
    <2>6. SectorsAreTheOnesAskedFor'
      BY <1>0, <2>0 DEF SectorsAreTheOnesAskedFor
    <2>7. GoodCardsWork'
      BY <1>0, <2>0 DEF GoodCardsWork, SoundCallsWork, Ready, OnItsWay, Takes
    <2> QED  BY <2>1, <2>2, <2>3, <2>4, <2>5, <2>6, <2>7 DEF CardInv
  <1>13. CASE Settles
    <2>0. /\ card' \in CardSet /\ card'.doing = "nothing" /\ card'.kind = card.kind /\ card'.csd = card.csd
          /\ card'.mode = card.mode /\ ~card'.busy /\ card'.polls = card.polls /\ card.busy /\ ill' = TRUE
          /\ UNCHANGED <<who, sdAt, tries, v2, mmc, sees, failed, blind, changed, moved, astray>>
      BY <1>0, <1>13 DEF Settles, callVars, histVars, CardSet
    <2>1. SdTypes'
      BY <1>0, <2>0 DEF SdTypes, SdPlaces, CardSet
    <2>2. SeesTheCard'
      BY <1>0, <2>0 DEF SeesTheCard
    <2>3. InABringUp'
      BY <1>0, <2>0 DEF InABringUp, SdPlaces
    <2>4. EndsReady'
      BY <1>0, <2>0 DEF EndsReady, InABringUp
    <2>5. OnItsWay'
      BY <1>0, <2>0 DEF OnItsWay, InABringUp, Takes, SdPlaces, Kinds
    <2>6. SectorsAreTheOnesAskedFor'
      BY <1>0, <2>0 DEF SectorsAreTheOnesAskedFor
    <2>7. GoodCardsWork'
      BY <1>0, <2>0 DEF GoodCardsWork, SoundCallsWork, Ready, OnItsWay, Takes
    <2> QED  BY <2>1, <2>2, <2>3, <2>4, <2>5, <2>6, <2>7 DEF CardInv
  <1>14. CASE Swap
    <2>0. /\ card' \in CardSet /\ card'.doing = "nothing" /\ sdAt = "idle"
          /\ changed' \in [Drivers -> BOOLEAN] /\ \A d \in Drivers : changed'[d]
          /\ UNCHANGED <<who, sdAt, tries, v2, mmc, sees, failed, ill, blind, moved, astray>>
      <3>1. \A k \in Cards : Fresh(k) \in CardSet /\ Fresh(k).doing = "nothing"
        BY SdAssumption DEF Fresh, CardSet, Csds, Doings
      <3> QED  BY <1>0, <1>14, <3>1 DEF Swap, callVars
    <2>1. SdTypes'
      BY <1>0, <2>0 DEF SdTypes, SdPlaces, CardSet
    <2>2. SeesTheCard'
      BY <1>0, <2>0 DEF SeesTheCard
    <2>3. InABringUp'
      BY <1>0, <2>0 DEF InABringUp, SdPlaces
    <2>4. EndsReady'
      BY <1>0, <2>0 DEF EndsReady, InABringUp
    <2>5. OnItsWay'
      BY <1>0, <2>0 DEF OnItsWay, InABringUp, Takes, SdPlaces, Kinds
    <2>6. SectorsAreTheOnesAskedFor'
      BY <1>0, <2>0 DEF SectorsAreTheOnesAskedFor
    <2>7. GoodCardsWork'
      BY <1>0, <2>0 DEF GoodCardsWork, SoundCallsWork, Ready, OnItsWay, Takes
    <2> QED  BY <2>1, <2>2, <2>3, <2>4, <2>5, <2>6, <2>7 DEF CardInv
  <1>15. CASE UNCHANGED sdVars
    <2>0. UNCHANGED <<card, who, sdAt, tries, v2, mmc, sees, failed, ill, blind, changed, moved, astray>>
      BY <1>15 DEF sdVars, callVars, histVars
    <2>1. SdTypes'
      BY <1>0, <2>0 DEF SdTypes, SdPlaces, CardSet
    <2>2. SeesTheCard'
      BY <1>0, <2>0 DEF SeesTheCard
    <2>3. InABringUp'
      BY <1>0, <2>0 DEF InABringUp, SdPlaces
    <2>4. EndsReady'
      BY <1>0, <2>0 DEF EndsReady, InABringUp
    <2>5. OnItsWay'
      BY <1>0, <2>0 DEF OnItsWay, InABringUp, Takes, SdPlaces, Kinds
    <2>6. SectorsAreTheOnesAskedFor'
      BY <1>0, <2>0 DEF SectorsAreTheOnesAskedFor
    <2>7. GoodCardsWork'
      BY <1>0, <2>0 DEF GoodCardsWork, SoundCallsWork, Ready, OnItsWay, Takes
    <2> QED  BY <2>1, <2>2, <2>3, <2>4, <2>5, <2>6, <2>7 DEF CardInv
  <1>16. \A lba \in Sectors : SdblockRead(lba) \/ DiskRead(lba) => \E d \in Drivers : Read(d, lba)
    BY DEF SdblockRead, DiskRead, Drivers
  <1>17. \A lba \in Sectors : SdblockWrite(lba) => \E d \in Drivers : Write(d, lba)
    BY DEF SdblockWrite, Drivers
  <1>18. /\ ReadRow \/ ReadLast => \E d \in Drivers, lba \in Sectors : Read(d, lba)
         /\ WriteRow => \E d \in Drivers, lba \in Sectors : Write(d, lba)
         /\ IdentifyCard \/ SdblockInit \/ DiskInitialize => \E d \in Drivers : BringUp(d)
    BY DEF ReadRow, ReadLast, WriteRow, IdentifyCard, SdblockInit, DiskInitialize, Drivers, Sectors
  <1> QED  BY <1>1, <1>2, <1>3, <1>4, <1>5, <1>6, <1>7, <1>8, <1>9, <1>10, <1>11, <1>12, <1>13, <1>14,
              <1>15, <1>16, <1>17, <1>18 DEF SdNext

(* It holds of a socket nobody has looked at.                                *)
LEMMA CardStarts ==
  ASSUME NEW cards \in SUBSET (Cards \cup {EmptySocket}), SdInit(cards)
  PROVE  CardInv
  <1>1. card \in CardSet /\ card.doing = "nothing"
    <2>1. PICK k \in Cards \cup {EmptySocket} : card = Fresh(k)
      BY DEF SdInit
    <2>2. k.kind \in Kinds /\ k.csd \in Csds
      BY SdAssumption DEF EmptySocket, Csds, Kinds
    <2> QED  BY <2>1, <2>2 DEF Fresh, CardSet, Doings
  <1>2. Unseen \in [up : BOOLEAN, block : BOOLEAN, size : SizesSeen] /\ ~Unseen.up
    BY DEF Unseen, SizesSeen
  <1>3. SdTypes
    BY <1>1, <1>2 DEF SdInit, SdTypes, Drivers, SdPlaces
  <1>4. SeesTheCard /\ InABringUp /\ EndsReady /\ OnItsWay
    BY <1>2 DEF SdInit, SeesTheCard, InABringUp, EndsReady, OnItsWay, Drivers
  <1>5. SectorsAreTheOnesAskedFor /\ GoodCardsWork
    BY DEF SdInit, SectorsAreTheOnesAskedFor, GoodCardsWork, SoundCallsWork
  <1> QED  BY <1>3, <1>4, <1>5 DEF CardInv

(* Of every card and every driver, whatever gets lost, however slow the card *)
(* and whenever it is changed.                                               *)
THEOREM CardInvariance == Spec => []CardInv
  <1>1. Init => CardInv
    <2>1. ASSUME Init PROVE SdInit(Cards) \/ SdInit({EmptySocket})
      BY <2>1 DEF Init
    <2> QED  BY <2>1, CardStarts
  <1>2. CardInv /\ [Next]_vars => CardInv'
    BY CardKeeps DEF Next, vars
  <1> QED  BY <1>1, <1>2, PTL DEF Spec

(* A call that works leaves a card that is ready and of the size its         *)
(* register says; what was moved was the sector asked for; and a sound card  *)
(* to which nothing happened is not refused (tests_sd.c, sdblock.c,          *)
(* drivers/sdcard of the bring-up image).                                    *)
THEOREM CardsTrue == Spec => []CardsAreTrue
  <1>1. CardInv => CardsAreTrue
    <2> SUFFICES ASSUME CardInv PROVE CardsAreTrue
      OBVIOUS
    <2>1. UpMeansReady
      BY DEF CardInv, EndsReady, SeesTheCard, UpMeansReady, Ready, SdTypes
    <2> QED  BY <2>1 DEF CardInv, CardsAreTrue
  <1> QED  BY <1>1, CardInvariance, PTL
=============================================================================
