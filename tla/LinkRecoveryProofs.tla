------------------------- MODULE LinkRecoveryProofs -------------------------
(***************************************************************************)
(* What TLAPS proves of LinkRecovery, for every choice of times, tick      *)
(* phases and numbers of mishaps.                                          *)
(***************************************************************************)
EXTENDS LinkRecovery, TLAPS

PlaceOK ==
  /\ at' \in {"idle", "probe", "pulse", "retry", "sweep", "pause"}
  /\ job' \in Job
  /\ n' \in Nat /\ wait' \in Nat

RowOK ==
  /\ todo' \in {<<>>, <<"reset">>, <<"soak", "reset">>}
  /\ spell' \in Nat
  /\ contacted' \in BOOLEAN /\ pulsed' \in BOOLEAN
  /\ verdict' \in {"none", "tested", "asked", "soaked", "silent", "dead", "back", "ignored", "gone"}
  /\ reboots' \in 0..2

(* Turning to something leaves the master at a place of its program.       *)
LEMMA DoPlace ==
  ASSUME NEW what \in {"idle", "probe", "pulse", "retry", "sweep", "pause"},
         NEW for \in Job, NEW k \in Nat, NEW t \in Nat, Do(what, for, k, t)
  PROVE  PlaceOK
BY DEF Do, PlaceOK

(* A probe is a place of the program.                                    *)
LEMMA ProbePlace ==
  ASSUME NEW for \in Job, NEW k \in Nat, Probe(for, k)
  PROVE  PlaceOK
<1>1. HelloMs \in Nat /\ ProbeMs \in Nat BY RecoveryAssumption
<1> QED BY <1>1, DoPlace DEF Probe

(* Nothing to do is a place too.                                         *)
LEMMA RestPlace == Rest => PlaceOK
BY DoPlace DEF Rest, Job

(* The rows of the link, and their heads and tails.                      *)
LEMMA Lists ==
  /\ LinkRows = <<"link", "soak", "reset">>
  /\ Head(LinkRows) = "link" /\ Tail(LinkRows) = <<"soak", "reset">>
  /\ Head(<<"soak", "reset">>) = "soak" /\ Tail(<<"soak", "reset">>) = <<"reset">>
  /\ \A r \in STRING : Head(<<r>>) = r /\ Tail(<<r>>) = <<>>
<1>1. Tail(LinkRows) = <<"soak", "reset">> BY DEF LinkRows
<1>2. Tail(<<"soak", "reset">>) = <<"reset">> OBVIOUS
<1>3. \A r \in STRING : Tail(<<r>>) = <<>> OBVIOUS
<1> QED BY <1>1, <1>2, <1>3 DEF LinkRows

(* A run of rows begins with a well-formed list of them.                   *)
LEMMA RunRowsOK ==
  ASSUME TypeOK,
         NEW rows \in {LinkRows, <<"link">>, <<"soak">>, <<"reset">>, <<"soak", "reset">>},
         RunRows(rows)
  PROVE  /\ PlaceOK
         /\ todo' \in {<<>>, <<"reset">>, <<"soak", "reset">>}
         /\ spell' \in Nat /\ contacted' \in BOOLEAN /\ pulsed' \in BOOLEAN
         /\ reboots' \in 0..2
<1>1. /\ Head(rows) \in {"link", "soak", "reset"}
      /\ Tail(rows) \in {<<>>, <<"reset">>, <<"soak", "reset">>}
  <2>1. CASE rows = LinkRows BY <2>1, Lists
  <2>2. CASE rows = <<"soak", "reset">> BY <2>2, Lists
  <2>3. ASSUME NEW r \in {"link", "soak", "reset"}, rows = <<r>>
        PROVE  Head(rows) = r /\ Tail(rows) = <<>>
    BY <2>3, Lists
  <2> QED BY <2>1, <2>2, <2>3
<1>2. PlaceOK
  BY <1>1, ProbePlace DEF RunRows, Start, Job, Hello
<1>3. SoakMs \in Nat BY RecoveryAssumption
<1>4. contacted \in BOOLEAN BY DEF TypeOK
<1>5. todo' = Tail(rows) /\ Start(Head(rows)) BY DEF RunRows
<1>6. spell' \in Nat BY <1>3, <1>5 DEF Start
<1>7. contacted' \in BOOLEAN BY <1>5, Zenon DEF Start
<1>8. pulsed' \in BOOLEAN /\ reboots' \in 0..2
  <2>1. pulsed' = FALSE BY <1>5, Zenon DEF Start
  <2>2. pulsed' \in BOOLEAN BY <2>1, Zenon
  <2>3. reboots' = 0 BY <1>5, Zenon DEF Start
  <2> QED BY <2>2, <2>3
<1> QED BY <1>1, <1>2, <1>5, <1>6, <1>7, <1>8

(* Ending a row starts the next one or leaves the master idle.             *)
LEMMA EndOK ==
  ASSUME TypeOK, NEW outcome \in {"tested", "asked", "soaked", "silent", "dead", "back", "ignored", "gone"},
         End(outcome)
  PROVE  PlaceOK /\ RowOK
<1>1. verdict' = outcome BY DEF End
<1>2. CASE todo # <<>> /\ RunRows(todo)
  <2>1. todo \in {<<"reset">>, <<"soak", "reset">>} BY <1>2 DEF TypeOK
  <2> QED BY <1>1, <1>2, <2>1, RunRowsOK DEF RowOK
<1>3. CASE todo = <<>> /\ Rest /\ spell' = 0 /\ UNCHANGED <<todo, contacted, pulsed, reboots>>
  BY <1>1, <1>3, RestPlace DEF RowOK, TypeOK
<1> QED BY <1>2, <1>3 DEF End

(* A step that leaves the row alone keeps its types.                     *)
LEMMA RowKept == ASSUME TypeOK, UNCHANGED rowVars PROVE RowOK
BY DEF TypeOK, rowVars, RowOK

---------------------------------------------------------------------------
(* Types are kept by every action.                                         *)

(* What the actions of the master leave of the rest.                       *)
SlaveOK ==
  /\ slave' \in {"absent", "serving"} \cup Booting \cup Hung
  /\ boot' \in Nat /\ dog' \in Nat
  /\ ticks' \in Nat /\ ticks' * FsPollMs < DetectMs
  /\ wired' \in BOOLEAN /\ trouble' \in 0..MaxTrouble

EscalationOK == fails' \in 0..1 /\ backoff' \in 0..BackoffTicks

(* TypeOK after a step, from its four parts.                             *)
LEMMA Assemble ==
  ASSUME PlaceOK, RowOK, SlaveOK, EscalationOK, next' \in Nat,
         fs' \in BOOLEAN, tick' \in Nat, news' \in BOOLEAN, lost' \in 0..MaxLost
  PROVE  TypeOK'
BY DEF PlaceOK, RowOK, SlaveOK, EscalationOK, TypeOK

(* A step of the master keeps the slave's types.                         *)
LEMMA SlaveKept == ASSUME TypeOK, UNCHANGED slaveVars PROVE SlaveOK
BY DEF TypeOK, slaveVars, SlaveOK

(* What a step leaves alone keeps its type.                              *)
LEMMA Kept ==
  ASSUME TypeOK
  PROVE  /\ UNCHANGED escalationVars => EscalationOK
         /\ UNCHANGED fsVars => fs' \in BOOLEAN /\ tick' \in Nat
         /\ UNCHANGED next => next' \in Nat
         /\ UNCHANGED news => news' \in BOOLEAN
         /\ UNCHANGED lost => lost' \in 0..MaxLost
         /\ UNCHANGED placeVars => PlaceOK
BY DEF TypeOK, escalationVars, fsVars, placeVars, EscalationOK, PlaceOK

(* A probe loses at most MaxLost answers.                                *)
LEMMA ProbeTypes ==
  ASSUME TypeOK, Heard \/ Unheard
  PROVE  lost' \in 0..MaxLost
<1>1. lost \in 0..MaxLost /\ MaxLost \in Nat BY RecoveryAssumption DEF TypeOK
<1>2. lost' = lost \/ (lost < MaxLost /\ lost' = lost + 1) BY DEF Heard, Unheard
<1> QED BY <1>1, <1>2

(* Raising FS keeps the types.                                           *)
LEMMA PulseOK ==
  ASSUME TypeOK, NEW for \in Job, Pulse(for)
  PROVE  PlaceOK /\ RowOK /\ fs' \in BOOLEAN /\ tick' \in Nat
<1>1. PlaceOK
  BY RecoveryAssumption, DoPlace DEF Pulse, RaiseFs
<1>2. RowOK
  BY DEF Pulse, RaiseFs, RowOK, TypeOK
<1>3. tick' \in Nat
  <2>1. Phase \subseteq Nat BY RecoveryAssumption
  <2>2. tick \in Nat BY DEF TypeOK
  <2> QED BY <2>1, <2>2 DEF Pulse, RaiseFs
<1> QED BY <1>1, <1>2, <1>3 DEF Pulse, RaiseFs

(* The idle loop keeps the types.                                        *)
LEMMA IdleTypes ==
  ASSUME TypeOK, Poll \/ \E rows \in Commands : Command(rows)
  PROVE  TypeOK'
<1>1. CASE Poll
  <2>1. PlaceOK
    BY <1>1, RestPlace, ProbePlace DEF Poll, Job, Reconnect
  <2>2. next' \in Nat BY <1>1, RecoveryAssumption DEF Poll
  <2> QED BY <1>1, <2>1, <2>2, RowKept, SlaveKept, Kept, Assemble DEF Poll
<1>2. ASSUME NEW rows \in Commands, Command(rows) PROVE TypeOK'
  <2>1. rows \in {LinkRows, <<"link">>, <<"soak">>, <<"reset">>}
    <3>1. Len(LinkRows) = 3 /\ LinkRows[1] = "link" /\ LinkRows[2] = "soak"
            /\ LinkRows[3] = "reset"
      BY DEF LinkRows
    <3> QED BY <1>2, <3>1 DEF Commands
  <2>2. RowOK /\ PlaceOK
    BY <1>2, <2>1, RunRowsOK DEF Command, RowOK
  <2> QED BY <1>2, <2>2, SlaveKept, Kept, Assemble DEF Command
<1> QED BY <1>1, <1>2

(* diag_link_run keeps the types.                                        *)
LEMMA HelloTypes ==
  ASSUME TypeOK, HelloHeard \/ HelloUnheard \/ RetryOver \/ SweepOver
  PROVE  TypeOK'
<1>0. n \in Nat /\ job \in Job BY DEF TypeOK
<1>1. CASE HelloHeard
  <2>1. PlaceOK BY <1>0, <1>1, DoPlace, RecoveryAssumption DEF HelloHeard
  <2>2. RowOK
    <3>1. contacted' \in BOOLEAN BY <1>1, Zenon DEF HelloHeard
    <3>2. UNCHANGED <<todo, spell, verdict, pulsed, reboots>> BY <1>1, Zenon DEF HelloHeard
    <3> QED BY <3>1, <3>2 DEF RowOK, TypeOK
  <2>3. news' \in BOOLEAN BY <1>1, Zenon DEF HelloHeard
  <2>4. lost' \in 0..MaxLost BY <1>1, Zenon, ProbeTypes DEF HelloHeard
  <2>5. UNCHANGED <<next, escalationVars, slaveVars, fsVars>> BY <1>1, Zenon DEF HelloHeard
  <2> QED BY <2>1, <2>2, <2>3, <2>4, <2>5, SlaveKept, Kept, Assemble
<1>2. CASE HelloUnheard
  <2>1. PlaceOK /\ RowOK
    <3>1. CASE n < 3 /\ Do("retry", job, n + 1, RetryMs) /\ UNCHANGED rowVars
      BY <1>0, <3>1, DoPlace, RowKept, RecoveryAssumption
    <3>2. CASE Probe("ask", 1) /\ UNCHANGED rowVars
      BY <3>2, ProbePlace, RowKept DEF Job, Reconnect
    <3>3. CASE End("silent") BY <3>3, EndOK
    <3> QED BY <1>2, <3>1, <3>2, <3>3 DEF HelloUnheard
  <2> QED BY <1>2, <2>1, ProbeTypes, SlaveKept, Kept, Assemble DEF HelloUnheard
<1>3. CASE RetryOver
  <2>1. PlaceOK BY <1>0, <1>3, ProbePlace DEF RetryOver
  <2> QED BY <1>3, <2>1, RowKept, SlaveKept, Kept, Assemble DEF RetryOver
<1>4. CASE SweepOver
  <2>1. PlaceOK /\ RowOK
    <3>1. CASE Probe(job, 1) /\ UNCHANGED rowVars BY <1>0, <3>1, ProbePlace, RowKept
    <3>2. CASE End(IF job = "link" THEN "tested" ELSE "soaked") BY <3>2, EndOK
    <3> QED BY <1>4, <3>1, <3>2 DEF SweepOver
  <2> QED BY <1>4, <2>1, SlaveKept, Kept, Assemble DEF SweepOver
<1> QED BY <1>1, <1>2, <1>3, <1>4

(* So does the end of a reconnect.                                       *)
LEMMA ReconnectDoneOK == ASSUME TypeOK, ReconnectDone PROVE PlaceOK /\ RowOK
BY RestPlace, RowKept, EndOK DEF ReconnectDone

(* diag_link_try_reconnect keeps the types.                              *)
LEMMA ReconnectTypes ==
  ASSUME TypeOK, ReconnectHeard \/ ReconnectUnheard
  PROVE  TypeOK'
<1>0. BackoffTicks \in Nat /\ fails \in 0..1 /\ backoff \in 0..BackoffTicks
  BY RecoveryAssumption DEF TypeOK
<1>1. CASE ReconnectHeard
  <2>1. PlaceOK /\ RowOK
    <3>1. CASE RunRows(LinkRows) /\ UNCHANGED verdict
      BY <3>1, RunRowsOK DEF RowOK, TypeOK
    <3>2. CASE End("asked") BY <3>2, EndOK
    <3> QED BY <1>1, <3>1, <3>2 DEF ReconnectHeard
  <2>2. EscalationOK BY <1>0, <1>1 DEF ReconnectHeard, EscalationOK
  <2> QED BY <1>1, <2>1, <2>2, ProbeTypes, SlaveKept, Kept, Assemble DEF ReconnectHeard
<1>2. CASE ReconnectUnheard
  <2>1. EscalationOK
    BY <1>0, <1>2 DEF ReconnectUnheard, EscalationOK, Escalates
  <2>2. PlaceOK /\ RowOK /\ fs' \in BOOLEAN /\ tick' \in Nat
    <3>1. CASE Pulse(job) BY <3>1, PulseOK DEF TypeOK
    <3>2. CASE ReconnectDone /\ UNCHANGED fsVars BY <3>2, ReconnectDoneOK, Kept
    <3> QED BY <1>2, <3>1, <3>2 DEF ReconnectUnheard
  <2> QED BY <1>2, <2>1, <2>2, ProbeTypes, SlaveKept, Kept, Assemble DEF ReconnectUnheard
<1> QED BY <1>1, <1>2

(* diag_link_reset_slave keeps the types.                                *)
LEMMA ResetTypes ==
  ASSUME TypeOK, \/ FirstHeard \/ FirstUnheard \/ AwayHeard \/ AwayUnheard
                 \/ BackHeard \/ BackUnheard \/ PauseOver \/ PulseOver
  PROVE  TypeOK'
<1>0. n \in Nat /\ {"first", "away", "back"} \subseteq Job BY DEF TypeOK, Job
<1>1. CASE FirstHeard
  BY <1>0, <1>1, PulseOK, ProbeTypes, SlaveKept, Kept, Assemble DEF FirstHeard
<1>2. CASE FirstUnheard
  BY <1>2, EndOK, ProbeTypes, SlaveKept, Kept, Assemble DEF FirstUnheard
<1>3. CASE AwayHeard
  <2>1. PlaceOK BY <1>0, <1>3, DoPlace, RecoveryAssumption DEF AwayHeard
  <2> QED BY <1>3, <2>1, RowKept, ProbeTypes, SlaveKept, Kept, Assemble DEF AwayHeard
<1>4. CASE AwayUnheard
  <2>1. PlaceOK BY <1>0, <1>4, ProbePlace DEF AwayUnheard
  <2> QED BY <1>4, <2>1, RowKept, ProbeTypes, SlaveKept, Kept, Assemble DEF AwayUnheard
<1>5. CASE BackHeard
  BY <1>5, EndOK, ProbeTypes, SlaveKept, Kept, Assemble DEF BackHeard
<1>6. CASE BackUnheard
  <2>1. PlaceOK BY <1>0, <1>6, DoPlace, RecoveryAssumption DEF BackUnheard
  <2> QED BY <1>6, <2>1, RowKept, ProbeTypes, SlaveKept, Kept, Assemble DEF BackUnheard
<1>7. CASE PauseOver
  <2>1. PlaceOK /\ RowOK
    <3>1. CASE Probe("away", n + 1) /\ UNCHANGED rowVars BY <1>0, <3>1, ProbePlace, RowKept
    <3>2. CASE Probe("back", n + 1) /\ UNCHANGED rowVars BY <1>0, <3>2, ProbePlace, RowKept
    <3>3. CASE End("ignored") \/ End("gone") BY <3>3, EndOK
    <3> QED BY <1>7, <3>1, <3>2, <3>3 DEF PauseOver
  <2> QED BY <1>7, <2>1, SlaveKept, Kept, Assemble DEF PauseOver
<1>8. CASE PulseOver
  <2>1. PlaceOK /\ RowOK
    <3>1. CASE Probe("away", 1) /\ UNCHANGED rowVars BY <1>0, <3>1, ProbePlace, RowKept
    <3>2. CASE ReconnectDone BY <3>2, ReconnectDoneOK
    <3> QED BY <1>8, <3>1, <3>2 DEF PulseOver
  <2>2. fs' \in BOOLEAN /\ tick' \in Nat BY <1>8 DEF PulseOver, TypeOK
  <2> QED BY <1>8, <2>1, <2>2, SlaveKept, Kept, Assemble DEF PulseOver
<1> QED BY <1>1, <1>2, <1>3, <1>4, <1>5, <1>6, <1>7, <1>8

(* A slave that starts to boot.                                            *)
LEMMA ComesOK ==
  ASSUME TypeOK, NEW how \in Booting, NEW times \in {ColdMs, WarmMs}, Comes(how, times)
  PROVE  /\ slave' = how /\ boot' \in Nat /\ dog' \in Nat
         /\ ticks' \in Nat /\ ticks' * FsPollMs < DetectMs
         /\ tick' \in Nat /\ reboots' \in 1..2
<1>1. times \subseteq Nat BY RecoveryAssumption
<1>2. ticks' = 0 BY DEF Comes
<1>3. FsPollMs \in Nat /\ DetectMs \in Nat \ {0} BY RecoveryAssumption
<1> QED BY <1>1, <1>2, <1>3 DEF Comes

(* A reboot counts, and touches nothing else of the row.                 *)
LEMMA RowAfterSlave ==
  ASSUME TypeOK, UNCHANGED <<todo, spell, contacted, verdict, pulsed>>, reboots' \in 0..2
  PROVE  RowOK
BY DEF TypeOK, RowOK

(* The slave's life keeps the types.                                     *)
LEMMA SlaveTypes ==
  ASSUME TypeOK, Booted \/ FsTick \/ WatchdogBite \/ Hang \/ Reflash
  PROVE  TypeOK'
<1>0. /\ FsPollMs \in Nat /\ DetectMs \in Nat /\ MaxTrouble \in Nat
      /\ DogMs \subseteq Nat
      /\ ticks \in Nat /\ trouble \in 0..MaxTrouble
  BY RecoveryAssumption DEF TypeOK
<1>1. CASE Booted
  <2>1. SlaveOK BY <1>1 DEF Booted, SlaveOK, TypeOK
  <2>2. fs' \in BOOLEAN /\ tick' \in Nat BY <1>0, <1>1 DEF Booted, TypeOK
  <2> QED BY <1>1, <2>1, <2>2, RowKept, Kept, Assemble DEF Booted
<1>2. CASE FsTick
  <2>1. /\ slave' \in {"absent", "serving"} \cup Booting \cup Hung
        /\ boot' \in Nat /\ dog' \in Nat
        /\ ticks' \in Nat /\ ticks' * FsPollMs < DetectMs
        /\ tick' \in Nat /\ reboots' \in 0..2
    <3>1. CASE Reboot
      BY <3>1, ComesOK DEF Reboot, Booting
    <3>2. CASE /\ (ticks + 1) * FsPollMs < DetectMs
               /\ ticks' = ticks + 1 /\ tick' = FsPollMs
               /\ UNCHANGED <<slave, boot, dog, reboots>>
      BY <1>0, <3>2 DEF TypeOK
    <3>3. CASE ticks' = 0 /\ tick' = FsPollMs /\ UNCHANGED <<slave, boot, dog, reboots>>
      <4>1. ticks' * FsPollMs < DetectMs BY <1>0, <3>3, RecoveryAssumption
      <4> QED BY <1>0, <3>3, <4>1 DEF TypeOK
    <3> QED BY <1>2, <3>1, <3>2, <3>3 DEF FsTick
  <2>2. SlaveOK BY <1>2, <2>1 DEF FsTick, SlaveOK, TypeOK
  <2>3. fs' \in BOOLEAN BY <1>2 DEF FsTick, TypeOK
  <2> QED BY <1>2, <2>1, <2>2, <2>3, RowAfterSlave, Kept, Assemble DEF FsTick
<1>3. CASE WatchdogBite
  <2>1. Comes("warm", WarmMs) BY <1>3 DEF WatchdogBite, Reboot
  <2>2. SlaveOK /\ tick' \in Nat /\ reboots' \in 0..2
    BY <1>3, <2>1, ComesOK DEF WatchdogBite, Booting, SlaveOK, TypeOK
  <2>3. fs' \in BOOLEAN /\ news' \in BOOLEAN BY <1>3 DEF WatchdogBite, TypeOK
  <2> QED BY <1>3, <2>2, <2>3, RowAfterSlave, Kept, Assemble DEF WatchdogBite
<1>4. CASE Hang
  <2>1. SlaveOK
    <3>1. ticks' \in Nat /\ ticks' * FsPollMs < DetectMs
      <4>1. CASE ticks' = 0 BY <1>0, <4>1, RecoveryAssumption
      <4>2. CASE ticks' = ticks BY <1>0, <4>2 DEF TypeOK
      <4> QED BY <1>4, <4>1, <4>2 DEF Hang
    <3> QED BY <1>0, <1>4, <3>1 DEF Hang, SlaveOK, TypeOK
  <2> QED BY <1>4, <2>1, RowKept, Kept, Assemble DEF Hang
<1>5. CASE Reflash
  <2>1. SlaveOK /\ tick' \in Nat /\ reboots' \in 0..2
    BY <1>0, <1>5, ComesOK DEF Reflash, Booting, SlaveOK, TypeOK
  <2>2. fs' \in BOOLEAN /\ news' \in BOOLEAN BY <1>5 DEF Reflash, TypeOK
  <2> QED BY <1>5, <2>1, <2>2, RowAfterSlave, Kept, Assemble DEF Reflash
<1> QED BY <1>1, <1>2, <1>3, <1>4, <1>5

(* No deadline is passed, so no time goes below zero.                    *)
LEMMA AdvanceTypes ==
  ASSUME TypeOK, Advance
  PROVE  TypeOK'
<1>1. {wait, next, spell, boot, dog, tick} \subseteq Nat BY DEF TypeOK
<1>2. Soonest \in Nat BY <1>1 DEF Soonest, Lesser
<1>3. \A t \in Nat : Less(t) \in Nat BY <1>2 DEF Less
<1>4. /\ wait' \in Nat /\ next' \in Nat /\ spell' \in Nat
      /\ boot' \in Nat /\ dog' \in Nat /\ tick' \in Nat
  BY <1>1, <1>3 DEF Advance
<1>5. PlaceOK BY <1>4 DEF Advance, PlaceOK, TypeOK
<1>6. RowOK BY <1>4 DEF Advance, RowOK, TypeOK
<1>7. SlaveOK BY <1>4 DEF Advance, SlaveOK, TypeOK
<1>8. fs' \in BOOLEAN BY DEF Advance, TypeOK
<1> QED BY <1>4, <1>5, <1>6, <1>7, <1>8, Kept, Assemble DEF Advance

(* The types hold when main() starts.                                    *)
LEMMA InitTypes == Init => TypeOK
<1> SUFFICES ASSUME Init PROVE TypeOK OBVIOUS
<1>1. /\ HelloMs \in Nat /\ FsPollMs \in Nat /\ DetectMs \in Nat \ {0}
      /\ BackoffTicks \in Nat /\ MaxLost \in Nat /\ MaxTrouble \in Nat
      /\ ColdMs \subseteq Nat /\ Wired \subseteq BOOLEAN
  BY RecoveryAssumption
<1>2. todo = <<"soak", "reset">> BY Lists DEF Init
<1>3. boot \in Nat /\ slave \in {"absent", "serving"} \cup Booting \cup Hung
  <2>1. (slave = "cold" /\ boot \in ColdMs) \/ (slave = "absent" /\ boot = 0)
    BY Zenon DEF Init
  <2>0. ColdMs \subseteq Nat BY RecoveryAssumption
  <2>2. boot \in Nat
    <3>1. CASE boot \in ColdMs BY <2>0, <3>1
    <3>2. CASE boot = 0 BY <3>2
    <3> QED BY <2>1, <3>1, <3>2
  <2>3. slave \in {"absent", "cold"} BY <2>1
  <2> QED BY <2>2, <2>3 DEF Booting, Hung
<1>4. ticks = 0 /\ ticks * FsPollMs < DetectMs
  <2>1. ticks = 0 BY Zenon DEF Init
  <2> QED BY <1>1, <2>1
<1>5. {contacted, pulsed, fs, news, wired} \subseteq BOOLEAN
  BY <1>1, Zenon DEF Init
<1>6. /\ at = "probe" /\ job = "link" /\ n = 1 /\ verdict = "none"
      /\ wait = HelloMs /\ spell = 0 /\ next = 0 /\ dog = 0 /\ tick = FsPollMs
      /\ fails = 0 /\ backoff = 0 /\ reboots = 0 /\ lost = 0 /\ trouble = 0
  BY Zenon DEF Init
<1>7. job \in Job BY <1>6 DEF Job, Hello
<1> QED BY <1>1, <1>2, <1>3, <1>4, <1>5, <1>6, <1>7 DEF TypeOK

(* Every number of LinkRecovery stays in its range, whatever the times.    *)
THEOREM TypeCorrect == Spec => []TypeOK
<1>1. TypeOK /\ [Next]_vars => TypeOK'
  <2> SUFFICES ASSUME TypeOK, [Next]_vars PROVE TypeOK' OBVIOUS
  <2>1. CASE Next
    <3>1. CASE Run
      BY <3>1, IdleTypes, HelloTypes, ReconnectTypes, ResetTypes, SlaveTypes, AdvanceTypes
      DEF Run, Master, Slave
    <3> QED BY <2>1, <3>1, IdleTypes, SlaveTypes DEF Next
  <2>2. CASE UNCHANGED vars
    BY <2>2 DEF vars, placeVars, rowVars, escalationVars, slaveVars, fsVars, TypeOK
  <2> QED BY <2>1, <2>2
<1> QED BY InitTypes, <1>1, PTL DEF Spec

---------------------------------------------------------------------------
(* A passed reset test means that the slave rebooted.                      *)

(* Out of the reset test there is nothing to keep.                         *)
LEMMA Outside ==
  ASSUME job' \notin {"away", "back", "first"} \/ (at' = "probe" /\ job' = "first")
  PROVE  ResetInv'
BY DEF ResetInv, InReset, PassMeansRebooted

(* A row that starts is not past its first probe.                        *)
LEMMA RunRowsOutside ==
  ASSUME NEW rows \in {LinkRows, <<"link">>, <<"soak">>, <<"reset">>, <<"soak", "reset">>},
         RunRows(rows)
  PROVE  ResetInv'
<1>1. Head(rows) \in {"link", "soak", "reset"}
  <2>1. CASE rows = LinkRows BY <2>1, Lists
  <2>2. CASE rows = <<"soak", "reset">> BY <2>2, Lists
  <2>3. ASSUME NEW r \in {"link", "soak", "reset"}, rows = <<r>>
        PROVE  Head(rows) = r
    BY <2>3, Lists
  <2> QED BY <2>1, <2>2, <2>3
<1>2. Probe(IF Head(rows) = "reset" THEN "first" ELSE Head(rows), 1)
  BY Zenon DEF RunRows, Start
<1>3. at' = "probe" /\ job' = IF Head(rows) = "reset" THEN "first" ELSE Head(rows)
  BY <1>2 DEF Probe, Do
<1> QED BY <1>1, <1>3, Outside

(* Idle is outside of the reset test.                                    *)
LEMMA RestOutside == Rest => ResetInv'
BY Outside DEF Rest, Do

(* A row that ends is followed by one that starts, or by idling.         *)
LEMMA EndOutside ==
  ASSUME TypeOK, NEW outcome, End(outcome)
  PROVE  ResetInv'
<1>1. CASE todo # <<>> /\ RunRows(todo)
  <2>1. todo \in {<<"reset">>, <<"soak", "reset">>} BY <1>1 DEF TypeOK
  <2> QED BY <1>1, <2>1, RunRowsOutside
<1>2. CASE Rest BY <1>2, RestOutside
<1> QED BY <1>1, <1>2 DEF End

(* A reconnect ends outside of the reset test.                           *)
LEMMA ReconnectDoneOutside ==
  ASSUME TypeOK, ReconnectDone, job \in Reconnect
  PROVE  ResetInv'
BY RestOutside, EndOutside DEF ReconnectDone

(* Going on with a probe for the same purpose keeps what there was.        *)
LEMMA ProbingOn ==
  ASSUME ResetInv, NEW k, Probe(job, k), UNCHANGED <<slave, reboots>>
  PROVE  ResetInv'
<1>1. at' = "probe" /\ job' = job BY Zenon DEF Probe, Do
<1> QED BY <1>1 DEF ResetInv, InReset, PassMeansRebooted

(* The rows and probes outside of the reset test.                          *)
LEMMA OthersKeepReset ==
  ASSUME TypeOK, ResetInv,
         \/ Poll \/ \E rows \in Commands : Command(rows)
         \/ HelloHeard \/ HelloUnheard \/ RetryOver \/ SweepOver
         \/ ReconnectHeard \/ ReconnectUnheard
  PROVE  ResetInv'
<1>1. CASE Poll
  BY <1>1, RestOutside, Outside DEF Poll, Probe, Do
<1>2. ASSUME NEW rows \in Commands, Command(rows) PROVE ResetInv'
  <2>1. rows \in {LinkRows, <<"link">>, <<"soak">>, <<"reset">>}
    <3>1. Len(LinkRows) = 3 /\ LinkRows[1] = "link" /\ LinkRows[2] = "soak"
            /\ LinkRows[3] = "reset"
      BY DEF LinkRows
    <3> QED BY <1>2, <3>1 DEF Commands
  <2> QED BY <1>2, <2>1, RunRowsOutside DEF Command
<1>3. CASE HelloHeard
  <2>1. job \in Hello /\ job' = job BY <1>3, Zenon DEF HelloHeard, Do
  <2> QED BY <2>1, Outside DEF Hello
<1>4. CASE HelloUnheard
  BY <1>4, Outside, EndOutside DEF HelloUnheard, Probe, Do, Hello
<1>5. CASE RetryOver
  BY <1>5, ProbingOn DEF RetryOver, slaveVars, rowVars
<1>6. CASE SweepOver
  <2>1. CASE Probe(job, 1) /\ UNCHANGED rowVars
    BY <1>6, <2>1, ProbingOn DEF SweepOver, slaveVars, rowVars
  <2>2. CASE End(IF job = "link" THEN "tested" ELSE "soaked") BY <2>2, EndOutside
  <2> QED BY <1>6, <2>1, <2>2 DEF SweepOver
<1>7. CASE ReconnectHeard
  BY <1>7, RunRowsOutside, EndOutside DEF ReconnectHeard
<1>8. CASE ReconnectUnheard
  <2>1. CASE Pulse(job)
    BY <1>8, <2>1, Outside DEF ReconnectUnheard, Reconnect, Pulse, RaiseFs, Do
  <2>2. CASE ReconnectDone
    BY <1>8, <2>2, ReconnectDoneOutside DEF ReconnectUnheard
  <2> QED BY <1>8, <2>1, <2>2 DEF ReconnectUnheard
<1> QED BY <1>1, <1>2, <1>3, <1>4, <1>5, <1>6, <1>7, <1>8

(* diag_link_reset_slave, when the wire loses no probe.                    *)
LEMMA ResetKeepsReset ==
  ASSUME TypeOK, ResetInv, lost' = lost,
         \/ FirstHeard \/ FirstUnheard \/ AwayHeard \/ AwayUnheard
         \/ BackHeard \/ BackUnheard \/ PauseOver \/ PulseOver
  PROVE  ResetInv'
<1>1. CASE FirstHeard
  <2>1. job' = "first" /\ slave' = "serving"
    BY <1>1, Zenon DEF FirstHeard, Heard, Pulse, RaiseFs, Do, slaveVars
  <2> QED BY <2>1 DEF ResetInv, InReset, PassMeansRebooted, Booting
<1>2. CASE FirstUnheard
  BY <1>2, EndOutside DEF FirstUnheard
<1>3. CASE AwayHeard
  <2>1. job = "away" /\ job' = "away" /\ slave' = slave /\ reboots' = reboots
    BY <1>3, Zenon DEF AwayHeard, Do, slaveVars, rowVars
  <2> QED BY <2>1 DEF ResetInv, InReset, PassMeansRebooted
<1>4. CASE AwayUnheard
  <2>1. job = "away" /\ job' = "back" /\ slave' = slave /\ reboots' = reboots
    BY <1>4, Zenon DEF AwayUnheard, Probe, Do, slaveVars, rowVars
  <2>2. slave # "serving"
    <3>1. lost' # lost + 1 BY RecoveryAssumption DEF TypeOK
    <3> QED BY <1>4, <3>1 DEF AwayUnheard, Unheard
  <2> QED BY <2>1, <2>2 DEF ResetInv, InReset, PassMeansRebooted
<1>5. CASE BackHeard
  BY <1>5, EndOutside DEF BackHeard
<1>6. CASE BackUnheard
  <2>1. job = "back" /\ job' = "back" /\ slave' = slave /\ reboots' = reboots
    BY <1>6, Zenon DEF BackUnheard, Do, slaveVars, rowVars
  <2> QED BY <2>1 DEF ResetInv, InReset, PassMeansRebooted
<1>7. CASE PauseOver
  <2>1. CASE \E out : End(out) BY <2>1, EndOutside
  <2>2. CASE Probe(job, n + 1) /\ UNCHANGED rowVars
    BY <1>7, <2>2, ProbingOn DEF PauseOver, slaveVars, rowVars
  <2> QED BY <1>7, <2>1, <2>2 DEF PauseOver
<1>8. CASE PulseOver
  <2>1. CASE job = "first" /\ Probe("away", 1) /\ UNCHANGED rowVars
    <3>1. /\ at = "pulse" /\ job' = "away" /\ slave' = slave /\ reboots' = reboots
      BY <1>8, <2>1, Zenon DEF PulseOver, Probe, Do, slaveVars, rowVars
    <3> QED BY <2>1, <3>1 DEF ResetInv, InReset, PassMeansRebooted
  <2>2. CASE job # "first" /\ ReconnectDone
    <3>1. job \in Reconnect BY <2>2 DEF ReconnectDone, Reconnect
    <3> QED BY <2>2, <3>1, ReconnectDoneOutside
  <2> QED BY <1>8, <2>1, <2>2 DEF PulseOver
<1> QED BY <1>1, <1>2, <1>3, <1>4, <1>5, <1>6, <1>7, <1>8

(* The slave's own steps: none of them brings it back without a reboot.    *)
LEMMA SlaveKeepsReset ==
  ASSUME TypeOK, ResetInv, Booted \/ FsTick \/ WatchdogBite \/ Hang \/ Reflash \/ Advance
  PROVE  ResetInv'
<1>1. at' = at /\ job' = job
  BY DEF Booted, FsTick, WatchdogBite, Hang, Reflash, Advance, placeVars
<1>2. CASE Booted
  BY <1>1, <1>2 DEF Booted, rowVars, ResetInv, InReset, PassMeansRebooted, Booting
<1>3. CASE slave' \in Booting /\ reboots' > 0
  BY <1>1, <1>3 DEF ResetInv, PassMeansRebooted, Booting
<1>4. CASE Hang
  BY <1>1, <1>4 DEF Hang, rowVars, ResetInv, InReset, PassMeansRebooted, Booting, Hung
<1>5. CASE UNCHANGED <<slave, reboots>>
  BY <1>1, <1>5 DEF ResetInv, InReset, PassMeansRebooted
<1>6. CASE FsTick
  <2>1. CASE Reboot BY <1>3, <2>1, ComesOK DEF Reboot, Booting
  <2>2. CASE UNCHANGED <<slave, boot, dog, reboots>> BY <1>5, <2>2
  <2> QED BY <1>6, <2>1, <2>2 DEF FsTick
<1>7. CASE WatchdogBite BY <1>3, <1>7, ComesOK DEF WatchdogBite, Reboot, Booting
<1>8. CASE Reflash BY <1>3, <1>8, ComesOK DEF Reflash, Booting
<1>9. CASE Advance BY <1>5, <1>9 DEF Advance
<1> QED BY <1>2, <1>4, <1>6, <1>7, <1>8, <1>9

(* A lost probe stays on the count.                                        *)
LEMMA LostStays ==
  ASSUME TypeOK, [Next]_vars, lost' = 0
  PROVE  lost' = lost
<1>1. lost \in Nat BY RecoveryAssumption DEF TypeOK
<1>2. lost' = lost \/ lost' = lost + 1
  <2>1. CASE Heard \/ Unheard BY <2>1 DEF Heard, Unheard
  <2>2. CASE Poll \/ RetryOver \/ SweepOver \/ PauseOver \/ PulseOver
    BY <2>2, Zenon DEF Poll, RetryOver, SweepOver, PauseOver, PulseOver
  <2>3. CASE Slave \/ Advance \/ Hang \/ Reflash
    BY <2>3, Zenon DEF Slave, Booted, FsTick, WatchdogBite, Advance, Hang, Reflash
  <2>4. CASE \E rows \in Commands : Command(rows) BY <2>4, Zenon DEF Command
  <2>5. CASE UNCHANGED vars BY <2>5, Zenon DEF vars
  <2>6. CASE Master
    BY <2>1, <2>2, <2>6, Zenon
    DEF Master, HelloHeard, HelloUnheard, ReconnectHeard, ReconnectUnheard, FirstHeard,
        FirstUnheard, AwayHeard, AwayUnheard, BackHeard, BackUnheard
  <2> QED BY <2>3, <2>4, <2>5, <2>6, Zenon DEF Next, Run
<1> QED BY <1>1, <1>2

(* As long as the wire has lost no probe, "Slave reset" passes only a      *)
(* slave that rebooted after the pulse, whatever the times and whatever    *)
(* befalls it.                                                             *)
THEOREM ResetTestIsHonest == Spec => []PassIsHonest
<1>1. Init => (lost = 0 => ResetInv)
  <2> SUFFICES ASSUME Init PROVE ResetInv OBVIOUS
  <2>1. at = "probe" /\ job = "link" BY Zenon DEF Init
  <2> QED BY <2>1 DEF ResetInv, InReset, PassMeansRebooted
<1>2. TypeOK /\ (lost = 0 => ResetInv) /\ [Next]_vars => (lost = 0 => ResetInv)'
  <2> SUFFICES ASSUME TypeOK, lost = 0 => ResetInv, [Next]_vars, lost' = 0
               PROVE  ResetInv'
    OBVIOUS
  <2>1. lost' = lost /\ ResetInv BY LostStays
  <2>2. CASE Next
    <3>1. CASE Run
      BY <2>1, <3>1, OthersKeepReset, ResetKeepsReset, SlaveKeepsReset
      DEF Run, Master, Slave
    <3> QED BY <2>1, <2>2, <3>1, OthersKeepReset, SlaveKeepsReset DEF Next
  <2>3. CASE UNCHANGED vars
    BY <2>1, <2>3
    DEF vars, placeVars, rowVars, slaveVars, ResetInv, InReset, PassMeansRebooted
  <2> QED BY <2>2, <2>3
<1>3. (lost = 0 => ResetInv) => PassIsHonest BY DEF ResetInv, PassIsHonest
<1> QED BY <1>1, <1>2, <1>3, TypeCorrect, PTL DEF Spec

---------------------------------------------------------------------------
(* The reset test never fails a slave that answered its first probe.       *)

(* A step that neither starts nor continues a reset test: it leaves the    *)
(* master elsewhere, or at the first probe of a row that just began.       *)
Elsewhere ==
  \/ job' \notin {"first", "away", "back"}
  \/ job' = "first" /\ at' = "probe" /\ reboots' = 0

(* Where a reset test can be, and how long it stays there.                 *)
PlaceInv ==
  /\ fs = (at = "pulse")
  /\ tick <= FsPollMs
  /\ job = "first" => at \in {"probe", "pulse"}
  /\ job \in {"away", "back"} => at \in {"probe", "pause"}
  /\ at = "probe" /\ job \in {"away", "back"} => wait <= ProbeMs
  /\ at = "pause" /\ job = "back" => wait <= BackMs
  /\ at = "pulse" => wait <= PulseMs
  /\ at \in {"retry", "sweep"} => job \in Hello
  /\ at = "pulse" => job \in Reconnect \cup {"first"}

(* How long the slave is away because of one mishap.                       *)
OutageInv(outage) ==
  /\ slave \in Booting => boot + BackMs <= outage
  /\ slave \in Hung => \A t \in WarmMs : dog + t + BackMs <= outage
  /\ trouble = 0 => slave \notin Hung
  /\ (job = "first" /\ at = "pulse") \/ job \in {"away", "back"} => slave # "absent"

(* The pulse has time left for the ticks that are missing, and a slave     *)
(* that reboots in it is not back before the probe that should miss it.    *)
PulseInv ==
  /\ job = "first" /\ at = "probe" /\ trouble = 0 => reboots = 0
  /\ job = "first" /\ at = "pulse" =>
       /\ slave \in Booting => boot > wait + ProbeMs
       /\ wired /\ slave \in {"serving", "hung"} => wait + ticks * FsPollMs >= tick + DetectMs
       /\ trouble = 0 => reboots = 0 \/ (reboots = 1 /\ slave \in Booting)
  /\ job = "away" /\ wired =>
       /\ at = "probe" /\ slave # "serving"
       /\ slave \in Booting => boot > wait
  /\ job \in {"away", "back"} /\ trouble = 0 => reboots <= 1

(* What the probes for the slave's return still have to outlast: mishaps   *)
(* to come, answers to be lost; and the time the probes after the k-th     *)
(* take when nobody answers them.                                          *)
Mishaps(t, outage) == (MaxTrouble - t) * outage
Losses(l) == (MaxLost - l) * (BackMs + ProbeMs)
Polls(k) == (BackPolls - k) * (BackMs + ProbeMs)

Outlasts(outage, away) ==
  away + Mishaps(trouble, outage) + Losses(lost)
    < IF at = "probe" THEN wait + Polls(n) ELSE wait + ProbeMs + Polls(n + 1)

(* A slave that serves wastes the sleep it comes back in.                  *)
BackInv(outage) ==
  job = "back" =>
    /\ n <= BackPolls
    /\ slave \in Booting => Outlasts(outage, boot + BackMs)
    /\ slave \in Hung => \A t \in WarmMs : Outlasts(outage, dog + t + BackMs)
    /\ slave = "serving" => Outlasts(outage, IF at = "pause" THEN wait ELSE 0)

(* The budgets are used up one by one.                                     *)
LEMMA Budgets ==
  ASSUME NEW outage \in Nat
  PROVE  /\ \A t \in 0..MaxTrouble : Mishaps(t, outage) \in Nat
         /\ \A t \in 0..MaxTrouble : t < MaxTrouble =>
              Mishaps(t, outage) = Mishaps(t + 1, outage) + outage
         /\ \A l \in 0..MaxLost : Losses(l) \in Nat
         /\ \A l \in 0..MaxLost : l < MaxLost =>
              Losses(l) = Losses(l + 1) + BackMs + ProbeMs
         /\ \A k \in Int : Polls(k) \in Int /\ Polls(k) = Polls(k + 1) + BackMs + ProbeMs
         /\ Polls(BackPolls) = 0
<1>1. /\ MaxTrouble \in Nat /\ MaxLost \in Nat /\ BackPolls \in Nat
      /\ BackMs \in Nat \ {0} /\ ProbeMs \in Nat \ {0}
  BY RecoveryAssumption
<1>2. ASSUME NEW a \in Nat, NEW b \in Nat PROVE a * b \in Nat
  BY <1>2
<1>3. ASSUME NEW a \in Int, NEW b \in Int PROVE a * b = (a - 1) * b + b /\ a * b \in Int
  BY <1>3
<1>4. ASSUME NEW t \in 0..MaxTrouble PROVE Mishaps(t, outage) \in Nat
  <2>1. MaxTrouble - t \in Nat BY <1>1
  <2> QED BY <1>2, <2>1 DEF Mishaps
<1>5. ASSUME NEW t \in 0..MaxTrouble
      PROVE  Mishaps(t, outage) = Mishaps(t + 1, outage) + outage
  <2>1. MaxTrouble - (t + 1) = (MaxTrouble - t) - 1 /\ MaxTrouble - t \in Int BY <1>1
  <2>2. (MaxTrouble - t) * outage = ((MaxTrouble - t) - 1) * outage + outage BY <1>3, <2>1
  <2> QED BY <2>1, <2>2 DEF Mishaps
<1>6. BackMs + ProbeMs \in Nat BY <1>1
<1>7. ASSUME NEW l \in 0..MaxLost PROVE Losses(l) \in Nat
  <2>1. MaxLost - l \in Nat BY <1>1
  <2> QED BY <1>2, <1>6, <2>1 DEF Losses
<1>8. ASSUME NEW l \in 0..MaxLost
      PROVE  Losses(l) = Losses(l + 1) + BackMs + ProbeMs
  <2>1. MaxLost - (l + 1) = (MaxLost - l) - 1 /\ MaxLost - l \in Int BY <1>1
  <2>2. (MaxLost - l) * (BackMs + ProbeMs)
          = ((MaxLost - l) - 1) * (BackMs + ProbeMs) + (BackMs + ProbeMs)
    BY <1>3, <1>6, <2>1
  <2>3. ((MaxLost - l) - 1) * (BackMs + ProbeMs) \in Int BY <1>3, <1>6, <2>1
  <2> QED BY <1>1, <2>1, <2>2, <2>3 DEF Losses
<1>9. ASSUME NEW k \in Int
      PROVE  Polls(k) \in Int /\ Polls(k) = Polls(k + 1) + BackMs + ProbeMs
  <2>1. BackPolls - (k + 1) = (BackPolls - k) - 1 /\ BackPolls - k \in Int BY <1>1
  <2>2. (BackPolls - k) * (BackMs + ProbeMs)
          = ((BackPolls - k) - 1) * (BackMs + ProbeMs) + (BackMs + ProbeMs)
    BY <1>3, <1>6, <2>1
  <2>3. ((BackPolls - k) - 1) * (BackMs + ProbeMs) \in Int BY <1>3, <1>6, <2>1
  <2> QED BY <1>1, <2>1, <2>2, <2>3 DEF Polls
<1>10. Polls(BackPolls) = 0 BY <1>1 DEF Polls
<1> QED BY <1>4, <1>5, <1>7, <1>8, <1>9, <1>10

(* A slave that is away for one outage at most is back before the first    *)
(* of the probes for it runs out of successors.                            *)
LEMMA BudgetAtFirst ==
  ASSUME TypeOK, NEW outage \in Nat, Timings(outage), NEW l \in 0..MaxLost
  PROVE  outage + Mishaps(trouble, outage) + Losses(l) < ProbeMs + Polls(1)
<1>1. /\ MaxTrouble \in Nat /\ MaxLost \in Nat /\ BackPolls \in Nat
      /\ BackMs \in Nat /\ ProbeMs \in Nat /\ BackMs + ProbeMs \in Nat
      /\ trouble \in 0..MaxTrouble
  <2>1. /\ MaxTrouble \in Nat /\ MaxLost \in Nat /\ BackPolls \in Nat
        /\ BackMs \in Nat /\ ProbeMs \in Nat
    BY RecoveryAssumption
  <2>2. trouble \in 0..MaxTrouble BY DEF TypeOK
  <2> QED BY <2>1, <2>2
<1>2. ASSUME NEW a \in Nat, NEW b \in Nat, NEW c \in Nat, a <= b
      PROVE  a * c <= b * c /\ a * c \in Nat /\ b * c \in Nat
  <2>1. (b - a) * c \in Nat
    <3>1. b - a \in Nat BY <1>2
    <3> QED BY <3>1
  <2>2. b * c = a * c + (b - a) * c OBVIOUS
  <2> QED BY <2>1, <2>2
<1>3. Mishaps(trouble, outage) <= MaxTrouble * outage
  <2>1. MaxTrouble - trouble \in Nat /\ MaxTrouble - trouble <= MaxTrouble BY <1>1
  <2> QED BY <1>1, <1>2, <2>1 DEF Mishaps
<1>4. Losses(l) <= MaxLost * (BackMs + ProbeMs)
  <2>1. MaxLost - l \in Nat /\ MaxLost - l <= MaxLost BY <1>1
  <2> QED BY <1>1, <1>2, <2>1 DEF Losses
<1>5. (MaxTrouble + 1) * outage = MaxTrouble * outage + outage BY <1>1
<1>6. Polls(1) = (BackPolls - 1) * (BackMs + ProbeMs) BY DEF Polls
<1>7. (MaxTrouble + 1) * outage + MaxLost * (BackMs + ProbeMs)
        < ProbeMs + (BackPolls - 1) * (BackMs + ProbeMs)
  BY DEF Timings
<1>8. /\ Mishaps(trouble, outage) \in Nat /\ Losses(l) \in Nat
      /\ MaxTrouble * outage \in Nat /\ MaxLost * (BackMs + ProbeMs) \in Nat
      /\ Polls(1) \in Int
  <2>1. Polls(1) \in Int BY Budgets
  <2>2. Mishaps(trouble, outage) \in Nat /\ Losses(l) \in Nat BY <1>1, Budgets
  <2>3. ASSUME NEW a \in Nat, NEW b \in Nat PROVE a * b \in Nat BY <2>3
  <2> QED BY <1>1, <2>1, <2>2, <2>3
<1> QED BY <1>1, <1>3, <1>4, <1>5, <1>6, <1>7, <1>8
(* Where a step of the master may leave it.                                *)
GoodPlace ==
  \/ at' = "idle" /\ job' = "none"
  \/ at' = "probe" /\ job' \in Hello \cup Reconnect \cup {"first"}
  \/ at' = "probe" /\ job' \in {"away", "back"} /\ wait' <= ProbeMs
  \/ at' = "pulse" /\ job' \in Reconnect \cup {"first"} /\ wait' <= PulseMs
  \/ at' \in {"retry", "sweep"} /\ job' \in Hello
  \/ at' = "pause" /\ job' = "away"
  \/ at' = "pause" /\ job' = "back" /\ wait' <= BackMs

LEMMA PlaceFollows ==
  ASSUME GoodPlace, fs' = (at' = "pulse"), tick' <= FsPollMs
  PROVE  PlaceInv'
BY DEF GoodPlace, PlaceInv, Hello, Reconnect

(* A row starts with a probe and no reboot counted.                        *)
LEMMA RowStarts ==
  ASSUME NEW rows \in {LinkRows, <<"link">>, <<"soak">>, <<"reset">>, <<"soak", "reset">>},
         RunRows(rows)
  PROVE  at' = "probe" /\ job' \in {"link", "soak", "first"} /\ reboots' = 0
<1>1. Head(rows) \in {"link", "soak", "reset"}
  <2>1. CASE rows = LinkRows BY <2>1, Lists
  <2>2. CASE rows = <<"soak", "reset">> BY <2>2, Lists
  <2>3. ASSUME NEW r \in {"link", "soak", "reset"}, rows = <<r>>
        PROVE  Head(rows) = r
    BY <2>3, Lists
  <2> QED BY <2>1, <2>2, <2>3
<1>2. Probe(IF Head(rows) = "reset" THEN "first" ELSE Head(rows), 1) /\ reboots' = 0
  BY Zenon DEF RunRows, Start
<1>3. at' = "probe" /\ job' = IF Head(rows) = "reset" THEN "first" ELSE Head(rows)
  BY <1>2 DEF Probe, Do
<1> QED BY <1>1, <1>2, <1>3

(* So does the row after one that ended, if there is one.                  *)
LEMMA RowEnds ==
  ASSUME TypeOK, NEW outcome, End(outcome)
  PROVE  /\ verdict' = outcome
         /\ \/ at' = "probe" /\ job' \in {"link", "soak", "first"} /\ reboots' = 0
            \/ at' = "idle" /\ job' = "none"
<1>1. CASE todo # <<>> /\ RunRows(todo)
  <2>1. todo \in {<<"reset">>, <<"soak", "reset">>} BY <1>1 DEF TypeOK
  <2> QED BY <1>1, <2>1, RowStarts DEF End
<1>2. CASE Rest BY <1>2 DEF End, Rest, Do
<1> QED BY <1>1, <1>2 DEF End

(* Where the master is when it does not pulse and is not in the reset test *)
(* past its first probe.                                                   *)
Turned ==
  \/ at' = "probe" /\ job' \in {"link", "soak", "first"} /\ reboots' = 0
  \/ at' = "probe" /\ job' \in Hello \cup Reconnect
  \/ at' = "idle" /\ job' = "none"
  \/ at' \in {"retry", "sweep"} /\ job' \in Hello

LEMMA TurnedElsewhere ==
  ASSUME Turned
  PROVE  Elsewhere /\ GoodPlace /\ at' # "pulse"
BY DEF Turned, Elsewhere, GoodPlace, Hello, Reconnect

(* A step that fails no reset test.                                        *)
Quiet == verdict' = verdict \/ verdict' \notin {"ignored", "gone"}

(* The rest of the master: what runs outside of the reset test, and what   *)
(* ends it.                                                                *)
Others ==
  \/ Poll \/ \E rows \in Commands : Command(rows)
  \/ HelloHeard \/ HelloUnheard \/ RetryOver \/ SweepOver
  \/ ReconnectHeard \/ ReconnectUnheard
  \/ FirstUnheard \/ BackHeard

(* It does not enter the reset test, nor does it fail one.                 *)
LEMMA OthersTurn ==
  ASSUME TypeOK, PlaceInv, Others
  PROVE  Quiet /\ (Turned \/ (ReconnectUnheard /\ job \in Reconnect /\ Pulse(job)))
<1>0. ASSUME NEW outcome \in {"tested", "asked", "soaked", "silent", "dead", "back"}, End(outcome)
      PROVE  Quiet /\ Turned
  BY <1>0, RowEnds DEF Quiet, Turned
<1>1. CASE Poll
  <2>1. verdict' = verdict BY <1>1, Zenon DEF Poll, rowVars
  <2>2. Rest \/ Probe("poll", 1) BY <1>1, Zenon DEF Poll
  <2>3. (at' = "idle" /\ job' = "none") \/ (at' = "probe" /\ job' = "poll")
    BY <2>2 DEF Rest, Probe, Do
  <2> QED BY <2>1, <2>3 DEF Reconnect, Quiet, Turned
<1>2. ASSUME NEW rows \in Commands, Command(rows) PROVE Quiet /\ Turned
  <2>1. rows \in {LinkRows, <<"link">>, <<"soak">>, <<"reset">>}
    <3>1. Len(LinkRows) = 3 /\ LinkRows[1] = "link" /\ LinkRows[2] = "soak"
            /\ LinkRows[3] = "reset"
      BY DEF LinkRows
    <3> QED BY <1>2, <3>1 DEF Commands
  <2>2. verdict' = "none" BY <1>2, Zenon DEF Command
  <2> QED BY <1>2, <2>1, <2>2, RowStarts DEF Command, Quiet, Turned
<1>3. CASE HelloHeard
  <2>1. at' = "sweep" /\ job' = job /\ job \in Hello /\ verdict' = verdict
    BY <1>3, Zenon DEF HelloHeard, Do
  <2> QED BY <2>1 DEF Quiet, Turned
<1>4. CASE HelloUnheard
  <2>1. job \in Hello BY <1>4, Zenon DEF HelloUnheard
  <2>2. CASE Do("retry", job, n + 1, RetryMs) /\ UNCHANGED rowVars
    BY <2>1, <2>2 DEF Do, rowVars, Quiet, Turned
  <2>3. CASE Probe("ask", 1) /\ UNCHANGED rowVars
    BY <2>3 DEF Probe, Do, rowVars, Reconnect, Quiet, Turned
  <2>4. CASE End("silent") BY <1>0, <2>4
  <2> QED BY <1>4, <2>2, <2>3, <2>4 DEF HelloUnheard
<1>5. CASE RetryOver
  <2>1. at = "retry" /\ Probe(job, n) /\ verdict' = verdict
    BY <1>5, Zenon DEF RetryOver, rowVars
  <2>2. job \in Hello BY <2>1 DEF PlaceInv
  <2> QED BY <2>1, <2>2 DEF Probe, Do, Quiet, Turned
<1>6. CASE SweepOver
  <2>1. job \in Hello
    <3>1. at = "sweep" BY <1>6, Zenon DEF SweepOver
    <3> QED BY <3>1 DEF PlaceInv
  <2>2. CASE Probe(job, 1) /\ UNCHANGED rowVars
    BY <2>1, <2>2 DEF Probe, Do, rowVars, Quiet, Turned
  <2>3. CASE End(IF job = "link" THEN "tested" ELSE "soaked") BY <1>0, <2>3
  <2> QED BY <1>6, <2>2, <2>3 DEF SweepOver
<1>7. CASE ReconnectHeard
  <2>1. CASE RunRows(LinkRows) /\ UNCHANGED verdict BY <2>1, RowStarts DEF Quiet, Turned
  <2>2. CASE End("asked") BY <1>0, <2>2
  <2> QED BY <1>7, <2>1, <2>2 DEF ReconnectHeard
<1>8. CASE ReconnectUnheard
  <2>1. CASE Pulse(job)
    <3>1. verdict' = verdict /\ job \in Reconnect
      BY <1>8, <2>1, Zenon DEF ReconnectUnheard, Pulse, RaiseFs
    <3> QED BY <1>8, <2>1, <3>1 DEF Quiet
  <2>2. CASE ReconnectDone
    <3>1. CASE Rest /\ UNCHANGED rowVars BY <3>1 DEF Rest, Do, rowVars, Quiet, Turned
    <3>2. CASE End("asked") BY <1>0, <3>2
    <3> QED BY <2>2, <3>1, <3>2 DEF ReconnectDone
  <2> QED BY <1>8, <2>1, <2>2 DEF ReconnectUnheard
<1>9. CASE FirstUnheard BY <1>0, <1>9 DEF FirstUnheard
<1>10. CASE BackHeard BY <1>0, <1>10 DEF BackHeard
<1> QED BY <1>1, <1>2, <1>3, <1>4, <1>5, <1>6, <1>7, <1>8, <1>9, <1>10 DEF Others

(* It leaves FS alone when it does not raise it.                           *)
LEMMA OthersFs ==
  ASSUME Others, ~(ReconnectUnheard /\ Pulse(job))
  PROVE  UNCHANGED fsVars /\ at # "pulse"
<1>1. CASE Poll \/ RetryOver \/ SweepOver
  BY <1>1, Zenon DEF Poll, RetryOver, SweepOver
<1>2. CASE \E rows \in Commands : Command(rows) BY <1>2, Zenon DEF Command
<1>3. CASE HelloHeard \/ HelloUnheard \/ ReconnectHeard \/ FirstUnheard \/ BackHeard
  BY <1>3, Zenon
  DEF HelloHeard, HelloUnheard, ReconnectHeard, FirstUnheard, BackHeard, Heard, Unheard, fsVars
<1>4. CASE ReconnectUnheard BY <1>4, Zenon DEF ReconnectUnheard, Unheard
<1> QED BY <1>1, <1>2, <1>3, <1>4 DEF Others

(* Raising FS: its tick is at most one period away.                        *)
LEMMA RaisedLine ==
  ASSUME TypeOK, PlaceInv, NEW for, Pulse(for)
  PROVE  /\ fs' = TRUE /\ at' = "pulse" /\ job' = for /\ wait' = PulseMs
         /\ tick' \in Nat /\ tick' <= FsPollMs
         /\ verdict' = verdict /\ reboots' = reboots
<1>1. /\ fs' = TRUE /\ at' = "pulse" /\ job' = for /\ wait' = PulseMs
      /\ verdict' = verdict /\ reboots' = reboots
  BY Zenon DEF Pulse, RaiseFs, Do
<1>2. Phase \subseteq 0..FsPollMs /\ FsPollMs \in Nat BY RecoveryAssumption
<1>3. tick' = tick \/ tick' \in Phase BY DEF Pulse, RaiseFs
<1>4. tick \in Nat /\ tick <= FsPollMs
  <2>1. tick \in Nat BY DEF TypeOK
  <2>2. tick <= FsPollMs BY DEF PlaceInv
  <2> QED BY <2>1, <2>2
<1>5. tick' \in Nat /\ tick' <= FsPollMs
  <2>1. CASE tick' = tick BY <1>4, <2>1
  <2>2. CASE tick' \in Phase
    <3>1. tick' \in 0..FsPollMs BY <1>2, <2>2
    <3> QED BY <1>2, <3>1
  <2> QED BY <1>3, <2>1, <2>2
<1> QED BY <1>1, <1>5, Zenon

(* Elsewhere, the line and the places stay in order.                       *)
LEMMA OthersPlace ==
  ASSUME TypeOK, PlaceInv, Others
  PROVE  Quiet /\ Elsewhere /\ PlaceInv'
<1>1. CASE Turned /\ ~(ReconnectUnheard /\ Pulse(job))
  <2>1. UNCHANGED fsVars /\ at # "pulse" BY <1>1, OthersFs
  <2>2. fs' = FALSE /\ tick' <= FsPollMs
    <3>1. fs \in BOOLEAN BY DEF TypeOK
    <3> QED BY <2>1, <3>1 DEF fsVars, PlaceInv
  <2> QED BY <1>1, <2>2, OthersTurn, TurnedElsewhere, PlaceFollows
<1>2. CASE job \in Reconnect /\ Pulse(job)
  <2>1. fs' = TRUE /\ at' = "pulse" /\ job' = job /\ wait' = PulseMs /\ tick' <= FsPollMs
    BY <1>2, RaisedLine
  <2>2. PulseMs \in Nat BY RecoveryAssumption
  <2>3. GoodPlace /\ Elsewhere BY <1>2, <2>1, <2>2 DEF GoodPlace, Elsewhere, Reconnect
  <2> QED BY <2>1, <2>3, OthersTurn, PlaceFollows
<1>3. Turned /\ ReconnectUnheard /\ Pulse(job) => FALSE
  BY RaisedLine, TurnedElsewhere
<1> QED BY <1>1, <1>2, <1>3, OthersTurn
(* The steps of the reset test that stay in it keep the places too.        *)
LEMMA ResetPlace ==
  ASSUME TypeOK, PlaceInv,
         FirstHeard \/ AwayHeard \/ AwayUnheard \/ BackUnheard \/ PauseOver \/ PulseOver
  PROVE  PlaceInv'
<1>0. /\ fs \in BOOLEAN /\ ProbeMs \in Nat /\ BackMs \in Nat /\ PulseMs \in Nat
  BY RecoveryAssumption DEF TypeOK
<1>1. CASE FirstHeard
  <2>1. Pulse("first") BY <1>1 DEF FirstHeard
  <2>2. fs' = TRUE /\ at' = "pulse" /\ job' = "first" /\ wait' = PulseMs /\ tick' <= FsPollMs
    BY <2>1, RaisedLine
  <2>3. GoodPlace BY <1>0, <2>2 DEF GoodPlace
  <2> QED BY <2>2, <2>3, PlaceFollows
<1>2. ASSUME UNCHANGED fsVars, at # "pulse", at' # "pulse", GoodPlace
      PROVE  PlaceInv'
  <2>1. fs' = FALSE /\ tick' <= FsPollMs BY <1>0, <1>2 DEF fsVars, PlaceInv
  <2> QED BY <1>2, <2>1, PlaceFollows
<1>3. CASE AwayHeard
  <2>1. UNCHANGED fsVars /\ at = "probe" /\ at' = "pause" /\ job' = "away"
    BY <1>3, Zenon DEF AwayHeard, Heard, Do
  <2> QED BY <1>2, <2>1 DEF GoodPlace
<1>4. CASE AwayUnheard
  <2>1. UNCHANGED fsVars /\ at = "probe" /\ at' = "probe" /\ job' = "back" /\ wait' = ProbeMs
    BY <1>4 DEF AwayUnheard, Unheard, Probe, Do, Hello
  <2> QED BY <1>0, <1>2, <2>1 DEF GoodPlace
<1>5. CASE BackUnheard
  <2>1. UNCHANGED fsVars /\ at = "probe" /\ at' = "pause" /\ job' = "back" /\ wait' = BackMs
    BY <1>5, Zenon DEF BackUnheard, Unheard, Do
  <2> QED BY <1>0, <1>2, <2>1 DEF GoodPlace
<1>6. CASE PauseOver
  <2>1. UNCHANGED fsVars /\ at = "pause" BY <1>6, Zenon DEF PauseOver
  <2>2. at' # "pulse" /\ GoodPlace
    <3>1. ASSUME NEW for \in {"away", "back"}, Probe(for, n + 1)
          PROVE  at' # "pulse" /\ GoodPlace
      BY <1>0, <3>1 DEF Probe, Do, Hello, GoodPlace
    <3>2. ASSUME NEW out, End(out) PROVE at' # "pulse" /\ GoodPlace
      BY <3>2, RowEnds DEF GoodPlace, Hello
    <3> QED BY <1>6, <3>1, <3>2 DEF PauseOver
  <2> QED BY <1>2, <2>1, <2>2
<1>7. CASE PulseOver
  <2>1. fs' = FALSE /\ tick' = tick BY <1>7, Zenon DEF PulseOver
  <2>2. at' # "pulse" /\ GoodPlace
    <3>1. CASE Probe("away", 1) BY <1>0, <3>1 DEF Probe, Do, Hello, GoodPlace
    <3>2. CASE Rest BY <3>2 DEF Rest, Do, GoodPlace
    <3>3. CASE End("asked") BY <3>3, RowEnds DEF GoodPlace, Hello
    <3> QED BY <1>7, <3>1, <3>2, <3>3 DEF PulseOver, ReconnectDone
  <2>3. tick' <= FsPollMs BY <2>1 DEF PlaceInv
  <2> QED BY <2>1, <2>2, <2>3, PlaceFollows
<1> QED BY <1>1, <1>3, <1>4, <1>5, <1>6, <1>7

(* What the passing of time does to the times that matter here.            *)
LEMMA TimePasses ==
  ASSUME TypeOK, Advance
  PROVE  \E s \in Nat :
           /\ at # "idle" => s <= wait /\ wait' = wait - s
           /\ slave \in Booting => s <= boot /\ boot' = boot - s
           /\ slave \in Hung => s <= dog /\ dog' = dog - s
           /\ Watching => s <= tick /\ tick' = tick - s
           /\ ~Watching => tick' = tick
<1> DEFINE turn == IF at = "idle" THEN next ELSE wait
           life == IF slave \in Booting THEN boot ELSE IF slave \in Hung THEN dog ELSE turn
           beat == IF Watching THEN tick ELSE turn
<1>1. wait \in Nat /\ next \in Nat /\ boot \in Nat /\ dog \in Nat /\ tick \in Nat
  BY DEF TypeOK
<1>2. turn \in Nat /\ life \in Nat /\ beat \in Nat BY <1>1
<1>3. Soonest = Lesser(turn, Lesser(life, beat)) BY DEF Soonest
<1> HIDE DEF turn, life, beat
<1>4. Soonest \in Nat /\ Soonest <= turn /\ Soonest <= life /\ Soonest <= beat
  BY <1>2, <1>3 DEF Lesser
<1>5. ASSUME NEW t \in Nat, Soonest <= t PROVE Less(t) = t - Soonest
  BY <1>4, <1>5 DEF Less
<1>6. /\ wait' = Less(wait) /\ boot' = Less(boot) /\ dog' = Less(dog)
      /\ tick' = IF Watching THEN Less(tick) ELSE tick
  BY Zenon DEF Advance
<1>7. at # "idle" => Soonest <= wait BY <1>4 DEF turn
<1>8. slave \in Booting => Soonest <= boot BY <1>4 DEF life
<1>9. slave \in Hung => Soonest <= dog BY <1>4 DEF life, Booting, Hung
<1>10. Watching => Soonest <= tick BY <1>4 DEF beat
<1>11. /\ at # "idle" => Soonest <= wait /\ wait' = wait - Soonest
       /\ slave \in Booting => Soonest <= boot /\ boot' = boot - Soonest
       /\ slave \in Hung => Soonest <= dog /\ dog' = dog - Soonest
       /\ Watching => Soonest <= tick /\ tick' = tick - Soonest
       /\ ~Watching => tick' = tick
  BY <1>1, <1>5, <1>6, <1>7, <1>8, <1>9, <1>10
<1> QED BY <1>4, <1>11

(* The slave's steps, and time, leave the master where it is.              *)
LEMMA SlavePlace ==
  ASSUME TypeOK, PlaceInv, Booted \/ FsTick \/ WatchdogBite \/ Hang \/ Reflash \/ Advance
  PROVE  PlaceInv'
<1>1. at' = at /\ job' = job /\ fs' = fs
  BY Zenon DEF Booted, FsTick, WatchdogBite, Hang, Reflash, Advance, placeVars, fsVars
<1>2. FsPollMs \in Nat /\ tick \in Nat /\ wait \in Nat /\ tick <= FsPollMs
  <2>1. FsPollMs \in Nat BY RecoveryAssumption
  <2> QED BY <2>1 DEF TypeOK, PlaceInv
<1>3. ASSUME wait' \in Nat, tick' \in Nat, at # "idle" => wait' <= wait, tick' <= FsPollMs
      PROVE  PlaceInv'
  <2>1. ProbeMs \in Nat /\ BackMs \in Nat /\ PulseMs \in Nat BY RecoveryAssumption
  <2> QED BY <1>1, <1>2, <1>3, <2>1 DEF PlaceInv
<1>4. CASE wait' = wait /\ (tick' = tick \/ tick' = FsPollMs)
  BY <1>2, <1>3, <1>4
<1>5. CASE Booted \/ WatchdogBite \/ Hang \/ Reflash
  BY <1>4, <1>5, Zenon DEF Booted, WatchdogBite, Hang, Reflash, Reboot, Comes, placeVars, fsVars
<1>6. CASE FsTick
  BY <1>4, <1>6, Zenon DEF FsTick, Reboot, Comes, placeVars
<1>7. CASE Advance
  <2>1. wait' \in Nat /\ tick' \in Nat
    <3>1. TypeOK' BY <1>7, AdvanceTypes
    <3> QED BY <3>1 DEF TypeOK
  <2> QED BY <1>2, <1>3, <1>7, <2>1, TimePasses
<1> QED BY <1>5, <1>6, <1>7

(* Together.                                                               *)
LEMMA PlaceStep == TypeOK /\ PlaceInv /\ [Next]_vars => PlaceInv'
<1> SUFFICES ASSUME TypeOK, PlaceInv, [Next]_vars PROVE PlaceInv' OBVIOUS
<1>1. CASE Next
  <2>1. \/ Others
        \/ FirstHeard \/ AwayHeard \/ AwayUnheard \/ BackUnheard \/ PauseOver \/ PulseOver
        \/ Booted \/ FsTick \/ WatchdogBite \/ Hang \/ Reflash \/ Advance
    BY <1>1, Zenon DEF Next, Run, Master, Slave, Others
  <2> QED BY <2>1, OthersPlace, ResetPlace, SlavePlace
<1>2. CASE UNCHANGED vars BY <1>2 DEF vars, placeVars, fsVars, PlaceInv
<1> QED BY <1>1, <1>2
(* No step of the master touches the slave.                                *)
LEMMA MasterLeavesSlave ==
  ASSUME \/ Others
         \/ FirstHeard \/ AwayHeard \/ AwayUnheard \/ BackUnheard \/ PauseOver \/ PulseOver
  PROVE  /\ slave' = slave /\ boot' = boot /\ dog' = dog /\ ticks' = ticks
         /\ wired' = wired /\ trouble' = trouble
<1>1. UNCHANGED slaveVars
  BY Zenon
  DEF Others, Poll, Command, HelloHeard, HelloUnheard, RetryOver, SweepOver, ReconnectHeard,
      ReconnectUnheard, FirstUnheard, BackHeard, FirstHeard, AwayHeard, AwayUnheard,
      BackUnheard, PauseOver, PulseOver
<1> QED BY <1>1, Zenon DEF slaveVars

(* The six steps of the reset test, by what matters of them here.          *)
LEMMA FirstHeardIs ==
  ASSUME TypeOK, PlaceInv, FirstHeard
  PROVE  /\ at = "probe" /\ job = "first" /\ slave = "serving"
         /\ at' = "pulse" /\ job' = "first" /\ wait' = PulseMs
         /\ tick' \in Nat /\ tick' <= FsPollMs
         /\ reboots' = reboots /\ verdict' = verdict
<1>1. at = "probe" /\ job = "first" /\ slave = "serving" /\ Pulse("first")
  BY Zenon DEF FirstHeard, Heard
<1>2. /\ at' = "pulse" /\ job' = "first" /\ wait' = PulseMs
      /\ tick' \in Nat /\ tick' <= FsPollMs
      /\ reboots' = reboots /\ verdict' = verdict
  BY <1>1, RaisedLine
<1> QED BY <1>1, <1>2, Zenon

LEMMA AwayHeardIs ==
  ASSUME AwayHeard
  PROVE  /\ at = "probe" /\ job = "away" /\ slave = "serving"
         /\ at' = "pause" /\ job' = "away"
         /\ reboots' = reboots /\ verdict' = verdict
BY Zenon DEF AwayHeard, Heard, Do, rowVars

LEMMA AwayUnheardIs ==
  ASSUME AwayUnheard
  PROVE  /\ at = "probe" /\ job = "away"
         /\ at' = "probe" /\ job' = "back" /\ n' = 1 /\ wait' = ProbeMs
         /\ reboots' = reboots /\ verdict' = verdict
<1>1. Probe("back", 1) /\ at = "probe" /\ job = "away" /\ UNCHANGED rowVars
  BY Zenon DEF AwayUnheard, Unheard
<1> QED BY <1>1 DEF Probe, Do, Hello, rowVars

LEMMA BackUnheardIs ==
  ASSUME BackUnheard
  PROVE  /\ at = "probe" /\ job = "back" /\ Unheard
         /\ at' = "pause" /\ job' = "back" /\ n' = n /\ wait' = BackMs
         /\ reboots' = reboots /\ verdict' = verdict
BY Zenon DEF BackUnheard, Unheard, Do, rowVars

LEMMA PauseOverIs ==
  ASSUME TypeOK, PauseOver
  PROVE  /\ at = "pause" /\ wait = 0 /\ lost' = lost
         /\ \/ /\ job \in {"away", "back"} /\ job' = job
               /\ job = "back" => n < BackPolls
               /\ at' = "probe" /\ n' = n + 1 /\ wait' = ProbeMs
               /\ reboots' = reboots /\ verdict' = verdict
            \/ job = "away" /\ Elsewhere
            \/ job = "back" /\ n = BackPolls /\ Elsewhere
<1>1. at = "pause" /\ wait = 0 /\ lost' = lost BY Zenon DEF PauseOver
<1>2. CASE job \in {"away", "back"} /\ (job = "back" => n < BackPolls)
           /\ Probe(job, n + 1) /\ UNCHANGED rowVars
  BY <1>1, <1>2 DEF Probe, Do, Hello, rowVars
<1>3. CASE /\ job = "away" \/ (job = "back" /\ n = BackPolls)
           /\ End("ignored") \/ End("gone")
  <2>1. Elsewhere BY <1>3, RowEnds DEF Elsewhere
  <2> QED BY <1>1, <1>3, <2>1
<1> QED BY <1>2, <1>3 DEF PauseOver

LEMMA PulseOverIs ==
  ASSUME TypeOK, PlaceInv, PulseOver
  PROVE  /\ at = "pulse" /\ wait = 0
         /\ \/ /\ job = "first" /\ job' = "away" /\ at' = "probe" /\ wait' = ProbeMs
               /\ reboots' = reboots /\ verdict' = verdict
            \/ Elsewhere /\ Quiet
<1>1. at = "pulse" /\ wait = 0 BY Zenon DEF PulseOver
<1>2. CASE job = "first" /\ Probe("away", 1) /\ UNCHANGED rowVars
  BY <1>1, <1>2 DEF Probe, Do, Hello, rowVars
<1>3. CASE ReconnectDone
  <2>1. CASE Rest /\ UNCHANGED rowVars
    BY <1>1, <2>1 DEF Rest, Do, rowVars, Elsewhere, Quiet
  <2>2. CASE End("asked") BY <1>1, <2>2, RowEnds DEF Elsewhere, Quiet
  <2> QED BY <1>3, <2>1, <2>2 DEF ReconnectDone
<1> QED BY <1>2, <1>3 DEF PulseOver

---------------------------------------------------------------------------
(* One mishap, one outage.                                                 *)

(* A slave that starts to boot is away for one outage at most, and not     *)
(* back within a pulse and a probe.                                        *)
LEMMA ComesTimes ==
  ASSUME NEW outage \in Nat, Timings(outage),
         NEW how \in Booting, NEW times \in {ColdMs, WarmMs}, Comes(how, times)
  PROVE  /\ slave' = how /\ boot' \in Nat
         /\ boot' + BackMs <= outage /\ boot' > PulseMs + ProbeMs
<1>1. times \subseteq Nat BY RecoveryAssumption
<1>2. slave' = how /\ boot' \in times BY Zenon DEF Comes
<1>3. boot' \in ColdMs \cup WarmMs BY <1>2
<1>4. boot' + BackMs <= outage /\ boot' > PulseMs + ProbeMs
  BY <1>3, Zenon DEF Timings
<1> QED BY <1>1, <1>2, <1>4

LEMMA OutageStep ==
  ASSUME NEW outage \in Nat, Timings(outage),
         TypeOK, PlaceInv, OutageInv(outage), [Next]_vars
  PROVE  OutageInv(outage)'
<1>0. /\ boot \in Nat /\ dog \in Nat /\ trouble \in Nat /\ BackMs \in Nat
      /\ WarmMs \subseteq Nat /\ DogMs \subseteq Nat
  <2>1. /\ BackMs \in Nat /\ WarmMs \subseteq Nat /\ DogMs \subseteq Nat /\ MaxTrouble \in Nat
    BY RecoveryAssumption
  <2>2. boot \in Nat /\ dog \in Nat /\ trouble \in 0..MaxTrouble BY DEF TypeOK
  <2> QED BY <2>1, <2>2
<1>1. CASE \/ Others
           \/ FirstHeard \/ AwayHeard \/ AwayUnheard \/ BackUnheard \/ PauseOver \/ PulseOver
  <2>1. slave' = slave /\ boot' = boot /\ dog' = dog /\ trouble' = trouble
    BY <1>1, MasterLeavesSlave
  <2>2. (job' = "first" /\ at' = "pulse") \/ job' \in {"away", "back"} => slave # "absent"
    <3>1. CASE Others
      <4>1. Elsewhere BY <3>1, OthersPlace
      <4> QED BY <4>1 DEF Elsewhere
    <3>2. CASE FirstHeard BY <3>2, FirstHeardIs
    <3>3. CASE AwayHeard \/ AwayUnheard \/ BackUnheard
      <4>1. job \in {"away", "back"} BY <3>3, AwayHeardIs, AwayUnheardIs, BackUnheardIs
      <4> QED BY <4>1 DEF OutageInv
    <3>4. CASE PauseOver
      <4>1. job \in {"away", "back"} BY <3>4, PauseOverIs
      <4> QED BY <4>1 DEF OutageInv
    <3>5. CASE PulseOver
      <4>1. (job = "first" /\ at = "pulse") \/ Elsewhere BY <3>5, PulseOverIs
      <4> QED BY <4>1 DEF OutageInv, Elsewhere
    <3> QED BY <1>1, <3>1, <3>2, <3>3, <3>4, <3>5
  <2> QED BY <2>1, <2>2 DEF OutageInv
<1>2. ASSUME NEW how \in Booting, NEW times \in {ColdMs, WarmMs}, Comes(how, times)
      PROVE  OutageInv(outage)'
  <2>1. slave' = how /\ boot' + BackMs <= outage BY <1>2, ComesTimes
  <2> QED BY <2>1 DEF OutageInv, Booting, Hung
<1>3. CASE Booted \/ FsTick \/ WatchdogBite \/ Hang \/ Reflash \/ Advance
  <2>1. at' = at /\ job' = job
    BY <1>3, Zenon DEF Booted, FsTick, WatchdogBite, Hang, Reflash, Advance, placeVars
  <2>2. CASE Booted
    <3>1. slave' = "serving" BY <2>2, Zenon DEF Booted
    <3> QED BY <3>1 DEF OutageInv, Booting, Hung
  <2>3. ASSUME UNCHANGED <<slave, boot, dog, trouble>> PROVE OutageInv(outage)'
    BY <2>1, <2>3 DEF OutageInv
  <2>4. CASE FsTick
    <3>1. CASE Reboot BY <1>2, <3>1 DEF Reboot, Booting
    <3>2. CASE UNCHANGED <<slave, boot, dog, reboots>>
      BY <2>3, <2>4, <3>2 DEF FsTick
    <3> QED BY <2>4, <3>1, <3>2 DEF FsTick
  <2>5. CASE WatchdogBite BY <1>2, <2>5 DEF WatchdogBite, Reboot, Booting
  <2>6. CASE Reflash BY <1>2, <2>6 DEF Reflash, Booting
  <2>7. CASE Hang
    <3>1. slave' \in Hung /\ dog' \in DogMs /\ trouble' = trouble + 1
      BY <2>7, Zenon DEF Hang
    <3>2. \A t \in WarmMs : dog' + t + BackMs <= outage BY <3>1, Zenon DEF Timings
    <3>3. slave' \notin Booting /\ slave' # "absent" BY <3>1 DEF Hung, Booting
    <3>4. trouble' # 0 BY <1>0, <3>1
    <3> QED BY <3>2, <3>3, <3>4 DEF OutageInv
  <2>8. CASE Advance
    <3>1. PICK s \in Nat : /\ slave \in Booting => s <= boot /\ boot' = boot - s
                           /\ slave \in Hung => s <= dog /\ dog' = dog - s
      BY <2>8, TimePasses
    <3>2. slave' = slave /\ trouble' = trouble BY <2>8, Zenon DEF Advance
    <3>3. slave \in Booting => boot' + BackMs <= outage BY <1>0, <3>1 DEF OutageInv
    <3>4. ASSUME slave \in Hung, NEW t \in WarmMs PROVE dog' + t + BackMs <= outage
      <4>1. dog + t + BackMs <= outage BY <3>4 DEF OutageInv
      <4> QED BY <1>0, <3>1, <3>4, <4>1
    <3> QED BY <2>1, <3>2, <3>3, <3>4 DEF OutageInv
  <2> QED BY <1>3, <2>2, <2>4, <2>5, <2>6, <2>7, <2>8
<1>4. CASE UNCHANGED vars
  BY <1>4 DEF vars, placeVars, slaveVars, OutageInv
<1> QED BY <1>1, <1>3, <1>4, Zenon DEF Next, Run, Master, Slave, Others
---------------------------------------------------------------------------
(* The pulse is noticed, and the slave it resets is missed.                *)

(* The times that bound a reset.                                           *)
LEMMA Times ==
  ASSUME TypeOK, PlaceInv
  PROVE  /\ PulseMs \in Nat /\ ProbeMs \in Nat \ {0} /\ BackMs \in Nat \ {0}
         /\ FsPollMs \in Nat /\ DetectMs \in Nat
         /\ wait \in Nat /\ boot \in Nat /\ dog \in Nat /\ tick \in Nat
         /\ ticks * FsPollMs \in Nat /\ ticks * FsPollMs < DetectMs
         /\ (ticks + 1) * FsPollMs = ticks * FsPollMs + FsPollMs
         /\ at = "pulse" => wait <= PulseMs
         /\ at = "probe" /\ job \in {"away", "back"} => wait <= ProbeMs
<1>1. /\ PulseMs \in Nat /\ ProbeMs \in Nat \ {0} /\ BackMs \in Nat \ {0}
      /\ FsPollMs \in Nat /\ DetectMs \in Nat
  BY RecoveryAssumption
<1>2. wait \in Nat /\ boot \in Nat /\ dog \in Nat /\ tick \in Nat BY DEF TypeOK
<1>3. ticks \in Nat /\ ticks * FsPollMs < DetectMs BY DEF TypeOK
<1>4. ASSUME NEW a \in Nat, NEW b \in Nat
      PROVE  a * b \in Nat /\ (a + 1) * b = a * b + b
  BY <1>4
<1>5. /\ at = "pulse" => wait <= PulseMs
      /\ at = "probe" /\ job \in {"away", "back"} => wait <= ProbeMs
  BY DEF PlaceInv
<1> QED BY <1>1, <1>2, <1>3, <1>4, <1>5

(* A slave that reboots in the reset test is away for the rest of it.      *)
LEMMA PulseReboot ==
  ASSUME NEW outage \in Nat, Timings(outage), TypeOK, PlaceInv, PulseInv,
         NEW how \in Booting, NEW times \in {ColdMs, WarmMs}, Comes(how, times),
         UNCHANGED placeVars,
         \/ trouble' # 0
         \/ trouble' = trouble /\ job = "first" /\ at = "pulse" /\ slave \notin Booting
         \/ job \notin {"first", "away", "back"},
         wired' = wired
  PROVE  PulseInv'
<1>1. at' = at /\ job' = job /\ wait' = wait BY DEF placeVars
<1>2. slave' \in Booting /\ slave' = how /\ boot' \in Nat /\ boot' > PulseMs + ProbeMs
  BY ComesTimes
<1>3. job = "first" /\ at = "pulse" => boot' > wait' + ProbeMs
  BY <1>1, <1>2, Times
<1>4. job = "away" /\ at = "probe" => boot' > wait'
  BY <1>1, <1>2, Times
<1>5. slave' \notin {"serving", "hung"} BY <1>2 DEF Booting
<1>6. job = "first" /\ at = "pulse" /\ trouble' = 0 => reboots' = 1
  <2>1. reboots' = IF reboots = 0 THEN 1 ELSE 2 BY Zenon DEF Comes
  <2>2. ASSUME job = "first", at = "pulse", trouble' = 0 PROVE reboots = 0
    BY <2>2 DEF PulseInv
  <2> QED BY <2>1, <2>2
<1> QED BY <1>1, <1>2, <1>3, <1>4, <1>5, <1>6 DEF PulseInv

LEMMA PulseStep ==
  ASSUME NEW outage \in Nat, Timings(outage),
         TypeOK, PlaceInv, OutageInv(outage), PulseInv, [Next]_vars
  PROVE  PulseInv'
<1>1. CASE Others
  <2>1. Elsewhere BY <1>1, OthersPlace
  <2> QED BY <2>1 DEF Elsewhere, PulseInv
<1>2. CASE FirstHeard \/ AwayHeard \/ AwayUnheard \/ BackUnheard \/ PauseOver \/ PulseOver
  <2>0. /\ slave' = slave /\ boot' = boot /\ ticks' = ticks
        /\ wired' = wired /\ trouble' = trouble
    BY <1>2, MasterLeavesSlave
  <2>1. CASE FirstHeard
    <3>1. /\ at = "probe" /\ job = "first" /\ slave = "serving"
          /\ at' = "pulse" /\ job' = "first" /\ wait' = PulseMs
          /\ tick' \in Nat /\ tick' <= FsPollMs /\ reboots' = reboots
      BY <2>1, FirstHeardIs
    <3>2. PulseMs >= DetectMs + FsPollMs BY DEF Timings
    <3>3. ticks' * FsPollMs = ticks * FsPollMs BY <2>0
    <3>4. wait' + ticks' * FsPollMs >= tick' + DetectMs
      BY <3>1, <3>2, <3>3, Times
    <3>5. trouble' = 0 => reboots' = 0 BY <2>0, <3>1 DEF PulseInv
    <3> QED BY <2>0, <3>1, <3>4, <3>5 DEF PulseInv, Booting
  <2>2. CASE AwayHeard
    <3>1. /\ at = "probe" /\ job = "away" /\ slave = "serving"
          /\ at' = "pause" /\ job' = "away" /\ reboots' = reboots
      BY <2>2, AwayHeardIs
    <3> QED BY <2>0, <3>1 DEF PulseInv
  <2>3. CASE AwayUnheard
    <3>1. job = "away" /\ job' = "back" /\ reboots' = reboots BY <2>3, AwayUnheardIs
    <3> QED BY <2>0, <3>1 DEF PulseInv
  <2>4. CASE BackUnheard
    <3>1. job = "back" /\ job' = "back" /\ reboots' = reboots BY <2>4, BackUnheardIs
    <3> QED BY <2>0, <3>1 DEF PulseInv
  <2>5. CASE PauseOver
    <3>1. CASE Elsewhere BY <3>1 DEF Elsewhere, PulseInv
    <3>2. CASE at = "pause" /\ job \in {"away", "back"} /\ job' = job /\ reboots' = reboots
      BY <2>0, <3>2 DEF PulseInv
    <3> QED BY <2>5, <3>1, <3>2, PauseOverIs
  <2>6. CASE PulseOver
    <3>1. CASE Elsewhere BY <3>1 DEF Elsewhere, PulseInv
    <3>2. CASE /\ at = "pulse" /\ wait = 0 /\ job = "first" /\ job' = "away" /\ at' = "probe"
               /\ wait' = ProbeMs /\ reboots' = reboots
      <4>1. slave \in Booting => boot' > wait'
        <5>1. slave \in Booting => boot > wait + ProbeMs BY <3>2 DEF PulseInv
        <5> QED BY <2>0, <3>2, <5>1, Times
      <4>2. wired => slave \notin {"serving", "hung"}
        <5>1. wired /\ slave \in {"serving", "hung"} =>
                wait + ticks * FsPollMs >= tick + DetectMs
          BY <3>2 DEF PulseInv
        <5> QED BY <3>2, <5>1, Times
      <4>3. trouble = 0 => reboots <= 1 BY <3>2 DEF PulseInv
      <4> QED BY <2>0, <3>2, <4>1, <4>2, <4>3 DEF PulseInv
    <3> QED BY <2>6, <3>1, <3>2, PulseOverIs
  <2> QED BY <1>2, <2>1, <2>2, <2>3, <2>4, <2>5, <2>6
<1>3. CASE Booted \/ FsTick \/ WatchdogBite \/ Hang \/ Reflash
  <2>0. UNCHANGED placeVars /\ wired' = wired
    BY <1>3, Zenon DEF Booted, FsTick, WatchdogBite, Hang, Reflash, slaveVars
  <2>00. at' = at /\ job' = job /\ wait' = wait BY <2>0 DEF placeVars
  <2>1. CASE Booted
    <3>1. slave \in Booting /\ boot = 0 /\ slave' = "serving"
          /\ trouble' = trouble /\ reboots' = reboots
      BY <2>1, Zenon DEF Booted, rowVars
    <3>2. ~(job = "first" /\ at = "pulse") BY <3>1, Times DEF PulseInv
    <3>3. ~(job = "away" /\ wired) BY <3>1, Times DEF PulseInv
    <3> QED BY <2>0, <2>00, <3>1, <3>2, <3>3 DEF PulseInv
  <2>2. CASE FsTick
    <3>0. /\ Watching /\ tick = 0 /\ trouble' = trouble /\ slave \in {"serving", "hung"}
          /\ slave \notin Booting
      BY <2>2 DEF FsTick, Watching, Booting
    <3>1. CASE fs /\ Reboot
      <4>1. at = "pulse" BY <3>1 DEF PlaceInv
      <4>2. job \in Reconnect \cup {"first"} BY <4>1 DEF PlaceInv
      <4>3. Comes("warm", WarmMs) BY <3>1 DEF Reboot
      <4>4. (job = "first" /\ at = "pulse") \/ job \notin {"first", "away", "back"}
        BY <4>1, <4>2 DEF Reconnect
      <4> QED BY <2>0, <3>0, <4>3, <4>4, PulseReboot DEF Booting
    <3>2. CASE /\ ticks' = ticks + 1 /\ tick' = FsPollMs
               /\ UNCHANGED <<slave, boot, dog, reboots>>
      <4>1. ticks' * FsPollMs = ticks * FsPollMs + FsPollMs BY <3>2, Times
      <4>2. ASSUME job = "first", at = "pulse", wired
            PROVE  wait' + ticks' * FsPollMs >= tick' + DetectMs
        <5>1. wait + ticks * FsPollMs >= tick + DetectMs BY <3>0, <4>2 DEF PulseInv
        <5> QED BY <2>00, <3>0, <3>2, <4>1, <5>1, Times
      <4> QED BY <2>0, <2>00, <3>0, <3>2, <4>2 DEF PulseInv
    <3>3. CASE ~fs /\ UNCHANGED <<slave, boot, dog, reboots>>
      <4>1. at # "pulse" BY <3>3 DEF PlaceInv
      <4> QED BY <2>0, <2>00, <3>0, <3>3, <4>1 DEF PulseInv
    <3> QED BY <2>2, <3>1, <3>2, <3>3 DEF FsTick
  <2>3. CASE WatchdogBite
    <3>1. slave \in Hung /\ Comes("warm", WarmMs) /\ trouble' = trouble
      BY <2>3, Zenon DEF WatchdogBite, Reboot
    <3>2. trouble # 0 BY <3>1 DEF OutageInv
    <3> QED BY <2>0, <3>1, <3>2, PulseReboot DEF Booting
  <2>4. CASE Hang
    <3>1. /\ slave = "serving" /\ slave' \in Hung /\ trouble' = trouble + 1
          /\ reboots' = reboots /\ tick' = tick
          /\ slave' = "hung" => ticks' = ticks
      <4>1. /\ slave = "serving" /\ slave' \in Hung /\ trouble' = trouble + 1
            /\ ticks' = IF slave' = "locked" THEN 0 ELSE ticks
            /\ UNCHANGED rowVars /\ UNCHANGED fsVars
        BY <2>4, Zenon DEF Hang
      <4> QED BY <4>1 DEF rowVars, fsVars
    <3>2. trouble' # 0
      <4>1. trouble \in 0..MaxTrouble /\ MaxTrouble \in Nat
        BY RecoveryAssumption DEF TypeOK
      <4> QED BY <3>1, <4>1
    <3>3. slave' # "serving" /\ slave' \notin Booting BY <3>1 DEF Hung, Booting
    <3>4. ASSUME job = "first", at = "pulse", wired, slave' = "hung"
          PROVE  wait' + ticks' * FsPollMs >= tick' + DetectMs
      <4>1. wait + ticks * FsPollMs >= tick + DetectMs BY <3>1, <3>4 DEF PulseInv
      <4> QED BY <2>00, <3>1, <3>4, <4>1
    <3>5. job = "away" => ~wired BY <3>1 DEF PulseInv
    <3> QED BY <2>0, <2>00, <3>2, <3>3, <3>4, <3>5 DEF PulseInv
  <2>5. CASE Reflash
    <3>1. Comes("cold", ColdMs) /\ trouble' = trouble + 1 BY <2>5, Zenon DEF Reflash
    <3>2. trouble' # 0
      <4>1. trouble \in 0..MaxTrouble /\ MaxTrouble \in Nat
        BY RecoveryAssumption DEF TypeOK
      <4> QED BY <3>1, <4>1
    <3> QED BY <2>0, <3>1, <3>2, PulseReboot DEF Booting
  <2> QED BY <1>3, <2>1, <2>2, <2>3, <2>4, <2>5
<1>4. CASE Advance
  <2>1. /\ at' = at /\ job' = job /\ slave' = slave /\ ticks' = ticks
        /\ wired' = wired /\ trouble' = trouble /\ reboots' = reboots
    BY <1>4, Zenon DEF Advance
  <2>2. PICK s \in Nat : /\ at # "idle" => s <= wait /\ wait' = wait - s
                         /\ slave \in Booting => s <= boot /\ boot' = boot - s
                         /\ Watching => s <= tick /\ tick' = tick - s
    BY <1>4, TimePasses
  <2>3. ASSUME job = "first", at = "pulse", slave \in Booting
        PROVE  boot' > wait' + ProbeMs
    <3>1. boot > wait + ProbeMs BY <2>3 DEF PulseInv
    <3> QED BY <2>2, <2>3, <3>1, Times
  <2>4. ASSUME job = "first", at = "pulse", wired, slave \in {"serving", "hung"}
        PROVE  wait' + ticks' * FsPollMs >= tick' + DetectMs
    <3>1. wait + ticks * FsPollMs >= tick + DetectMs BY <2>4 DEF PulseInv
    <3>2. Watching BY <2>4 DEF PlaceInv, Watching
    <3>3. ticks' * FsPollMs = ticks * FsPollMs BY <2>1
    <3> QED BY <2>2, <2>4, <3>1, <3>2, <3>3, Times
  <2>5. ASSUME job = "away", wired, slave \in Booting PROVE boot' > wait'
    <3>1. boot > wait /\ at = "probe" BY <2>5 DEF PulseInv
    <3> QED BY <2>2, <2>5, <3>1, Times
  <2> QED BY <2>1, <2>3, <2>4, <2>5 DEF PulseInv
<1>5. CASE UNCHANGED vars
  BY <1>5 DEF vars, placeVars, rowVars, slaveVars, fsVars, PulseInv
<1> QED BY <1>1, <1>2, <1>3, <1>4, <1>5, Zenon DEF Next, Run, Master, Slave, Others
---------------------------------------------------------------------------
(* The probes for the slave's return outlast everything that may befall it.*)

(* The numbers of the probes for the slave's return.                       *)
LEMMA BackNumbers ==
  ASSUME NEW outage \in Nat, TypeOK
  PROVE  /\ n \in Nat /\ BackPolls \in Nat
         /\ Mishaps(trouble, outage) \in Nat /\ Losses(lost) \in Nat
         /\ Polls(n) \in Int /\ Polls(n + 1) \in Int
         /\ Polls(n) = Polls(n + 1) + BackMs + ProbeMs
         /\ Polls(BackPolls) = 0
         /\ Polls(BackPolls + 1) + BackMs + ProbeMs = 0
         /\ Polls(BackPolls + 1) \in Int
<1>1. BackPolls \in Nat BY RecoveryAssumption
<1>2. n \in Nat BY DEF TypeOK
<1>3. trouble \in 0..MaxTrouble /\ lost \in 0..MaxLost BY DEF TypeOK
<1>4. Mishaps(trouble, outage) \in Nat /\ Losses(lost) \in Nat BY <1>3, Budgets
<1>5. \A k \in Int : Polls(k) \in Int /\ Polls(k) = Polls(k + 1) + BackMs + ProbeMs
  BY Budgets
<1>6. Polls(n) \in Int /\ Polls(n) = Polls(n + 1) + BackMs + ProbeMs
  BY <1>2, <1>5
<1>7. Polls(n + 1) \in Int BY <1>2, <1>5
<1>8. Polls(BackPolls) = 0 BY Budgets
<1>9. Polls(BackPolls + 1) + BackMs + ProbeMs = 0 BY <1>1, <1>5, <1>8
<1>10. Polls(BackPolls + 1) \in Int BY <1>1, <1>5
<1> QED BY <1>1, <1>2, <1>4, <1>6, <1>7, <1>8, <1>9, <1>10

(* Whatever the slave is doing, there is time for it.                      *)
LEMMA SomethingOutlasted ==
  ASSUME NEW outage \in Nat, TypeOK, PlaceInv, OutageInv(outage), BackInv(outage), job = "back"
  PROVE  \E away \in Nat : Outlasts(outage, away)
<1>1. slave \in {"serving"} \cup Booting \cup Hung BY DEF TypeOK, OutageInv
<1>2. boot \in Nat /\ dog \in Nat /\ wait \in Nat /\ BackMs \in Nat BY Times
<1>3. CASE slave = "serving"
  <2>1. Outlasts(outage, IF at = "pause" THEN wait ELSE 0) BY <1>3 DEF BackInv
  <2> QED BY <1>2, <2>1
<1>4. CASE slave \in Booting
  <2>1. Outlasts(outage, boot + BackMs) BY <1>4 DEF BackInv
  <2> QED BY <1>2, <2>1
<1>5. CASE slave \in Hung
  <2>1. WarmMs \subseteq Nat /\ WarmMs # {} BY RecoveryAssumption
  <2>2. PICK t \in WarmMs : t \in Nat BY <2>1
  <2>3. Outlasts(outage, dog + t + BackMs) BY <1>5 DEF BackInv
  <2>4. dog + t + BackMs \in Nat BY <1>2, <2>2
  <2> QED BY <2>3, <2>4
<1> QED BY <1>1, <1>3, <1>4, <1>5

(* A mishap costs one outage of the budget.                                *)
LEMMA MishapFits ==
  ASSUME NEW outage \in Nat, TypeOK, PlaceInv, OutageInv(outage), BackInv(outage),
         job = "back", trouble < MaxTrouble, trouble' = trouble + 1,
         UNCHANGED placeVars, lost' = lost,
         NEW away \in Nat, away <= outage
  PROVE  away + Mishaps(trouble', outage) + Losses(lost')
           < IF at' = "probe" THEN wait' + Polls(n') ELSE wait' + ProbeMs + Polls(n' + 1)
<1>1. at' = at /\ n' = n /\ wait' = wait BY DEF placeVars
<1>2. PICK now \in Nat : Outlasts(outage, now) BY SomethingOutlasted
<1>3. trouble \in 0..MaxTrouble BY DEF TypeOK
<1>4. Mishaps(trouble, outage) = Mishaps(trouble + 1, outage) + outage
  BY <1>3, Budgets
<1>5. Mishaps(trouble + 1, outage) \in Nat
  <2>1. trouble + 1 \in 0..MaxTrouble
    <3>1. MaxTrouble \in Nat BY RecoveryAssumption
    <3> QED BY <1>3, <3>1
  <2> QED BY <2>1, Budgets
<1>6. away + Mishaps(trouble + 1, outage) + Losses(lost)
        <= now + Mishaps(trouble, outage) + Losses(lost)
  BY <1>4, <1>5, BackNumbers
<1>7. now + Mishaps(trouble, outage) + Losses(lost)
        < IF at = "probe" THEN wait + Polls(n) ELSE wait + ProbeMs + Polls(n + 1)
  BY <1>2 DEF Outlasts
<1>8. wait + Polls(n) \in Int /\ wait + ProbeMs + Polls(n + 1) \in Int
  BY BackNumbers, Times
<1> QED BY <1>1, <1>5, <1>6, <1>7, <1>8, BackNumbers

(* The steps of the master.                                                *)
LEMMA BackMaster ==
  ASSUME NEW outage \in Nat, Timings(outage),
         TypeOK, PlaceInv, OutageInv(outage), BackInv(outage),
         \/ Others
         \/ FirstHeard \/ AwayHeard \/ AwayUnheard \/ BackUnheard \/ PauseOver \/ PulseOver
  PROVE  BackInv(outage)'
<1>0. slave' = slave /\ boot' = boot /\ dog' = dog /\ trouble' = trouble
  BY MasterLeavesSlave
<1>1. CASE job' # "back" BY <1>1 DEF BackInv
<1>2. CASE Others
  <2>1. Elsewhere BY <1>2, OthersPlace
  <2> QED BY <1>1, <2>1 DEF Elsewhere
<1>3. CASE FirstHeard \/ AwayHeard BY <1>1, <1>3, FirstHeardIs, AwayHeardIs
<1>4. CASE AwayUnheard
  <2>1. at' = "probe" /\ job = "away" /\ n' = 1 /\ wait' = ProbeMs
    BY <1>4, AwayUnheardIs
  <2>2. lost' \in 0..MaxLost
    <3>1. Unheard BY <1>4, Zenon DEF AwayUnheard
    <3> QED BY <3>1, ProbeTypes
  <2>3. outage + Mishaps(trouble', outage) + Losses(lost') < wait' + Polls(n')
    BY <1>0, <2>1, <2>2, BudgetAtFirst
  <2>4. /\ Losses(lost') \in Nat /\ Mishaps(trouble', outage) \in Nat /\ wait' + Polls(n') \in Int
    <3>1. Losses(lost') \in Nat BY <2>2, Budgets
    <3>2. Polls(1) \in Int BY Budgets
    <3> QED BY <1>0, <2>1, <3>1, <3>2, BackNumbers, Times
  <2>5. ASSUME NEW away \in Nat, away <= outage
        PROVE  away + Mishaps(trouble', outage) + Losses(lost') < wait' + Polls(n')
    BY <2>3, <2>4, <2>5
  <2>6. slave' \in Booting =>
          boot' + BackMs + Mishaps(trouble', outage) + Losses(lost') < wait' + Polls(n')
    <3>1. slave \in Booting => boot + BackMs <= outage BY DEF OutageInv
    <3> QED BY <1>0, <2>5, <3>1, Times
  <2>7. ASSUME slave' \in Hung, NEW t \in WarmMs
        PROVE  dog' + t + BackMs + Mishaps(trouble', outage) + Losses(lost') < wait' + Polls(n')
    <3>1. dog + t + BackMs <= outage BY <1>0, <2>7 DEF OutageInv
    <3>2. WarmMs \subseteq Nat BY RecoveryAssumption
    <3>3. dog + t + BackMs \in Nat BY <3>2, Times
    <3> QED BY <1>0, <2>5, <3>1, <3>3
  <2>8. 0 + Mishaps(trouble', outage) + Losses(lost') < wait' + Polls(n') BY <2>5
  <2>9. n' <= BackPolls BY <2>1, RecoveryAssumption
  <2> QED BY <2>1, <2>6, <2>7, <2>8, <2>9 DEF BackInv, Outlasts
<1>5. CASE BackUnheard
  <2>1. /\ at = "probe" /\ job = "back" /\ Unheard
        /\ at' = "pause" /\ n' = n /\ wait' = BackMs
    BY <1>5, BackUnheardIs
  <2>2. n <= BackPolls BY <2>1 DEF BackInv
  <2>3. CASE slave # "serving" /\ wait = 0 /\ lost' = lost
    <3>1. ASSUME NEW away \in Nat, Outlasts(outage, away)
          PROVE  away + Mishaps(trouble', outage) + Losses(lost')
                   < wait' + ProbeMs + Polls(n' + 1)
      <4>1. away + Mishaps(trouble, outage) + Losses(lost) < wait + Polls(n)
        BY <2>1, <3>1 DEF Outlasts
      <4> QED BY <1>0, <2>1, <2>3, <4>1, BackNumbers, Times
    <3>2. slave' \in Booting =>
            boot' + BackMs + Mishaps(trouble', outage) + Losses(lost')
              < wait' + ProbeMs + Polls(n' + 1)
      <4>1. slave \in Booting => Outlasts(outage, boot + BackMs) BY <2>1 DEF BackInv
      <4> QED BY <1>0, <3>1, <4>1, Times
    <3>3. ASSUME slave' \in Hung, NEW t \in WarmMs
          PROVE  dog' + t + BackMs + Mishaps(trouble', outage) + Losses(lost')
                   < wait' + ProbeMs + Polls(n' + 1)
      <4>1. Outlasts(outage, dog + t + BackMs) BY <1>0, <2>1, <3>3 DEF BackInv
      <4>2. WarmMs \subseteq Nat BY RecoveryAssumption
      <4>3. dog + t + BackMs \in Nat BY <4>2, Times
      <4> QED BY <1>0, <3>1, <4>1, <4>3
    <3> QED BY <1>0, <2>1, <2>2, <2>3, <3>2, <3>3 DEF BackInv, Outlasts
  <2>4. CASE slave = "serving" /\ lost < MaxLost /\ lost' = lost + 1
    <3>1. Outlasts(outage, 0) BY <2>1, <2>4 DEF BackInv
    <3>2. 0 + Mishaps(trouble, outage) + Losses(lost) < wait + Polls(n)
      BY <2>1, <3>1 DEF Outlasts
    <3>3. Losses(lost) = Losses(lost') + BackMs + ProbeMs /\ Losses(lost') \in Nat
      <4>1. lost \in 0..MaxLost /\ MaxLost \in Nat BY RecoveryAssumption DEF TypeOK
      <4>2. lost + 1 \in 0..MaxLost BY <2>4, <4>1
      <4> QED BY <2>4, <4>1, <4>2, Budgets
    <3>4. wait' + Mishaps(trouble', outage) + Losses(lost')
            < wait' + ProbeMs + Polls(n' + 1)
      <4>1. wait <= ProbeMs BY <2>1 DEF PlaceInv
      <4> QED BY <1>0, <2>1, <3>2, <3>3, <4>1, BackNumbers, Times
    <3>5. slave' = "serving" /\ slave' \notin Booting \cup Hung
      BY <1>0, <2>4 DEF Booting, Hung
    <3> QED BY <2>1, <2>2, <3>4, <3>5 DEF BackInv, Outlasts
  <2> QED BY <2>1, <2>3, <2>4 DEF Unheard
<1>6. CASE PauseOver
  <2>1. CASE Elsewhere BY <1>1, <2>1 DEF Elsewhere
  <2>2. CASE /\ at = "pause" /\ wait = 0 /\ lost' = lost
             /\ job = "back" /\ job' = "back" /\ n < BackPolls
             /\ at' = "probe" /\ n' = n + 1 /\ wait' = ProbeMs
    <3>1. ASSUME NEW away \in Nat, Outlasts(outage, away)
          PROVE  away + Mishaps(trouble', outage) + Losses(lost') < wait' + Polls(n')
      <4>1. away + Mishaps(trouble, outage) + Losses(lost) < wait + ProbeMs + Polls(n + 1)
        BY <2>2, <3>1 DEF Outlasts
      <4> QED BY <1>0, <2>2, <4>1, BackNumbers, Times
    <3>2. slave' \in Booting =>
            boot' + BackMs + Mishaps(trouble', outage) + Losses(lost') < wait' + Polls(n')
      <4>1. slave \in Booting => Outlasts(outage, boot + BackMs) BY <2>2 DEF BackInv
      <4> QED BY <1>0, <3>1, <4>1, Times
    <3>3. ASSUME slave' \in Hung, NEW t \in WarmMs
          PROVE  dog' + t + BackMs + Mishaps(trouble', outage) + Losses(lost') < wait' + Polls(n')
      <4>1. Outlasts(outage, dog + t + BackMs) BY <1>0, <2>2, <3>3 DEF BackInv
      <4>2. WarmMs \subseteq Nat BY RecoveryAssumption
      <4>3. dog + t + BackMs \in Nat BY <4>2, Times
      <4> QED BY <1>0, <3>1, <4>1, <4>3
    <3>4. slave' = "serving" =>
            0 + Mishaps(trouble', outage) + Losses(lost') < wait' + Polls(n')
      <4>1. slave = "serving" => Outlasts(outage, 0) BY <2>2 DEF BackInv
      <4> QED BY <1>0, <3>1, <4>1
    <3>5. n' <= BackPolls BY <2>2, BackNumbers
    <3> QED BY <2>2, <3>2, <3>3, <3>4, <3>5 DEF BackInv, Outlasts
  <2>3. CASE job' = "away" BY <1>1, <2>3
  <2> QED BY <1>6, <2>1, <2>2, <2>3, PauseOverIs
<1>7. CASE PulseOver
  <2>1. job' # "back"
    <3>1. CASE Elsewhere BY <3>1 DEF Elsewhere
    <3>2. CASE job' = "away" BY <3>2
    <3> QED BY <1>7, <3>1, <3>2, PulseOverIs
  <2> QED BY <1>1, <2>1
<1> QED BY <1>2, <1>3, <1>4, <1>5, <1>6, <1>7
(* A slave that starts to boot because of a mishap of its own.             *)
LEMMA BackMishap ==
  ASSUME NEW outage \in Nat, Timings(outage),
         TypeOK, PlaceInv, OutageInv(outage), BackInv(outage), Hang \/ Reflash
  PROVE  BackInv(outage)'
<1>0. /\ trouble < MaxTrouble /\ trouble' = trouble + 1 /\ lost' = lost
      /\ UNCHANGED placeVars
  BY Zenon DEF Hang, Reflash
<1>1. at' = at /\ job' = job /\ n' = n /\ wait' = wait BY <1>0 DEF placeVars
<1> SUFFICES ASSUME job = "back" PROVE BackInv(outage)'
  BY <1>1 DEF BackInv
<1>2. n' <= BackPolls BY <1>1 DEF BackInv
<1>3. CASE Hang
  <2>1. slave' \in Hung /\ dog' \in DogMs BY <1>3, Zenon DEF Hang
  <2>2. slave' \notin Booting /\ slave' # "serving" BY <2>1 DEF Hung, Booting
  <2>3. ASSUME NEW t \in WarmMs PROVE Outlasts(outage, dog + t + BackMs)'
    <3>1. dog' + t + BackMs <= outage BY <2>1, <2>3, Zenon DEF Timings
    <3>2. dog' + t + BackMs \in Nat
      <4>1. DogMs \subseteq Nat /\ WarmMs \subseteq Nat /\ BackMs \in Nat BY RecoveryAssumption
      <4>2. dog' \in Nat BY <2>1, <4>1
      <4>3. t \in Nat BY <4>1
      <4>4. \A a, b, c \in Nat : a + b + c \in Nat OBVIOUS
      <4> QED BY <4>1, <4>2, <4>3, <4>4
    <3> QED BY <1>0, <3>1, <3>2, MishapFits DEF Outlasts
  <2> QED BY <1>2, <2>2, <2>3 DEF BackInv
<1>4. CASE Reflash
  <2>1. Comes("cold", ColdMs) BY <1>4, Zenon DEF Reflash
  <2>2. slave' = "cold" /\ boot' \in Nat /\ boot' + BackMs <= outage
    BY <2>1, ComesTimes DEF Booting
  <2>3. Outlasts(outage, boot + BackMs)'
    <3>1. boot' + BackMs \in Nat BY <2>2, Times
    <3> QED BY <1>0, <2>2, <3>1, MishapFits DEF Outlasts
  <2>4. slave' \notin Hung /\ slave' # "serving" BY <2>2 DEF Hung
  <2> QED BY <1>2, <2>3, <2>4 DEF BackInv
<1> QED BY <1>3, <1>4

(* The slave comes back, or its watchdog brings it back.                   *)
LEMMA BackSlave ==
  ASSUME NEW outage \in Nat, Timings(outage),
         TypeOK, PlaceInv, OutageInv(outage), BackInv(outage), Booted \/ FsTick \/ WatchdogBite
  PROVE  BackInv(outage)'
<1>0. lost' = lost /\ trouble' = trouble /\ UNCHANGED placeVars
  BY Zenon DEF Booted, FsTick, WatchdogBite
<1>1. at' = at /\ job' = job /\ n' = n /\ wait' = wait BY <1>0 DEF placeVars
<1> SUFFICES ASSUME job = "back" PROVE BackInv(outage)'
  BY <1>1 DEF BackInv
<1>2. n' <= BackPolls /\ at \in {"probe", "pause"} BY <1>1 DEF BackInv, PlaceInv
<1>3. CASE Booted
  <2>1. slave \in Booting /\ boot = 0 /\ slave' = "serving" BY <1>3, Zenon DEF Booted
  <2>2. slave' \notin Booting \cup Hung BY <2>1 DEF Booting, Hung
  <2>3. boot + BackMs + Mishaps(trouble, outage) + Losses(lost)
          < IF at = "probe" THEN wait + Polls(n) ELSE wait + ProbeMs + Polls(n + 1)
    BY <2>1 DEF BackInv, Outlasts
  <2>4. at = "pause" => wait <= BackMs BY DEF PlaceInv
  <2>5. (IF at = "pause" THEN wait ELSE 0) + Mishaps(trouble, outage) + Losses(lost)
          < IF at = "probe" THEN wait + Polls(n) ELSE wait + ProbeMs + Polls(n + 1)
    <3>1. wait + Polls(n) \in Int /\ wait + ProbeMs + Polls(n + 1) \in Int
      BY BackNumbers, Times
    <3> QED BY <1>2, <2>1, <2>3, <2>4, <3>1, BackNumbers, Times
  <2>6. Outlasts(outage, IF at = "pause" THEN wait ELSE 0)'
    BY <1>0, <1>1, <2>5 DEF Outlasts
  <2> QED BY <1>2, <2>1, <2>2, <2>6 DEF BackInv
<1>4. ASSUME UNCHANGED <<slave, boot, dog>> PROVE BackInv(outage)'
  BY <1>0, <1>1, <1>4 DEF BackInv, Outlasts
<1>5. CASE FsTick
  <2>1. ~fs BY <1>2 DEF PlaceInv
  <2> QED BY <1>4, <1>5, <2>1 DEF FsTick
<1>6. CASE WatchdogBite
  <2>1. slave \in Hung /\ dog = 0 /\ slave' = "warm" /\ boot' \in WarmMs
    BY <1>6, Zenon DEF WatchdogBite, Reboot, Comes
  <2>2. slave' \in Booting /\ slave' \notin Hung /\ slave' # "serving" BY <2>1 DEF Booting, Hung
  <2>3. Outlasts(outage, dog + boot' + BackMs) BY <2>1 DEF BackInv
  <2>4. dog + boot' + BackMs = boot' + BackMs
    <3>1. WarmMs \subseteq Nat BY RecoveryAssumption
    <3> QED BY <2>1, <3>1, Times
  <2>5. Outlasts(outage, boot + BackMs)' BY <1>0, <1>1, <2>3, <2>4 DEF Outlasts
  <2> QED BY <1>2, <2>2, <2>5 DEF BackInv
<1> QED BY <1>3, <1>5, <1>6

(* Time passes for the probes no faster than for the slave.                *)
LEMMA BackTime ==
  ASSUME NEW outage \in Nat,
         TypeOK, PlaceInv, OutageInv(outage), BackInv(outage), Advance
  PROVE  BackInv(outage)'
<1>0. /\ at' = at /\ job' = job /\ n' = n /\ slave' = slave
      /\ lost' = lost /\ trouble' = trouble
      /\ ~(at = "probe" /\ slave = "serving")
  BY Zenon DEF Advance
<1> SUFFICES ASSUME job = "back" PROVE BackInv(outage)'
  BY <1>0 DEF BackInv
<1>1. n' <= BackPolls /\ at \in {"probe", "pause"} BY <1>0 DEF BackInv, PlaceInv
<1>2. PICK s \in Nat : /\ at # "idle" => s <= wait /\ wait' = wait - s
                       /\ slave \in Booting => s <= boot /\ boot' = boot - s
                       /\ slave \in Hung => s <= dog /\ dog' = dog - s
  BY TimePasses
<1>3. s <= wait /\ wait' = wait - s BY <1>1, <1>2
<1>4. ASSUME NEW away \in Nat, s <= away, Outlasts(outage, away)
      PROVE  (away - s) + Mishaps(trouble', outage) + Losses(lost')
               < IF at' = "probe" THEN wait' + Polls(n') ELSE wait' + ProbeMs + Polls(n' + 1)
  <2>1. away + Mishaps(trouble, outage) + Losses(lost)
          < IF at = "probe" THEN wait + Polls(n) ELSE wait + ProbeMs + Polls(n + 1)
    BY <1>4 DEF Outlasts
  <2>2. Mishaps(trouble', outage) = Mishaps(trouble, outage) /\ Losses(lost') = Losses(lost)
        /\ Polls(n') = Polls(n) /\ Polls(n' + 1) = Polls(n + 1)
    BY <1>0
  <2> QED BY <1>0, <1>1, <1>3, <1>4, <2>1, <2>2, BackNumbers, Times
<1>5. slave' \in Booting => Outlasts(outage, boot + BackMs)'
  <2> SUFFICES ASSUME slave \in Booting PROVE Outlasts(outage, boot + BackMs)'
    BY <1>0
  <2>1. Outlasts(outage, boot + BackMs) BY DEF BackInv
  <2>2. boot + BackMs \in Nat /\ s <= boot + BackMs /\ boot' + BackMs = (boot + BackMs) - s
    BY <1>2, Times
  <2> QED BY <1>4, <2>1, <2>2 DEF Outlasts
<1>6. ASSUME slave' \in Hung, NEW t \in WarmMs
      PROVE  Outlasts(outage, dog + t + BackMs)'
  <2>1. Outlasts(outage, dog + t + BackMs) BY <1>0, <1>6 DEF BackInv
  <2>2. t \in Nat
    <3>1. WarmMs \subseteq Nat BY RecoveryAssumption
    <3> QED BY <3>1
  <2>3. /\ dog + t + BackMs \in Nat /\ s <= dog + t + BackMs
        /\ dog' + t + BackMs = (dog + t + BackMs) - s
    BY <1>0, <1>2, <1>6, <2>2, Times
  <2> QED BY <1>4, <2>1, <2>3 DEF Outlasts
<1>7. slave' = "serving" => Outlasts(outage, IF at = "pause" THEN wait ELSE 0)'
  <2> SUFFICES ASSUME slave = "serving" PROVE Outlasts(outage, IF at = "pause" THEN wait ELSE 0)'
    BY <1>0
  <2>1. at = "pause" BY <1>0, <1>1
  <2>2. Outlasts(outage, wait) BY <2>1 DEF BackInv
  <2>3. wait \in Nat BY Times
  <2> QED BY <1>0, <1>3, <1>4, <2>1, <2>2, <2>3 DEF Outlasts
<1> QED BY <1>1, <1>5, <1>6, <1>7 DEF BackInv

(* Together.                                                               *)
LEMMA BackStep ==
  ASSUME NEW outage \in Nat, Timings(outage),
         TypeOK, PlaceInv, OutageInv(outage), BackInv(outage), [Next]_vars
  PROVE  BackInv(outage)'
<1>1. CASE UNCHANGED vars
  BY <1>1 DEF vars, placeVars, slaveVars, BackInv, Outlasts
<1>2. CASE Next
  <2>1. \/ Others
        \/ FirstHeard \/ AwayHeard \/ AwayUnheard \/ BackUnheard \/ PauseOver \/ PulseOver
        \/ Booted \/ FsTick \/ WatchdogBite \/ Hang \/ Reflash \/ Advance
    BY <1>2, Zenon DEF Next, Run, Master, Slave, Others
  <2> QED BY <2>1, BackMaster, BackSlave, BackMishap, BackTime
<1> QED BY <1>1, <1>2

(* No step fails the reset test of a slave the FS net reaches.             *)
LEMMA VerdictStep ==
  ASSUME NEW outage \in Nat,
         TypeOK, PlaceInv, OutageInv(outage), PulseInv, BackInv(outage), [Next]_vars,
         wired => verdict \notin {"ignored", "gone"}
  PROVE  (wired => verdict \notin {"ignored", "gone"})'
<1>1. CASE Others
  <2>1. wired' = wired BY <1>1, MasterLeavesSlave
  <2>2. Quiet BY <1>1, OthersPlace
  <2> QED BY <2>1, <2>2 DEF Quiet
<1>2. CASE FirstHeard \/ AwayHeard \/ AwayUnheard \/ BackUnheard \/ PulseOver
  <2>1. wired' = wired BY <1>2, MasterLeavesSlave
  <2>2. verdict' = verdict \/ Quiet
    BY <1>2, FirstHeardIs, AwayHeardIs, AwayUnheardIs, BackUnheardIs, PulseOverIs
  <2> QED BY <2>1, <2>2 DEF Quiet
<1>3. CASE PauseOver
  <2>1. wired' = wired BY <1>3, MasterLeavesSlave
  <2>2. CASE verdict' = verdict BY <2>1, <2>2
  <2>3. CASE job = "away"
    <3>1. at = "pause" BY <1>3, PauseOverIs
    <3>2. ~wired BY <2>3, <3>1 DEF PulseInv
    <3> QED BY <2>1, <3>2
  <2>4. CASE job = "back" /\ n = BackPolls
    <3>1. at = "pause" /\ wait = 0 BY <1>3, PauseOverIs
    <3>2. PICK away \in Nat : Outlasts(outage, away) BY <2>4, SomethingOutlasted
    <3>3. away + Mishaps(trouble, outage) + Losses(lost) < ProbeMs + Polls(BackPolls + 1)
      BY <2>4, <3>1, <3>2, Times DEF Outlasts
    <3> QED BY <3>3, BackNumbers, Times
  <2> QED BY <1>3, <2>2, <2>3, <2>4, PauseOverIs
<1>4. CASE Booted \/ FsTick \/ WatchdogBite \/ Hang \/ Reflash \/ Advance
  <2>1. wired' = wired /\ verdict' = verdict
    BY <1>4, Zenon
    DEF Booted, FsTick, WatchdogBite, Hang, Reflash, Advance, rowVars
  <2> QED BY <2>1
<1>5. CASE UNCHANGED vars BY <1>5 DEF vars, rowVars, slaveVars
<1> QED BY <1>1, <1>2, <1>3, <1>4, <1>5, Zenon DEF Next, Run, Master, Slave, Others

(* Whatever the times, as long as they fit: the reset test fails no slave  *)
(* that answered its first probe and that the FS net reaches, whatever     *)
(* befalls the slave and the probes within the bounds; and it reboots a    *)
(* slave without mishaps once, not twice.                                  *)
THEOREM ResetTestIsFair ==
  ASSUME NEW outage \in Nat, Timings(outage)
  PROVE  Spec => []PulseFits
<1> DEFINE NotFailed == wired => verdict \notin {"ignored", "gone"}
           TimingInv == /\ PlaceInv /\ OutageInv(outage) /\ PulseInv
                        /\ BackInv(outage) /\ NotFailed
<1>1. Init => TimingInv
  <2> SUFFICES ASSUME Init PROVE TimingInv OBVIOUS
  <2>1. /\ at = "probe" /\ job = "link" /\ verdict = "none" /\ fs = FALSE /\ tick = FsPollMs
        /\ trouble = 0
        /\ (slave = "cold" /\ boot \in ColdMs) \/ slave = "absent"
    BY Zenon DEF Init
  <2>2. FsPollMs \in Nat BY RecoveryAssumption
  <2>3. PlaceInv
    <3>1. fs = (at = "pulse") BY <2>1, Zenon
    <3>2. tick <= FsPollMs BY <2>1, <2>2
    <3> QED BY <2>1, <3>1, <3>2, Zenon DEF PlaceInv
  <2>4. slave \in Booting => boot + BackMs <= outage
    <3>1. slave = "cold" => boot \in ColdMs \cup WarmMs BY <2>1
    <3>2. slave \in Booting => slave = "cold" BY <2>1 DEF Booting
    <3> QED BY <3>1, <3>2, Zenon DEF Timings
  <2>5. OutageInv(outage) BY <2>1, <2>4 DEF OutageInv, Hung
  <2>6. PulseInv /\ BackInv(outage) BY <2>1 DEF PulseInv, BackInv
  <2> QED BY <2>1, <2>3, <2>5, <2>6
<1>2. TypeOK /\ TimingInv /\ [Next]_vars => TimingInv'
  <2> SUFFICES ASSUME TypeOK, TimingInv, [Next]_vars PROVE TimingInv' OBVIOUS
  <2>1. PlaceInv' BY PlaceStep
  <2>2. OutageInv(outage)' BY OutageStep
  <2>3. PulseInv' BY PulseStep
  <2>4. BackInv(outage)' BY BackStep
  <2>5. NotFailed' BY VerdictStep
  <2> QED BY <2>1, <2>2, <2>3, <2>4, <2>5
<1>3. TimingInv => PulseFits BY DEF PulseInv, PulseFits
<1> QED BY <1>1, <1>2, <1>3, TypeCorrect, PTL DEF Spec
=============================================================================
