---------------------------- MODULE LinkRecovery ----------------------------
(***************************************************************************)
(* How the master finds, keeps and revives the slave: the HELLO attempts   *)
(* of diag_link_run, the idle loop's probe with its FS escalation          *)
(* (tests/link_diag.c), the rows that use them (tests/tests_link.c), and   *)
(* the slave's life with its boot waits, its FS watch and its watchdog     *)
(* (slave/src/main.c).                                                     *)
(*                                                                         *)
(* An exchange is one step here; LinkSession shows what is inside it.  All *)
(* times are milliseconds.                                                 *)
(***************************************************************************)
EXTENDS Integers, Sequences

CONSTANTS
  HelloMs,      \* LINK_HANDSHAKE_TIMEOUT_US
  ProbeMs,      \* handshake_timeout_us of slave_answers and the reconnect probe
  RetryMs,      \* link_m_resync and the sleep after it
  SweepMs,      \* the rest of diag_link_run once HELLO was answered
  SoakMs,       \* SOAK_MS
  PollMs,       \* period of the idle loop's probe
  PulseMs,      \* LINK_RESET_PULSE_MS
  DetectMs,     \* LINK_RESET_DETECT_MS
  FsPollMs,     \* FS_POLL_MS
  BackoffTicks, \* RECONNECT_BACKOFF_TICKS
  AwayPolls, AwayMs,  \* probes of diag_link_reset_slave until the slave is
  BackPolls, BackMs,  \* gone, and until it is back, and the sleeps between
  ColdMs,       \* how long a boot from power-on may take, console waits included
  WarmMs,       \* how long a boot after a watchdog reset may take
  DogMs,        \* what may be left of the watchdog when the slave hangs
  Phase,        \* when, after FS rises, the slave's timer may tick first
  Wired,        \* may the FS net reach the slave, may it be broken?
  MaxLost,      \* bound on the probes the wire loses
  MaxTrouble    \* bound on the slave's mishaps

ASSUME RecoveryAssumption ==
  /\ {HelloMs, ProbeMs, RetryMs, SweepMs, SoakMs, PollMs, PulseMs, DetectMs,
      FsPollMs, AwayPolls, AwayMs, BackPolls, BackMs} \subseteq Nat \ {0}
  /\ {BackoffTicks, MaxLost, MaxTrouble} \subseteq Nat
  /\ \A times \in {ColdMs, WarmMs, DogMs} : times \subseteq Nat /\ times # {}
  /\ Phase \subseteq 0..FsPollMs /\ Phase # {}
  /\ Wired \subseteq BOOLEAN

VARIABLES
  at,        \* what the master is in
  job,       \* on whose behalf
  n,         \* its attempt number
  wait,      \* time left in it
  todo,      \* rows still to be run
  spell,     \* time left of the soak
  next,      \* time to next_link_probe
  fails,     \* parity of diag_link_try_reconnect's fails
  backoff,   \* its backoff
  contacted, \* s_result.contacted
  verdict,   \* how the last row ended
  pulsed,    \* has the running row pulsed FS?
  fs,        \* level of the FS line
  slave,     \* what the slave is doing
  boot,      \* time left of its boot
  dog,       \* time to its watchdog when it hangs
  ticks,     \* high_ticks of fs_watch_tick
  tick,      \* time to the next fs_watch_tick that matters
  reboots,   \* reboots since the running row began: none, one, more
  news,      \* has the slave come up by itself since s_result was filled?
  wired,     \* does the FS net reach the slave?
  lost, trouble  \* probes lost, mishaps had

placeVars == <<at, job, n, wait>>
rowVars == <<todo, spell, contacted, verdict, pulsed, reboots>>
escalationVars == <<fails, backoff>>
slaveVars == <<slave, boot, dog, ticks, wired, trouble>>
fsVars == <<fs, tick>>
vars == <<placeVars, rowVars, next, escalationVars, slaveVars, fsVars, news, lost>>

LinkRows == <<"link", "soak", "reset">>
Hello == {"link", "soak"}
Reconnect == {"poll", "ask"}
Job == Hello \cup Reconnect \cup {"none", "first", "away", "back"}
Hung == {"hung", "locked"}
Booting == {"cold", "warm"}

(* The FS watch runs from a timer interrupt, so a hung foreground does not *)
(* stop it; masked interrupts ("locked") do.  Ticks that find FS low and   *)
(* nothing counted change nothing and are left out.                        *)
Watching == wired /\ slave \in {"serving", "hung"} /\ (fs \/ ticks > 0)

---------------------------------------------------------------------------
(* What the master turns to.                                               *)

Do(what, for, attempt, time) ==
  at' = what /\ job' = for /\ n' = attempt /\ wait' = time

Probe(for, attempt) ==
  Do("probe", for, attempt, IF for \in Hello THEN HelloMs ELSE ProbeMs)
Rest == Do("idle", "none", 0, 0)

(* A row starts.  diag_link_run clears the result it is given before       *)
(* anything else; that of "Processor link" is s_result.                    *)
Start(row) ==
  /\ Probe(IF row = "reset" THEN "first" ELSE row, 1)
  /\ spell' = IF row = "soak" THEN SoakMs ELSE 0
  /\ contacted' = (contacted /\ row # "link")
  /\ pulsed' = FALSE
  /\ reboots' = 0
RunRows(rows) == Start(Head(rows)) /\ todo' = Tail(rows)

(* A row has its verdict, and the run goes on to the next.                 *)
End(outcome) ==
  /\ verdict' = outcome
  /\ \/ todo # <<>> /\ RunRows(todo)
     \/ todo = <<>> /\ Rest /\ spell' = 0 /\ UNCHANGED <<todo, contacted, pulsed, reboots>>

(* link_m_request_slave_reset raises FS.                                   *)
RaiseFs(for, time) ==
  /\ Do("pulse", for, 0, time)
  /\ fs' = TRUE
  /\ tick' \in IF Watching THEN {tick} ELSE Phase
  /\ pulsed' = TRUE
  /\ UNCHANGED <<todo, spell, contacted, verdict, reboots>>

(* Seeded fault: the pulse is long enough for the slave to come back under *)
(* it.                                                                     *)
PulseTooLong(for) == RaiseFs(for, 10 * PulseMs)
Pulse(for) == RaiseFs(for, PulseMs)

(* A probe is answered by a slave that serves, when the wire does not lose *)
(* one of its frames, or runs out of patience.                             *)
Heard == at = "probe" /\ slave = "serving" /\ UNCHANGED lost
Unheard ==
  /\ at = "probe"
  /\ \/ slave # "serving" /\ wait = 0 /\ UNCHANGED lost
     \/ slave = "serving" /\ lost < MaxLost /\ lost' = lost + 1

---------------------------------------------------------------------------
(* The idle loop.                                                          *)

(* Run All, or one link row on its own.                                    *)
Command(rows) ==
  /\ at = "idle" /\ next > 0
  /\ verdict' = "none"
  /\ RunRows(rows)
  /\ UNCHANGED <<next, escalationVars, slaveVars, fsVars, news, lost>>

(* Seeded fault: the master stops looking after a failure.                 *)
PollGivesUp ==
  /\ at = "idle" /\ next = 0
  /\ next' = PollMs
  /\ IF contacted \/ fails = 1 THEN Rest ELSE Probe("poll", 1)
  /\ UNCHANGED <<rowVars, escalationVars, slaveVars, fsVars, news, lost>>
Poll ==
  /\ at = "idle" /\ next = 0
  /\ next' = PollMs
  /\ IF contacted THEN Rest ELSE Probe("poll", 1)
  /\ UNCHANGED <<rowVars, escalationVars, slaveVars, fsVars, news, lost>>

---------------------------------------------------------------------------
(* diag_link_run, for "Processor link" and "Link soak".                    *)

HelloHeard ==
  /\ Heard /\ job \in Hello
  /\ Do("sweep", job, n, SweepMs)
  /\ contacted' = (contacted \/ job = "link")
  /\ news' = (news /\ job # "link")
  /\ UNCHANGED <<todo, spell, verdict, pulsed, reboots, next, escalationVars, slaveVars, fsVars>>

(* Three attempts, with a resync before each retry; then "Processor link"  *)
(* asks for a reset, and "Link soak" fails.                                *)
HelloUnheard ==
  /\ Unheard /\ job \in Hello
  /\ \/ n < 3 /\ Do("retry", job, n + 1, RetryMs) /\ UNCHANGED rowVars
     \/ n = 3 /\ job = "link" /\ Probe("ask", 1) /\ UNCHANGED rowVars
     \/ n = 3 /\ job = "soak" /\ End("silent")
  /\ UNCHANGED <<next, escalationVars, slaveVars, fsVars, news>>

RetryOver ==
  /\ at = "retry" /\ wait = 0
  /\ Probe(job, n)
  /\ UNCHANGED <<rowVars, next, escalationVars, slaveVars, fsVars, news, lost>>

SweepOver ==
  /\ at = "sweep" /\ wait = 0
  /\ \/ spell > 0 /\ Probe(job, 1) /\ UNCHANGED rowVars
     \/ spell = 0 /\ End(IF job = "link" THEN "tested" ELSE "soaked")
  /\ UNCHANGED <<next, escalationVars, slaveVars, fsVars, news, lost>>

---------------------------------------------------------------------------
(* diag_link_try_reconnect, for the idle loop and for "Processor link".    *)

(* The idle loop runs everything again; t_link ignores the result.         *)
ReconnectHeard ==
  /\ Heard /\ job \in Reconnect
  /\ fails' = 0 /\ backoff' = 0
  /\ \/ job = "poll" /\ RunRows(LinkRows) /\ UNCHANGED verdict
     \/ job = "ask" /\ End("asked")
  /\ UNCHANGED <<next, slaveVars, fsVars, news>>

(* Every second failure asks the slave to reset, unless the master is      *)
(* backing off from having done so.                                        *)
ReconnectDone ==
  \/ job = "poll" /\ Rest /\ UNCHANGED rowVars
  \/ job = "ask" /\ End("asked")
Escalates == backoff = 0 /\ fails = 1

ReconnectUnheard ==
  /\ Unheard /\ job \in Reconnect
  /\ fails' = 1 - fails
  /\ backoff' = IF Escalates THEN BackoffTicks
                ELSE IF backoff > 0 THEN backoff - 1 ELSE 0
  /\ \/ Escalates /\ Pulse(job)
     \/ ~Escalates /\ ReconnectDone /\ UNCHANGED fsVars
  /\ UNCHANGED <<next, slaveVars, news>>

---------------------------------------------------------------------------
(* diag_link_reset_slave, for "Slave reset".                               *)

FirstHeard ==
  /\ Heard /\ job = "first"
  /\ Pulse("first")
  /\ UNCHANGED <<next, escalationVars, slaveVars, news>>

FirstUnheard ==
  /\ Unheard /\ job = "first"
  /\ End("dead")
  /\ UNCHANGED <<next, escalationVars, slaveVars, fsVars, news>>

AwayHeard ==
  /\ Heard /\ job = "away"
  /\ Do("pause", "away", n, AwayMs)
  /\ UNCHANGED <<rowVars, next, escalationVars, slaveVars, fsVars, news>>

AwayUnheard ==
  /\ Unheard /\ job = "away"
  /\ Probe("back", 1)
  /\ UNCHANGED <<rowVars, next, escalationVars, slaveVars, fsVars, news>>

BackHeard ==
  /\ Heard /\ job = "back"
  /\ End("back")
  /\ UNCHANGED <<next, escalationVars, slaveVars, fsVars, news>>

BackUnheard ==
  /\ Unheard /\ job = "back"
  /\ Do("pause", "back", n, BackMs)
  /\ UNCHANGED <<rowVars, next, escalationVars, slaveVars, fsVars, news>>

(* Seeded fault: the probes are not counted.                               *)
PauseOverUncounted ==
  /\ at = "pause" /\ wait = 0
  /\ Probe(job, n)
  /\ UNCHANGED <<rowVars, next, escalationVars, slaveVars, fsVars, news, lost>>
PauseOver ==
  /\ at = "pause" /\ wait = 0
  /\ \/ job = "away" /\ n < AwayPolls /\ Probe("away", n + 1) /\ UNCHANGED rowVars
     \/ job = "away" /\ n = AwayPolls /\ End("ignored")
     \/ job = "back" /\ n < BackPolls /\ Probe("back", n + 1) /\ UNCHANGED rowVars
     \/ job = "back" /\ n = BackPolls /\ End("gone")
  /\ UNCHANGED <<next, escalationVars, slaveVars, fsVars, news, lost>>

(* Seeded fault: the slave is not watched going away.                      *)
PulseOverHasty ==
  /\ at = "pulse" /\ wait = 0
  /\ fs' = FALSE
  /\ \/ job = "first" /\ Probe("back", 1) /\ UNCHANGED rowVars
     \/ job # "first" /\ ReconnectDone
  /\ UNCHANGED <<next, escalationVars, slaveVars, tick, news, lost>>

(* link_m_request_slave_reset lets go of FS.                               *)
PulseOver ==
  /\ at = "pulse" /\ wait = 0
  /\ fs' = FALSE
  /\ \/ job = "first" /\ Probe("away", 1) /\ UNCHANGED rowVars
     \/ job # "first" /\ ReconnectDone
  /\ UNCHANGED <<next, escalationVars, slaveVars, tick, news, lost>>

---------------------------------------------------------------------------
(* The slave.                                                              *)

Comes(how, times) ==
  /\ slave' = how
  /\ boot' \in times
  /\ dog' = 0
  /\ ticks' = 0
  /\ tick' = FsPollMs
  /\ reboots' = IF reboots = 0 THEN 1 ELSE 2
Reboot == Comes("warm", WarmMs)

(* The FS watch and the watchdog start only once the self-test is done.    *)
Booted ==
  /\ slave \in Booting /\ boot = 0
  /\ slave' = "serving"
  /\ tick' = FsPollMs
  /\ UNCHANGED <<placeVars, rowVars, next, escalationVars, boot, dog, ticks, wired,
                 trouble, fs, news, lost>>

FsTick ==
  /\ Watching /\ tick = 0
  /\ \/ fs /\ (ticks + 1) * FsPollMs >= DetectMs /\ Reboot
     \/ /\ fs /\ (ticks + 1) * FsPollMs < DetectMs
        /\ ticks' = ticks + 1 /\ tick' = FsPollMs
        /\ UNCHANGED <<slave, boot, dog, reboots>>
     \/ /\ ~fs
        /\ ticks' = 0 /\ tick' = FsPollMs
        /\ UNCHANGED <<slave, boot, dog, reboots>>
  /\ UNCHANGED <<placeVars, todo, spell, contacted, verdict, pulsed, next, escalationVars,
                 wired, trouble, fs, news, lost>>

WatchdogBite ==
  /\ slave \in Hung /\ dog = 0
  /\ Reboot
  /\ news' = TRUE
  /\ UNCHANGED <<placeVars, todo, spell, contacted, verdict, pulsed, next, escalationVars,
                 wired, trouble, fs, lost>>

(* The foreground hangs, with or without the interrupts.                   *)
Hang ==
  /\ trouble < MaxTrouble /\ slave = "serving"
  /\ trouble' = trouble + 1
  /\ slave' \in Hung
  /\ dog' \in DogMs
  /\ ticks' = IF slave' = "locked" THEN 0 ELSE ticks
  /\ UNCHANGED <<placeVars, rowVars, next, escalationVars, boot, wired, fsVars, news, lost>>

(* The slave is powered up or flashed, for the first time or again.        *)
Reflash ==
  /\ trouble < MaxTrouble
  /\ trouble' = trouble + 1
  /\ Comes("cold", ColdMs)
  /\ news' = TRUE
  /\ UNCHANGED <<placeVars, todo, spell, contacted, verdict, pulsed, next, escalationVars,
                 wired, fs, lost>>

---------------------------------------------------------------------------
(* Time moves to the next deadline once nothing can happen without it.     *)

Lesser(a, b) == IF a <= b THEN a ELSE b

Soonest ==
  LET turn == IF at = "idle" THEN next ELSE wait
      life == IF slave \in Booting THEN boot ELSE IF slave \in Hung THEN dog ELSE turn
      beat == IF Watching THEN tick ELSE turn
  IN  Lesser(turn, Lesser(life, beat))
Less(t) == IF t > Soonest THEN t - Soonest ELSE 0

Advance ==
  /\ ~(at = "probe" /\ slave = "serving")
  /\ Soonest > 0
  /\ wait' = Less(wait) /\ next' = Less(next) /\ spell' = Less(spell)
  /\ boot' = Less(boot) /\ dog' = Less(dog)
  /\ tick' = IF Watching THEN Less(tick) ELSE tick
  /\ UNCHANGED <<at, job, n, todo, contacted, verdict, pulsed, reboots, escalationVars,
                 slave, ticks, wired, trouble, fs, news, lost>>

---------------------------------------------------------------------------
(* main() runs everything once before it enters its loop.                  *)
Init ==
  /\ at = "probe" /\ job = "link" /\ n = 1 /\ wait = HelloMs
  /\ todo = Tail(LinkRows) /\ spell = 0 /\ next = 0
  /\ fails = 0 /\ backoff = 0 /\ contacted = FALSE
  /\ verdict = "none" /\ pulsed = FALSE
  /\ fs = FALSE /\ tick = FsPollMs /\ ticks = 0
  /\ \/ slave = "cold" /\ boot \in ColdMs
     \/ slave = "absent" /\ boot = 0
  /\ dog = 0 /\ reboots = 0 /\ news = TRUE
  /\ wired \in Wired /\ lost = 0 /\ trouble = 0

Commands == {LinkRows} \cup {<<LinkRows[i]>> : i \in 1..Len(LinkRows)}

Master ==
  \/ Poll
  \/ HelloHeard \/ HelloUnheard \/ RetryOver \/ SweepOver
  \/ ReconnectHeard \/ ReconnectUnheard
  \/ FirstHeard \/ FirstUnheard \/ AwayHeard \/ AwayUnheard
  \/ BackHeard \/ BackUnheard \/ PauseOver \/ PulseOver
Slave == Booted \/ FsTick \/ WatchdogBite

Run == Master \/ Slave \/ Advance
Next ==
  \/ Run
  \/ \E rows \in Commands : Command(rows)
  \/ Hang \/ Reflash

Spec == Init /\ [][Next]_vars

(* Both chips keep running and time keeps passing.                         *)
FairSpec == Spec /\ WF_vars(Run)

---------------------------------------------------------------------------
(* Properties.                                                             *)

TypeOK ==
  /\ at \in {"idle", "probe", "pulse", "retry", "sweep", "pause"}
  /\ job \in Job
  /\ n \in Nat
  /\ {wait, spell, next, boot, dog, tick} \subseteq Nat
  /\ todo \in {<<>>, <<"reset">>, <<"soak", "reset">>}
  /\ fails \in 0..1 /\ backoff \in 0..BackoffTicks
  /\ {contacted, pulsed, fs, news, wired} \subseteq BOOLEAN
  /\ verdict \in {"none", "tested", "asked", "soaked", "silent", "dead", "back", "ignored", "gone"}
  /\ slave \in {"absent", "serving"} \cup Booting \cup Hung
  /\ ticks \in Nat /\ ticks * FsPollMs < DetectMs
  /\ reboots \in 0..2 /\ lost \in 0..MaxLost /\ trouble \in 0..MaxTrouble

(* Wherever in its 40 ms the slave's timer is when FS rises, and whatever  *)
(* befalls the slave, the reset test never fails one that answered its     *)
(* first probe: not for ignoring the pulse, not for failing to return.     *)
(* And the pulse is over before the slave watches again: as long as the    *)
(* slave has no mishap of its own, one reset reboots it once, not twice.   *)
PulseFits ==
  /\ wired => verdict \notin {"ignored", "gone"}
  /\ trouble = 0 /\ job \in {"away", "back"} => reboots <= 1

(* What the times must be for that, when no mishap keeps the slave away    *)
(* for longer than outage, a sleep between two probes included: a pulse    *)
(* has room for the ticks that detect it, wherever they fall; no slave     *)
(* that reboots in the pulse is back before the probe that should miss it; *)
(* and the probes for its return outlast the reset, every mishap and every *)
(* lost answer.                                                            *)
Timings(outage) ==
  /\ PulseMs >= DetectMs + FsPollMs
  /\ \A t \in ColdMs \cup WarmMs : t > PulseMs + ProbeMs /\ t + BackMs <= outage
  /\ \A d \in DogMs, t \in WarmMs : d + t + BackMs <= outage
  /\ (MaxTrouble + 1) * outage + MaxLost * (BackMs + ProbeMs)
       < ProbeMs + (BackPolls - 1) * (BackMs + ProbeMs)

(* A passed reset test is proof that the slave rebooted in the course of   *)
(* it: "checking only the last would pass a slave that never rebooted".    *)
PassMeansRebooted == job = "back" /\ slave = "serving" => reboots > 0

(* As far as the code keeps that promise: until the wire loses a probe.    *)
PassIsHonest == lost = 0 => PassMeansRebooted

(* What its proof carries from step to step: from the pulse on, a slave    *)
(* that boots does so because of a reboot within this row.                 *)
InReset == job \in {"away", "back"} \/ (job = "first" /\ at = "pulse")
ResetInv ==
  /\ InReset => slave # "absent"
  /\ InReset /\ slave \in Booting => reboots > 0
  /\ PassMeansRebooted

(* Every row and every probe comes to an end, slave or no slave, so the    *)
(* interface, which waits for it, does too.                                *)
InterfaceReturns == at # "idle" ~> at = "idle"

(* A slave that is there is found, however late it boots, hangs or is      *)
(* flashed, without anybody touching the master.                           *)
SlaveIsFound == slave # "absent" ~> contacted
=============================================================================
