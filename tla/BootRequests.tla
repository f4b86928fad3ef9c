---------------------------- MODULE BootRequests ----------------------------
(***************************************************************************)
(* What a boot of the test firmware finds and what it makes of it: the     *)
(* clock and the video mode asked for before the restart, in the watchdog  *)
(* scratch registers (core/oc_request.c, core/video_request.c), the        *)
(* console preference in flash (core/settings.c), the key held in the boot *)
(* window (core/video_select.c), and the backend that is opened            *)
(* (ui/ui_video.c).  main() goes through them in the steps Main, Load,     *)
(* Select, Open; the commands of the interface start the next boot.  The   *)
(* power may fail and a clock the chip cannot hold may stop it at any      *)
(* moment.  The U key, which only keeps the mouse off, is not here.         *)
(***************************************************************************)
EXTENDS Integers

CONSTANTS
  Boards,      \* descriptors detection or the operator may settle on:
               \* [wired, pio], the outputs and whether HSTX cannot reach them
  Clocks,      \* what dlg_overclock offers, by name
  Stock,       \* what main() starts from
  Cpu, Volt,   \* the frequency and the voltage of each
  Fallback,    \* the frequency when the PLL cannot do the asked one
  Reachable,   \* frequencies the PLL can do
  Holds,       \* pairs <<frequency, voltage>> the chip runs at
  Compiled     \* -DFRANK_VIDEO, or "auto"

Modes == {"hdmi", "vga", "composite"}
Named == Clocks \cup {Stock}
Rates == {Cpu[c] : c \in Named} \cup {Fallback}
Volts == {Volt[c] : c \in Named}

ASSUME BootAssumption ==
  /\ Boards \subseteq [wired : SUBSET Modes, pio : BOOLEAN]
  /\ DOMAIN Cpu = Named /\ DOMAIN Volt = Named
  /\ Named \cap {"none", "junk"} = {}
  /\ Compiled \in Modes \cup {"auto"}
  /\ Cpu[Stock] \in Reachable
  /\ \A v \in Volts : <<Cpu[Stock], v>> \in Holds /\ <<Fallback, v>> \in Holds

VARIABLES
  at,      \* what the firmware is in
  cause,   \* what began this boot
  wish,    \* what that restart was to bring
  video,   \* scratch[3]
  clock,   \* scratch[1] and scratch[2]
  live,    \* s_live, the clock main() has settled on
  cpu,     \* system clock
  volt,    \* what the regulator gives
  core1,   \* where the other core runs from: parked, ram, flash, or lost
  board,   \* g_detect.board
  choice,  \* g_choice.source
  mode,    \* g_choice.mode, then that of the backend that is open
  record,  \* the FRANKID sector
  kept,    \* g_console_kept
  hope,    \* what the last save was to write
  shown,   \* what the menu last showed of the console preference
  hurt     \* has a save failed or been cut short since?

scratchVars == <<video, clock>>
clockVars == <<live, cpu, volt>>
videoVars == <<core1, board, choice, mode>>
recordVars == <<record, hope, shown, hurt>>
vars == <<at, cause, wish, scratchVars, clockVars, videoVars, recordVars, kept>>

Booting == {"main", "load", "select", "open"}
Running == {"run", "erased"}

---------------------------------------------------------------------------
(* Power, and the ends of a boot.                                          *)

(* A save that is cut short leaves nothing, part of the record, or all.    *)
CutShort ==
  /\ record' \in IF at = "erased" THEN {"blank", "torn", hope} ELSE {record}
  /\ hurt' = (hurt \/ at = "erased")

(* What the RAM held is gone.                                              *)
Forget ==
  /\ live' = "none" /\ cpu' = Cpu[Stock]
  /\ choice' = "none" /\ mode' = "none"
  /\ kept' = FALSE

PowerOff ==
  /\ at # "off" /\ at' = "off"
  /\ cause' = "power" /\ wish' = "none"
  /\ video' \in {"none", "junk"} /\ clock' \in {"none", "junk"}
  /\ Forget
  /\ volt' = Volt[Stock]
  /\ core1' = "parked"
  /\ CutShort
  /\ UNCHANGED <<board, hope, shown>>

PowerOn ==
  /\ at = "off" /\ at' = "main"
  /\ UNCHANGED <<cause, wish, scratchVars, clockVars, videoVars, recordVars, kept>>

(* The chip stops at a clock it cannot hold.                               *)
Stop ==
  /\ at \in Booting \cup Running
  /\ <<cpu, volt>> \notin Holds
  /\ at' = "hung"
  /\ CutShort
  /\ UNCHANGED <<cause, wish, scratchVars, clockVars, videoVars, hope, shown, kept>>

(* watchdog_reboot.  The scratch registers survive it; the other core may  *)
(* go on with what it was doing, and the regulator may keep its voltage.   *)
Reboot(why, what) ==
  /\ at = "run" /\ at' = "main"
  /\ cause' = why /\ wish' = what
  /\ Forget
  /\ volt' \in {volt, Volt[Stock]}
  /\ core1' \in {core1, "parked"}
  /\ UNCHANGED <<board, recordVars>>

---------------------------------------------------------------------------
(* main().                                                                 *)

(* oc_request_take and what main makes of it: the voltage if one is asked  *)
(* for, the clock, and a slow one when the PLL cannot do it.  Seeded       *)
(* fault: the registers are not cleared.                                    *)
Apply(wanted) ==
  /\ live' = wanted
  /\ volt' = IF Volt[wanted] # Volt[Stock] THEN Volt[wanted] ELSE volt
  /\ cpu' = IF Cpu[wanted] \in Reachable THEN Cpu[wanted] ELSE Fallback
TakeAndKeep ==
  /\ Apply(IF clock \in Clocks THEN clock ELSE Stock)
  /\ UNCHANGED clock
TakeClock ==
  /\ Apply(IF clock \in Clocks THEN clock ELSE Stock)
  /\ clock' = "none"

Main ==
  /\ at = "main" /\ at' = "load"
  /\ TakeClock
  /\ UNCHANGED <<cause, wish, video, videoVars, recordVars, kept>>

(* settings_load: a sector that does not validate reads as the defaults.   *)
(* Seeded fault: the checksum is not looked at.                            *)
LoadTorn ==
  /\ at = "load" /\ at' = "select"
  /\ kept' = (record \in {"keep", "torn"})
  /\ shown' = kept' /\ hurt' = FALSE
  /\ UNCHANGED <<cause, wish, scratchVars, clockVars, videoVars, record, hope>>
Load ==
  /\ at = "load" /\ at' = "select"
  /\ kept' = (record = "keep")
  /\ shown' = kept' /\ hurt' = FALSE
  /\ UNCHANGED <<cause, wish, scratchVars, clockVars, videoVars, record, hope>>

(* video_detect_run: a board with an HDMI socket is taken to use it.       *)
Verdicts(b) == IF "hdmi" \in b.wired THEN {"hdmi"} ELSE {"vga", "none"}

(* video_select_boot_window, by precedence.  A mode no backend has becomes *)
(* "auto" on the way back to main.  Seeded fault: what was detected comes  *)
(* before what was asked for.                                              *)
ChooseDetectedFirst(b, key, verdict) ==
  IF key \in b.wired THEN <<"key", key>>
  ELSE IF verdict \in b.wired THEN <<"auto", verdict>>
  ELSE IF video \in b.wired THEN <<"asked", video>>
  ELSE <<"default", "auto">>
Choose(b, key, verdict) ==
  IF key \in b.wired THEN <<"key", key>>
  ELSE IF video \in b.wired THEN <<"asked", video>>
  ELSE IF Compiled \in b.wired THEN <<"compiled", Compiled>>
  ELSE IF verdict \in b.wired THEN <<"auto", verdict>>
  ELSE <<"default", IF "hdmi" \in b.wired THEN "hdmi" ELSE "auto">>

(* video_request_take.  A board without a connector gets no window and     *)
(* leaves the request where it is, and so does a key that is obeyed.       *)
(* Seeded fault: it is read and not cleared.                               *)
TakeVideoAndKeep(b, key) == video' = video
TakeVideo(b, key) ==
  video' = IF b.wired = {} \/ key \in b.wired THEN video ELSE "none"

Select ==
  /\ at = "select" /\ at' = "open"
  /\ \E b \in Boards, key \in Modes \cup {"none", "auto"}, verdict \in {"hdmi", "vga", "none"} :
       /\ verdict \in Verdicts(b)
       /\ board' = b
       /\ choice' = Choose(b, key, verdict)[1]
       /\ mode' = Choose(b, key, verdict)[2]
       /\ TakeVideo(b, key)
  /\ UNCHANGED <<cause, wish, clock, clockVars, core1, recordVars, kept>>

(* ui_video_open: the backend for the mode, or the first that comes up.    *)
(* Each resets the other core before it launches its scanout there; only   *)
(* HSTX HDMI leaves that core in a loop that runs from flash.  Seeded      *)
(* fault: without the reset, the launch waits for a core that is busy.     *)
Launch == core1' = IF mode' = "hdmi" /\ ~board.pio THEN "flash" ELSE "ram"
OpenWithoutReset ==
  /\ at = "open" /\ core1 = "parked" /\ at' = "run"
  /\ mode' = IF mode = "auto" THEN "hdmi" ELSE mode
  /\ Launch
  /\ UNCHANGED <<cause, wish, scratchVars, clockVars, board, choice, recordVars, kept>>
Open ==
  /\ at = "open" /\ at' = "run"
  /\ mode' = IF mode = "auto" THEN "hdmi" ELSE mode
  /\ Launch
  /\ UNCHANGED <<cause, wish, scratchVars, clockVars, board, choice, recordVars, kept>>

---------------------------------------------------------------------------
(* The commands of the interface.                                          *)

(* ui_video_switch.  The menu offers what the board has and does not show. *)
SwitchVideo(wanted) ==
  /\ wanted \in (board.wired \cup {"auto"}) \ {mode}
  /\ video' = wanted
  /\ Reboot("switch", wanted)
  /\ UNCHANGED clock

(* Apply and Restart.                                                      *)
Overclock(wanted) ==
  /\ clock' = wanted
  /\ Reboot("clock", wanted)
  /\ UNCHANGED video

Restart == Reboot("restart", "none") /\ UNCHANGED scratchVars

(* BOOTSEL, and a new image: the boot ROM may clear what it finds.         *)
Reflash ==
  /\ Reboot("reflash", "none")
  /\ video' \in {video, "none"} /\ clock' \in {clock, "none"}

(* Set Board, for this session.  The slave halves, which have no output,   *)
(* are not offered.                                                        *)
SetBoard(b) ==
  /\ at = "run" /\ b # board /\ b.wired # {}
  /\ board' = b
  /\ UNCHANGED <<at, cause, wish, scratchVars, clockVars, core1, choice, mode, recordVars, kept>>

(* File > Serial Console: settings_save erases the sector, then programs   *)
(* it and reads it back.  The other core is not stopped, and one that runs *)
(* from flash may not survive the sector it fetches through being away.    *)
Erase ==
  /\ at = "run" /\ at' = "erased"
  /\ hope' = IF kept THEN "drop" ELSE "keep"
  /\ record' = "blank"
  /\ core1' \in {core1} \cup {lost \in {"lost"} : core1 = "flash"}
  /\ UNCHANGED <<cause, wish, scratchVars, clockVars, board, choice, mode, shown, hurt, kept>>

Program ==
  /\ at = "erased" /\ at' = "run"
  /\ \/ record' = hope /\ kept' = ~kept /\ shown' = kept' /\ hurt' = FALSE
     \/ record' \in {"blank", "torn"} /\ hurt' = TRUE /\ UNCHANGED <<kept, shown>>
  /\ UNCHANGED <<cause, wish, scratchVars, clockVars, videoVars, hope>>

---------------------------------------------------------------------------

Init ==
  /\ at = "off" /\ cause = "power" /\ wish = "none"
  /\ video \in {"none", "junk"} /\ clock \in {"none", "junk"}
  /\ live = "none" /\ cpu = Cpu[Stock] /\ volt = Volt[Stock]
  /\ core1 = "parked" /\ board \in Boards /\ choice = "none" /\ mode = "none"
  /\ record = "blank" /\ hope = "drop"
  /\ kept = FALSE /\ shown = FALSE /\ hurt = FALSE

Boot == PowerOn \/ Main \/ Load \/ Select \/ Open

Commands ==
  \/ \E wanted \in Modes \cup {"auto"} : SwitchVideo(wanted)
  \/ \E wanted \in Clocks : Overclock(wanted)
  \/ Restart
  \/ Reflash
  \/ \E b \in Boards : SetBoard(b)
  \/ Erase

Next == PowerOff \/ Stop \/ Boot \/ Commands \/ Program

Spec == Init /\ [][Next]_vars

(* The firmware does not stop by itself between two steps, and nothing in  *)
(* a boot waits for longer than its window.                                *)
FairSpec == Spec /\ WF_vars(Boot) /\ WF_vars(Program)

---------------------------------------------------------------------------
(* Properties.                                                             *)

Began == at \in (Booting \cup Running \cup {"hung"}) \ {"main"}

TypeOK ==
  /\ at \in {"off", "hung"} \cup Booting \cup Running
  /\ cause \in {"power", "restart", "reflash", "switch", "clock"}
  /\ wish \in {"none", "auto"} \cup Modes \cup Clocks
  /\ video \in {"none", "junk", "auto"} \cup Modes
  /\ clock \in {"none", "junk"} \cup Clocks
  /\ live \in {"none", Stock} \cup Clocks
  /\ cpu \in Rates /\ volt \in Volts
  /\ core1 \in {"parked", "ram", "flash", "lost"}
  /\ board \in Boards
  /\ choice \in {"none", "key", "asked", "compiled", "auto", "default"}
  /\ mode \in {"none", "auto"} \cup Modes
  /\ record \in {"blank", "torn", "keep", "drop"} /\ hope \in {"keep", "drop"}
  /\ kept \in BOOLEAN /\ shown \in BOOLEAN /\ hurt \in BOOLEAN

(* The firmware only ever stops in a boot the operator asked to overclock: *)
(* pulling the plug, or any other restart, brings the interface back.      *)
OnlyAnOverclockHangs == at = "hung" => cause = "clock"

(* "Power it off and on and it returns to defaults": a boot from power-on  *)
(* runs the built-in clock and voltage, whatever the registers came up     *)
(* with, and shows no mode a former session asked for.                     *)
PowerOnIsStock ==
  cause = "power" /\ Began =>
    /\ live = Stock /\ volt = Volt[Stock]
    /\ choice # "asked"

(* Whatever was asked for, the way out is the plug: both of the above.     *)
PlugCures == OnlyAnOverclockHangs /\ PowerOnIsStock

(* The boot a request restarts into carries it out: the clock and voltage  *)
(* if the PLL can do them, the mode if the board has it and no key was     *)
(* held; neither kind of request disturbs the other's register.            *)
RequestsAreHonoured ==
  /\ cause = "clock" /\ Began =>
       /\ cpu = IF Cpu[wish] \in Reachable THEN Cpu[wish] ELSE Fallback
       /\ Volt[wish] # Volt[Stock] => volt = Volt[wish]
  /\ cause = "switch" /\ at = "open" /\ choice # "key" /\ wish \in board.wired =>
       mode = wish

(* oc_request.h: the request "survives the reboot that applies it, is      *)
(* consumed there": the very next boot takes it or drops it.               *)
ClockMail == INSTANCE OneShotRequest WITH
  Requests <- Clocks \ {Stock}, Nothing <- "none", MayWait <- FALSE,
  box <- IF clock \in Clocks \ {Stock} THEN clock ELSE "none",
  taken <- IF live \in Clocks \ {Stock} THEN live ELSE "none",
  up <- live # "none"
ClockIsOneShot == ClockMail!Spec

(* video_request.h: "clears it, so it applies once".  It may wait over a   *)
(* boot in which a key was obeyed, but it never applies a second time.     *)
VideoMail == INSTANCE OneShotRequest WITH
  Requests <- Modes, Nothing <- "none", MayWait <- TRUE,
  box <- IF video \in Modes THEN video ELSE "none",
  taken <- IF choice = "asked" THEN mode ELSE "none",
  up <- choice # "none"
VideoIsOneShot == VideoMail!Spec

(* Both mailboxes keep their promise side by side.                         *)
RequestsAreOneShot == ClockIsOneShot /\ VideoIsOneShot

(* What a boot reads as the console preference is what the menu last       *)
(* showed; after a save that failed or was cut short it is the default or  *)
(* what was being saved, never anything else.                              *)
ConsoleIsExplained ==
  [][Load => kept' \in IF hurt THEN {FALSE, hope = "keep"} ELSE {shown}]_vars

(* A boot ends with the interface up, the power gone, or a clock that does *)
(* not hold; in particular the other core never blocks it.                 *)
BootEnds == at = "main" ~> at \in {"run", "hung", "off"}

---------------------------------------------------------------------------
(* What the comments say and the code does not do.                         *)

(* settings.h of settings_save: "Must not run with the other core          *)
(* executing from flash".                                                  *)
FlashIsLeftAlone == at = "erased" => core1 \notin {"flash", "lost"}
=============================================================================
