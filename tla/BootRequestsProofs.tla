------------------------- MODULE BootRequestsProofs -------------------------
(***************************************************************************)
(* What TLAPS proves of BootRequests, for all boards, clocks, voltages and *)
(* whatever the chip holds.                                                *)
(***************************************************************************)
EXTENDS BootRequests, TLAPS

Early == {"off", "main", "load", "select"}

(* Where the firmware is says what it has looked at and what it has not.   *)
Places ==
  /\ at = "off" => cause = "power"
  /\ at \in {"off", "main"} => live = "none" /\ cpu = Cpu[Stock]
  /\ at \in Early => choice = "none"
  /\ at \in {"load", "select", "open"} \cup Running => live # "none"
  /\ at \in {"open"} \cup Running => choice # "none"
  /\ choice = "asked" => mode \in Modes

(* A clock waits only for the boot that was started for it.                *)
ClockPending ==
  /\ clock \in Clocks => at = "main" /\ cause = "clock" /\ wish = clock
  /\ cause = "clock" => wish \in Clocks /\ (at = "main" => clock = wish)

(* A mode waits for the boot that was started for it until that boot       *)
(* selects; power-on leaves none.                                          *)
VideoPending ==
  /\ cause = "switch" => wish \in Modes \cup {"auto"} /\ (at \in Early => video = wish)
  /\ cause = "power" /\ at \in Early => video \notin Modes \cup {"auto"}

(* The chip leaves its built-in clock only for a boot that was asked to.   *)
OnlyAsked ==
  /\ cause # "clock" => cpu = Cpu[Stock]
  /\ cause = "power" => volt = Volt[Stock]

(* The sector holds what the menu shows, or what a failed save left.       *)
RecordExplained ==
  IF at = "erased" THEN hope = IF kept THEN "drop" ELSE "keep"
  ELSE IF hurt THEN record \in {"blank", "torn", hope}
  ELSE shown = (record = "keep")

IInv ==
  /\ TypeOK /\ Places /\ ClockPending /\ VideoPending /\ OnlyAsked
  /\ OnlyAnOverclockHangs /\ PowerOnIsStock /\ RequestsAreHonoured
  /\ RecordExplained

(* The frequencies, voltages and boards are of the kinds they are used as. *)
LEMMA Types ==
  /\ \A c \in Named : Cpu[c] \in Rates /\ Volt[c] \in Volts
  /\ Fallback \in Rates
  /\ Stock \in Named /\ Clocks \subseteq Named /\ \A c \in Named : c # "none" /\ c # "junk"
  /\ \A b \in Boards : b.wired \subseteq Modes
BY BootAssumption DEF Named, Rates, Volts

(* What the boot window settles on, whatever key, verdict and request.     *)
LEMMA Choices ==
  ASSUME NEW b \in Boards, NEW key, NEW verdict
  PROVE  LET c == Choose(b, key, verdict) IN
         /\ c[1] \in {"key", "asked", "compiled", "auto", "default"}
         /\ c[2] \in {"auto"} \cup Modes
         /\ c[1] = "asked" => video \in b.wired /\ c[2] \in Modes
         /\ c[1] # "key" /\ video \in b.wired => c[2] = video
<1>1. b.wired \subseteq Modes /\ "hdmi" \in Modes BY Types DEF Modes
<1>2. CASE key \in b.wired BY <1>1, <1>2 DEF Choose
<1>3. CASE key \notin b.wired /\ video \in b.wired BY <1>1, <1>3 DEF Choose
<1>4. CASE key \notin b.wired /\ video \notin b.wired BY <1>1, <1>4 DEF Choose
<1> QED BY <1>2, <1>3, <1>4

(* The power goes: the registers come up with none of our requests.        *)
LEMMA PowerOffStep ==
  ASSUME IInv, PowerOff
  PROVE  IInv'
<1> USE BootAssumption, Types DEF IInv, vars, scratchVars, clockVars, videoVars, recordVars, Booting, Running, Early, Began, PowerOff, Forget, CutShort
<1>1. TypeOK' BY DEF TypeOK
<1>2. Places' BY DEF TypeOK, Places, Modes
<1>3. ClockPending' BY DEF TypeOK, Places, ClockPending
<1>4. VideoPending' BY DEF TypeOK, VideoPending, Modes
<1>5. OnlyAsked' BY DEF TypeOK, Places, ClockPending, OnlyAsked
<1>6. OnlyAnOverclockHangs' BY DEF TypeOK, OnlyAsked, OnlyAnOverclockHangs
<1>7. PowerOnIsStock' BY DEF TypeOK, Places, ClockPending, VideoPending, OnlyAsked, PowerOnIsStock
<1>8. RequestsAreHonoured' BY DEF TypeOK, Places, ClockPending, VideoPending, RequestsAreHonoured
<1>9. RecordExplained' BY DEF TypeOK, RecordExplained
<1> QED BY <1>1, <1>2, <1>3, <1>4, <1>5, <1>6, <1>7, <1>8, <1>9

(* The power comes back: nothing but the place changes.                    *)
LEMMA PowerOnStep ==
  ASSUME IInv, PowerOn
  PROVE  IInv'
<1> USE BootAssumption, Types DEF IInv, vars, scratchVars, clockVars, videoVars, recordVars, Booting, Running, Early, Began, PowerOn
<1>1. TypeOK' BY DEF TypeOK
<1>2. Places' BY DEF TypeOK, Places, Modes
<1>3. ClockPending' BY DEF TypeOK, Places, ClockPending
<1>4. VideoPending' BY DEF TypeOK, VideoPending, Modes
<1>5. OnlyAsked' BY DEF TypeOK, Places, ClockPending, OnlyAsked
<1>6. OnlyAnOverclockHangs' BY DEF TypeOK, OnlyAsked, OnlyAnOverclockHangs
<1>7. PowerOnIsStock' BY DEF TypeOK, Places, ClockPending, VideoPending, OnlyAsked, PowerOnIsStock
<1>8. RequestsAreHonoured' BY DEF TypeOK, Places, ClockPending, VideoPending, RequestsAreHonoured
<1>9. RecordExplained' BY DEF TypeOK, RecordExplained
<1> QED BY <1>1, <1>2, <1>3, <1>4, <1>5, <1>6, <1>7, <1>8, <1>9

(* Only a clock that was asked for can fail to hold.                       *)
LEMMA StopStep ==
  ASSUME IInv, Stop
  PROVE  IInv'
<1> USE BootAssumption, Types DEF IInv, vars, scratchVars, clockVars, videoVars, recordVars, Booting, Running, Early, Began, Stop, CutShort
<1>1. TypeOK' BY DEF TypeOK
<1>2. Places' BY DEF TypeOK, Places, Modes
<1>3. ClockPending' BY DEF TypeOK, Places, ClockPending
<1>4. VideoPending' BY DEF TypeOK, VideoPending, Modes
<1>5. OnlyAsked' BY DEF TypeOK, Places, ClockPending, OnlyAsked
<1>6. OnlyAnOverclockHangs' BY DEF TypeOK, OnlyAsked, OnlyAnOverclockHangs
<1>7. PowerOnIsStock' BY DEF TypeOK, Places, ClockPending, VideoPending, OnlyAsked, PowerOnIsStock
<1>8. RequestsAreHonoured' BY DEF TypeOK, Places, ClockPending, VideoPending, RequestsAreHonoured
<1>9. RecordExplained' BY DEF TypeOK, RecordExplained
<1> QED BY <1>1, <1>2, <1>3, <1>4, <1>5, <1>6, <1>7, <1>8, <1>9

(* main takes the clock, which is the one that was asked for.              *)
LEMMA MainStep ==
  ASSUME IInv, Main
  PROVE  IInv'
<1> USE BootAssumption, Types DEF IInv, vars, scratchVars, clockVars, videoVars, recordVars, Booting, Running, Early, Began, Main, TakeClock, Apply
<1>1. TypeOK' BY DEF TypeOK
<1>2. Places' BY DEF TypeOK, Places, Modes
<1>3. ClockPending' BY DEF TypeOK, Places, ClockPending
<1>4. VideoPending' BY DEF TypeOK, VideoPending, Modes
<1>5. OnlyAsked' BY DEF TypeOK, Places, ClockPending, OnlyAsked
<1>6. OnlyAnOverclockHangs' BY DEF TypeOK, OnlyAsked, OnlyAnOverclockHangs
<1>7. PowerOnIsStock' BY DEF TypeOK, Places, ClockPending, VideoPending, OnlyAsked, PowerOnIsStock
<1>8. RequestsAreHonoured' BY DEF TypeOK, Places, ClockPending, VideoPending, RequestsAreHonoured
<1>9. RecordExplained' BY DEF TypeOK, RecordExplained
<1> QED BY <1>1, <1>2, <1>3, <1>4, <1>5, <1>6, <1>7, <1>8, <1>9

(* The preference is read, and is what the record says.                    *)
LEMMA LoadStep ==
  ASSUME IInv, Load
  PROVE  IInv'
<1> USE DEF IInv, scratchVars, clockVars, videoVars, Booting, Running, Early, Began
<1>1. /\ at = "load" /\ at' = "select"
      /\ UNCHANGED <<cause, wish, scratchVars, clockVars, videoVars, record, hope>>
  BY DEF Load
<1>2. kept' \in BOOLEAN /\ shown' \in BOOLEAN /\ hurt' \in BOOLEAN
  BY Zenon DEF Load
<1>3. shown' = (record = "keep") /\ ~hurt' BY DEF Load
<1>4. TypeOK' BY <1>1, <1>2 DEF TypeOK
<1>5. Places' BY <1>1 DEF Places
<1>6. ClockPending' /\ VideoPending' BY <1>1 DEF ClockPending, VideoPending
<1>7. OnlyAsked' BY <1>1 DEF OnlyAsked
<1>8. OnlyAnOverclockHangs' BY <1>1 DEF OnlyAnOverclockHangs
<1>9. PowerOnIsStock' BY <1>1 DEF PowerOnIsStock
<1>10. RequestsAreHonoured' BY <1>1 DEF RequestsAreHonoured
<1>11. RecordExplained' BY <1>1, <1>3 DEF RecordExplained
<1> QED BY <1>4, <1>5, <1>6, <1>7, <1>8, <1>9, <1>10, <1>11

(* The window takes or leaves the mode that was asked for.                 *)
LEMMA SelectStep ==
  ASSUME IInv, Select
  PROVE  IInv'
<1> USE DEF IInv, scratchVars, clockVars, videoVars, recordVars, Booting, Running, Early, Began
<1>1. PICK b \in Boards, key \in Modes \cup {"none", "auto"}, verdict \in {"hdmi", "vga", "none"} :
        /\ board' = b
        /\ choice' = Choose(b, key, verdict)[1] /\ mode' = Choose(b, key, verdict)[2]
        /\ TakeVideo(b, key)
  BY DEF Select
<1>2. /\ at = "select" /\ at' = "open"
      /\ UNCHANGED <<cause, wish, clock, clockVars, core1, recordVars, kept>>
  BY DEF Select
<1>3. /\ choice' \in {"key", "asked", "compiled", "auto", "default"}
      /\ mode' \in {"auto"} \cup Modes
      /\ choice' = "asked" => video \in b.wired /\ mode' \in Modes
      /\ choice' # "key" /\ video \in b.wired => mode' = video
  BY <1>1, Choices
<1>4. b.wired \subseteq Modes BY Types
<1>5. video' \in {video, "none"} BY <1>1 DEF TakeVideo
<1>6. TypeOK' BY <1>1, <1>2, <1>3, <1>5 DEF TypeOK
<1>7. Places' BY <1>2, <1>3 DEF Places
<1>8. ClockPending' BY <1>2 DEF ClockPending
<1>9. VideoPending' BY <1>2 DEF VideoPending
<1>10. OnlyAsked' BY <1>2 DEF OnlyAsked
<1>11. OnlyAnOverclockHangs' BY <1>2 DEF OnlyAnOverclockHangs
<1>12. PowerOnIsStock' BY <1>2, <1>3, <1>4 DEF PowerOnIsStock, VideoPending
<1>13. RequestsAreHonoured'
  BY <1>1, <1>2, <1>3, <1>4 DEF RequestsAreHonoured, VideoPending
<1>14. RecordExplained' BY <1>2 DEF RecordExplained
<1> QED
  BY <1>6, <1>7, <1>8, <1>9, <1>10, <1>11, <1>12, <1>13, <1>14

(* A backend comes up.                                                     *)
LEMMA OpenStep ==
  ASSUME IInv, Open
  PROVE  IInv'
<1> USE BootAssumption, Types DEF IInv, vars, scratchVars, clockVars, videoVars, recordVars, Booting, Running, Early, Began, Open, Launch
<1>1. TypeOK' BY DEF TypeOK, Modes
<1>2. Places' BY DEF TypeOK, Places, Modes
<1>3. ClockPending' BY DEF TypeOK, Places, ClockPending
<1>4. VideoPending' BY DEF TypeOK, VideoPending, Modes
<1>5. OnlyAsked' BY DEF TypeOK, Places, ClockPending, OnlyAsked
<1>6. OnlyAnOverclockHangs' BY DEF TypeOK, OnlyAsked, OnlyAnOverclockHangs
<1>7. PowerOnIsStock' BY DEF TypeOK, Places, ClockPending, VideoPending, OnlyAsked, PowerOnIsStock
<1>8. RequestsAreHonoured' BY DEF TypeOK, Places, ClockPending, VideoPending, RequestsAreHonoured
<1>9. RecordExplained' BY DEF TypeOK, RecordExplained
<1> QED BY <1>1, <1>2, <1>3, <1>4, <1>5, <1>6, <1>7, <1>8, <1>9

(* A restart keeps what does not depend on its cause and its requests.     *)
LEMMA Rebooted ==
  ASSUME IInv,
         NEW why \in {"restart", "reflash", "switch", "clock"},
         NEW what \in {"none", "auto"} \cup Modes \cup Clocks,
         Reboot(why, what)
  PROVE  /\ at = "run" /\ at' = "main" /\ cause' = why /\ wish' = what
         /\ /\ video' \in {"none", "junk", "auto"} \cup Modes
            /\ clock' \in {"none", "junk"} \cup Clocks
            => TypeOK'
         /\ Places' /\ OnlyAsked' /\ OnlyAnOverclockHangs'
         /\ PowerOnIsStock' /\ RequestsAreHonoured' /\ RecordExplained'
<1>1. /\ at = "run" /\ at' = "main" /\ cause' = why /\ wish' = what
      /\ live' = "none" /\ cpu' = Cpu[Stock] /\ volt' \in {volt, Volt[Stock]}
      /\ core1' \in {core1, "parked"}
      /\ choice' = "none" /\ mode' = "none" /\ kept' = FALSE
      /\ UNCHANGED <<board, record, hope, shown, hurt>>
  BY DEF Reboot, Forget, recordVars
<1>2. ASSUME /\ video' \in {"none", "junk", "auto"} \cup Modes
             /\ clock' \in {"none", "junk"} \cup Clocks
      PROVE  TypeOK'
  <2>1. volt' \in Volts /\ cpu' \in Rates BY <1>1, Types DEF IInv, TypeOK
  <2>2. at' \in {"off", "hung"} \cup Booting \cup Running BY <1>1 DEF Booting
  <2>3. core1' \in {"parked", "ram", "flash", "lost"} BY <1>1 DEF IInv, TypeOK
  <2> QED BY <1>1, <1>2, <2>1, <2>2, <2>3 DEF IInv, TypeOK
<1> USE <1>1 DEF IInv, Booting, Running, Early, Began
<1>3. Places' BY DEF Places
<1>4. OnlyAsked' BY DEF OnlyAsked
<1>5. OnlyAnOverclockHangs' /\ PowerOnIsStock' /\ RequestsAreHonoured'
  BY DEF OnlyAnOverclockHangs, PowerOnIsStock, RequestsAreHonoured
<1>6. RecordExplained' BY DEF RecordExplained
<1> QED BY <1>1, <1>2, <1>3, <1>4, <1>5, <1>6

(* A restart for a mode.                                                   *)
LEMMA SwitchVideoStep ==
  ASSUME IInv, NEW wanted \in Modes \cup {"auto"}, SwitchVideo(wanted)
  PROVE  IInv'
<1>1. video' = wanted /\ clock' = clock /\ Reboot("switch", wanted) BY DEF SwitchVideo
<1>2. /\ at = "run" /\ at' = "main" /\ cause' = "switch" /\ wish' = wanted
      /\ Places' /\ OnlyAsked' /\ OnlyAnOverclockHangs'
      /\ PowerOnIsStock' /\ RequestsAreHonoured' /\ RecordExplained'
      /\ TypeOK'
  BY <1>1, Rebooted DEF IInv, TypeOK
<1>3. ClockPending' BY <1>1, <1>2 DEF IInv, ClockPending
<1>4. VideoPending' BY <1>1, <1>2 DEF VideoPending
<1> QED BY <1>2, <1>3, <1>4 DEF IInv

(* A restart for a clock.                                                  *)
LEMMA OverclockStep ==
  ASSUME IInv, NEW wanted \in Clocks, Overclock(wanted)
  PROVE  IInv'
<1>1. clock' = wanted /\ video' = video /\ Reboot("clock", wanted) BY DEF Overclock
<1>2. /\ at = "run" /\ at' = "main" /\ cause' = "clock" /\ wish' = wanted
      /\ Places' /\ OnlyAsked' /\ OnlyAnOverclockHangs'
      /\ PowerOnIsStock' /\ RequestsAreHonoured' /\ RecordExplained'
      /\ TypeOK'
  BY <1>1, Rebooted DEF IInv, TypeOK
<1>3. ClockPending' BY <1>1, <1>2 DEF ClockPending
<1>4. VideoPending' BY <1>2 DEF VideoPending
<1> QED BY <1>2, <1>3, <1>4 DEF IInv

(* A restart for nothing.                                                  *)
LEMMA RestartStep ==
  ASSUME IInv, Restart
  PROVE  IInv'
<1>1. UNCHANGED <<video, clock>> /\ Reboot("restart", "none") BY DEF Restart, scratchVars
<1>2. /\ at = "run" /\ at' = "main" /\ cause' = "restart"
      /\ Places' /\ OnlyAsked' /\ OnlyAnOverclockHangs'
      /\ PowerOnIsStock' /\ RequestsAreHonoured' /\ RecordExplained'
      /\ TypeOK'
  BY <1>1, Rebooted DEF IInv, TypeOK
<1>3. ClockPending' BY <1>1, <1>2 DEF IInv, ClockPending
<1>4. VideoPending' BY <1>2 DEF VideoPending
<1> QED BY <1>2, <1>3, <1>4 DEF IInv

(* A new image.                                                            *)
LEMMA ReflashStep ==
  ASSUME IInv, Reflash
  PROVE  IInv'
<1>1. /\ video' \in {video, "none"} /\ clock' \in {clock, "none"}
      /\ Reboot("reflash", "none")
  BY DEF Reflash
<1>2. /\ at = "run" /\ at' = "main" /\ cause' = "reflash"
      /\ Places' /\ OnlyAsked' /\ OnlyAnOverclockHangs'
      /\ PowerOnIsStock' /\ RequestsAreHonoured' /\ RecordExplained'
      /\ TypeOK'
  BY <1>1, Rebooted DEF IInv, TypeOK
<1>3. ClockPending'
  <2>1. "none" \notin Clocks BY Types
  <2> QED BY <1>1, <1>2, <2>1 DEF IInv, ClockPending
<1>4. VideoPending' BY <1>2 DEF VideoPending
<1> QED BY <1>2, <1>3, <1>4 DEF IInv

(* Another descriptor, which nothing here was remembered by.               *)
LEMMA SetBoardStep ==
  ASSUME IInv, NEW b \in Boards, SetBoard(b)
  PROVE  IInv'
<1> USE BootAssumption, Types DEF IInv, vars, scratchVars, clockVars, videoVars, recordVars, Booting, Running, Early, Began, SetBoard
<1>1. TypeOK' BY DEF TypeOK
<1>2. Places' BY DEF TypeOK, Places, Modes
<1>3. ClockPending' BY DEF TypeOK, Places, ClockPending
<1>4. VideoPending' BY DEF TypeOK, VideoPending, Modes
<1>5. OnlyAsked' BY DEF TypeOK, Places, ClockPending, OnlyAsked
<1>6. OnlyAnOverclockHangs' BY DEF TypeOK, OnlyAsked, OnlyAnOverclockHangs
<1>7. PowerOnIsStock' BY DEF TypeOK, Places, ClockPending, VideoPending, OnlyAsked, PowerOnIsStock
<1>8. RequestsAreHonoured' BY DEF TypeOK, Places, ClockPending, VideoPending, RequestsAreHonoured
<1>9. RecordExplained' BY DEF TypeOK, RecordExplained
<1> QED BY <1>1, <1>2, <1>3, <1>4, <1>5, <1>6, <1>7, <1>8, <1>9

(* The sector is blank until the record is programmed.                     *)
LEMMA EraseStep ==
  ASSUME IInv, Erase
  PROVE  IInv'
<1> USE BootAssumption, Types DEF IInv, vars, scratchVars, clockVars, videoVars, recordVars, Booting, Running, Early, Began, Erase
<1>1. TypeOK' BY DEF TypeOK
<1>2. Places' BY DEF TypeOK, Places, Modes
<1>3. ClockPending' BY DEF TypeOK, Places, ClockPending
<1>4. VideoPending' BY DEF TypeOK, VideoPending, Modes
<1>5. OnlyAsked' BY DEF TypeOK, Places, ClockPending, OnlyAsked
<1>6. OnlyAnOverclockHangs' BY DEF TypeOK, OnlyAsked, OnlyAnOverclockHangs
<1>7. PowerOnIsStock' BY DEF TypeOK, Places, ClockPending, VideoPending, OnlyAsked, PowerOnIsStock
<1>8. RequestsAreHonoured' BY DEF TypeOK, Places, ClockPending, VideoPending, RequestsAreHonoured
<1>9. RecordExplained' BY DEF TypeOK, RecordExplained
<1> QED BY <1>1, <1>2, <1>3, <1>4, <1>5, <1>6, <1>7, <1>8, <1>9

(* The record is there, or the menu keeps what it showed.                  *)
LEMMA ProgramStep ==
  ASSUME IInv, Program
  PROVE  IInv'
<1> USE DEF IInv, scratchVars, clockVars, videoVars, Booting, Running, Early, Began
<1>1. /\ at = "erased" /\ at' = "run"
      /\ UNCHANGED <<cause, wish, scratchVars, clockVars, videoVars, hope>>
  BY DEF Program
<1>2. /\ kept' \in BOOLEAN /\ shown' \in BOOLEAN /\ hurt' \in BOOLEAN
      /\ record' \in {hope, "blank", "torn"}
  BY Zenon DEF Program, TypeOK
<1>3. TypeOK' BY <1>1, <1>2 DEF TypeOK
<1>4. Places' BY <1>1 DEF Places
<1>5. ClockPending' /\ VideoPending' BY <1>1 DEF ClockPending, VideoPending
<1>6. OnlyAsked' BY <1>1 DEF OnlyAsked
<1>7. OnlyAnOverclockHangs' BY <1>1 DEF OnlyAnOverclockHangs
<1>8. PowerOnIsStock' BY <1>1 DEF PowerOnIsStock
<1>9. RequestsAreHonoured' BY <1>1 DEF RequestsAreHonoured
<1>10. RecordExplained' BY <1>1 DEF Program, RecordExplained, TypeOK
<1> QED BY <1>3, <1>4, <1>5, <1>6, <1>7, <1>8, <1>9, <1>10

---------------------------------------------------------------------------
(* The invariant, and what follows from it.                                *)

(* A board that was never on.                                              *)
LEMMA InitIInv == Init => IInv
<1> SUFFICES ASSUME Init PROVE IInv OBVIOUS
<1> USE BootAssumption, Types DEF Init
<1>1. TypeOK BY DEF TypeOK, Booting, Running
<1>2. Places BY DEF Places, Early, Running
<1>3. ClockPending BY DEF ClockPending
<1>4. VideoPending BY DEF VideoPending, Modes
<1>5. OnlyAsked BY DEF OnlyAsked
<1>6. OnlyAnOverclockHangs /\ PowerOnIsStock /\ RequestsAreHonoured
  BY DEF OnlyAnOverclockHangs, PowerOnIsStock, RequestsAreHonoured, Began, Booting, Running
<1>7. RecordExplained BY DEF RecordExplained
<1> QED BY <1>1, <1>2, <1>3, <1>4, <1>5, <1>6, <1>7 DEF IInv

(* Every step of a boot, of the interface and of the power keeps it.       *)
LEMMA NextIInv == IInv /\ [Next]_vars => IInv'
<1> SUFFICES ASSUME IInv, [Next]_vars PROVE IInv' OBVIOUS
<1>1. CASE PowerOff BY <1>1, PowerOffStep
<1>2. CASE Stop BY <1>2, StopStep
<1>3. CASE Boot
  BY <1>3, PowerOnStep, MainStep, LoadStep, SelectStep, OpenStep DEF Boot
<1>4. CASE Commands
  BY <1>4, SwitchVideoStep, OverclockStep, RestartStep, ReflashStep, SetBoardStep, EraseStep
  DEF Commands
<1>5. CASE Program BY <1>5, ProgramStep
<1>6. CASE UNCHANGED vars
  <2> USE <1>6 DEF IInv, vars, scratchVars, clockVars, videoVars, recordVars
  <2>1. TypeOK' /\ Places' BY DEF TypeOK, Places
  <2>2. ClockPending' /\ VideoPending' /\ OnlyAsked'
    BY DEF ClockPending, VideoPending, OnlyAsked
  <2>3. OnlyAnOverclockHangs' /\ PowerOnIsStock' /\ RequestsAreHonoured'
    BY DEF OnlyAnOverclockHangs, PowerOnIsStock, RequestsAreHonoured, Began
  <2>4. RecordExplained' BY DEF RecordExplained
  <2> QED BY <2>1, <2>2, <2>3, <2>4
<1> QED BY <1>1, <1>2, <1>3, <1>4, <1>5, <1>6 DEF Next

(* The inductive invariant holds of every reachable state.                 *)
THEOREM Invariance == Spec => []IInv
BY InitIInv, NextIInv, PTL DEF Spec

(* Registers, choices, clock, record and menu stay what they are read as;  *)
(* in particular no mode but those of a connector is ever opened.          *)
THEOREM TypeCorrect == Spec => []TypeOK
<1>1. IInv => TypeOK BY DEF IInv
<1> QED BY <1>1, Invariance, PTL

(* Whatever clocks are offered and whatever the chip holds, the firmware   *)
(* stops only in the boot that was asked to overclock.                     *)
THEOREM HangSafety == Spec => []OnlyAnOverclockHangs
<1>1. IInv => OnlyAnOverclockHangs BY DEF IInv
<1> QED BY <1>1, Invariance, PTL

(* Pulling the plug takes the board back to the clock, the voltage and the *)
(* video it was built with, whatever the registers power up with.          *)
THEOREM PlugSafety == Spec => []PowerOnIsStock
<1>1. IInv => PowerOnIsStock BY DEF IInv
<1> QED BY <1>1, Invariance, PTL

(* Both together: the plug is always the way out.                          *)
THEOREM PlugCuresAll == Spec => []PlugCures
<1>1. IInv => PlugCures BY DEF IInv, PlugCures
<1> QED BY <1>1, Invariance, PTL

(* The boot that was asked for a clock or a mode brings it.                *)
THEOREM Honoured == Spec => []RequestsAreHonoured
<1>1. IInv => RequestsAreHonoured BY DEF IInv
<1> QED BY <1>1, Invariance, PTL

(* A boot reads the console preference the menu showed, or what a save     *)
(* that was cut short can account for.                                     *)
THEOREM ConsoleExplained == Spec => ConsoleIsExplained
<1>1. IInv /\ [Next]_vars =>
        [Load => kept' \in IF hurt THEN {FALSE, hope = "keep"} ELSE {shown}]_vars
  <2> SUFFICES ASSUME IInv, Load
               PROVE  kept' \in IF hurt THEN {FALSE, hope = "keep"} ELSE {shown}
    OBVIOUS
  <2>1. at = "load" /\ kept' = (record = "keep") BY DEF Load
  <2>2. CASE hurt
    <3>1. record \in {"blank", "torn", hope} BY <2>1, <2>2 DEF IInv, RecordExplained
    <3> QED BY <2>1, <2>2, <3>1
  <2>3. CASE ~hurt
    <3>1. shown = (record = "keep") BY <2>1, <2>3 DEF IInv, RecordExplained
    <3> QED BY <2>1, <2>3, <3>1
  <2> QED BY <2>2, <2>3
<1> QED BY <1>1, Invariance, PTL DEF Spec, ConsoleIsExplained

---------------------------------------------------------------------------
(* Each register is a one-shot mailbox.                                    *)

(* A step of the firmware is a step of the clock's mailbox, or nothing.    *)
LEMMA ClockMailStep ==
  ASSUME IInv, [Next]_vars
  PROVE  [ClockMail!Next]_<<IF clock \in Clocks \ {Stock} THEN clock ELSE "none",
                            IF live \in Clocks \ {Stock} THEN live ELSE "none",
                            live # "none">>
<1> USE Types DEF scratchVars, clockVars, ClockMail!Next
<1>1. CASE PowerOff BY <1>1 DEF PowerOff, Forget, ClockMail!PowerLoss
<1>2. CASE Main
  BY <1>2 DEF Main, TakeClock, Apply, ClockMail!Look, IInv, Places
<1>3. ASSUME NEW why, NEW what, Reboot(why, what),
             clock' \in Clocks \cup {"none", clock}
      PROVE  ClockMail!Restart
  BY <1>3 DEF Reboot, Forget, ClockMail!Restart, IInv, Places, Running
<1>4. CASE Commands
  <2>1. CASE \E wanted \in Modes \cup {"auto"} : SwitchVideo(wanted)
    BY <1>3, <2>1 DEF SwitchVideo
  <2>2. CASE \E wanted \in Clocks : Overclock(wanted) BY <1>3, <2>2 DEF Overclock
  <2>3. CASE Restart BY <1>3, <2>3 DEF Restart
  <2>4. CASE Reflash BY <1>3, <2>4 DEF Reflash
  <2>5. CASE \E b \in Boards : SetBoard(b) BY <2>5 DEF SetBoard
  <2>6. CASE Erase BY <2>6 DEF Erase
  <2> QED BY <1>4, <2>1, <2>2, <2>3, <2>4, <2>5, <2>6 DEF Commands
<1>5. CASE PowerOn \/ Load \/ Select \/ Open
  BY <1>5 DEF PowerOn, Load, Select, Open
<1>6. CASE Stop \/ Program \/ UNCHANGED vars BY <1>6 DEF Stop, Program, vars
<1> QED BY <1>1, <1>2, <1>4, <1>5, <1>6 DEF Next, Boot

(* The overclock request is taken by the very next boot, and by no other.  *)
THEOREM ClockRefines == Spec => ClockIsOneShot
<1>1. Init => ClockMail!Init BY Types DEF Init, ClockMail!Init
<1>2. IInv /\ [Next]_vars => [ClockMail!Next]_<<
        IF clock \in Clocks \ {Stock} THEN clock ELSE "none",
        IF live \in Clocks \ {Stock} THEN live ELSE "none", live # "none">>
  BY ClockMailStep
<1> QED BY <1>1, <1>2, Invariance, PTL DEF Spec, ClockIsOneShot, ClockMail!Spec

(* A step of the firmware is a step of the video mailbox, or nothing.      *)
LEMMA VideoMailStep ==
  ASSUME IInv, [Next]_vars
  PROVE  [VideoMail!Next]_<<IF video \in Modes THEN video ELSE "none",
                            IF choice = "asked" THEN mode ELSE "none",
                            choice # "none">>
<1> USE DEF scratchVars, videoVars, VideoMail!Next
<1>0. "none" \notin Modes BY DEF Modes
<1>1. CASE PowerOff BY <1>0, <1>1 DEF PowerOff, Forget, VideoMail!PowerLoss, Modes
<1>2. CASE Select
  <2>1. PICK b \in Boards, key \in Modes \cup {"none", "auto"}, verdict \in {"hdmi", "vga", "none"} :
          /\ choice' = Choose(b, key, verdict)[1] /\ mode' = Choose(b, key, verdict)[2]
          /\ TakeVideo(b, key)
    BY <1>2 DEF Select
  <2>2. /\ choice' # "none"
        /\ choice' = "asked" => video \in b.wired /\ mode' = video
    BY <2>1, Choices
  <2>3. choice = "none" BY <1>2 DEF Select, IInv, Places, Early
  <2>4. b.wired \subseteq Modes BY Types
  <2>5. CASE video' = video /\ choice' # "asked"
    BY <2>2, <2>3, <2>5 DEF VideoMail!Leave
  <2>6. CASE video' = "none"
    BY <1>0, <2>2, <2>3, <2>4, <2>6 DEF VideoMail!Look
  <2>7. video' = video => choice' # "asked" \/ video' = "none"
    BY <2>1 DEF TakeVideo, Choose
  <2> QED BY <2>1, <2>5, <2>6, <2>7 DEF TakeVideo
<1>3. ASSUME NEW why, NEW what, Reboot(why, what),
             video' \in Modes \cup {"none", "auto", video}
      PROVE  VideoMail!Restart
  BY <1>0, <1>3 DEF Reboot, Forget, VideoMail!Restart, IInv, Places, Running
<1>4. CASE Commands
  <2>1. CASE \E wanted \in Modes \cup {"auto"} : SwitchVideo(wanted)
    BY <1>3, <2>1 DEF SwitchVideo
  <2>2. CASE \E wanted \in Clocks : Overclock(wanted) BY <1>3, <2>2 DEF Overclock
  <2>3. CASE Restart BY <1>3, <2>3 DEF Restart
  <2>4. CASE Reflash BY <1>3, <2>4 DEF Reflash
  <2>5. CASE \E b \in Boards : SetBoard(b) BY <2>5 DEF SetBoard
  <2>6. CASE Erase BY <2>6 DEF Erase
  <2> QED BY <1>4, <2>1, <2>2, <2>3, <2>4, <2>5, <2>6 DEF Commands
<1>5. CASE Open
  BY <1>5 DEF Open, IInv, Places, Modes
<1>6. CASE PowerOn \/ Main \/ Load BY <1>6 DEF PowerOn, Main, Load
<1>7. CASE Stop \/ Program \/ UNCHANGED vars BY <1>7 DEF Stop, Program, vars
<1> QED BY <1>1, <1>2, <1>4, <1>5, <1>6, <1>7 DEF Next, Boot

(* A video request that was taken is never taken again; until then it      *)
(* waits, and the power takes it away.                                     *)
THEOREM VideoRefines == Spec => VideoIsOneShot
<1>1. Init => VideoMail!Init BY DEF Init, VideoMail!Init, Modes
<1>2. IInv /\ [Next]_vars => [VideoMail!Next]_<<
        IF video \in Modes THEN video ELSE "none",
        IF choice = "asked" THEN mode ELSE "none", choice # "none">>
  BY VideoMailStep
<1> QED BY <1>1, <1>2, Invariance, PTL DEF Spec, VideoIsOneShot, VideoMail!Spec

(* Both requests at once refine their mailboxes.                           *)
THEOREM RequestsRefine == Spec => RequestsAreOneShot
BY ClockRefines, VideoRefines DEF RequestsAreOneShot
=============================================================================
