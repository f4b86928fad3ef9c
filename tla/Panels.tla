------------------------------- MODULE Panels -------------------------------
(***************************************************************************)
(* What a dialog says of the hardware it watches (app/dlg_nespad.c,        *)
(* dlg_keys.c, dlg_led.c, dlg_audio.c with core/attest.c, dlg_tape.c,      *)
(* dlg_overclock.c, dlg_ps2.c, and the driver of the gamepads).  Each      *)
(* keeps the loop to itself: a pass drains the keys typed since the last,  *)
(* looks for a click on its button, asks the hardware, and draws - always, *)
(* or when what it compares has changed.  They share no state, so a run is *)
(* about one of them, opened and closed any number of times.               *)
(***************************************************************************)
EXTENDS Integers, Sequences, FiniteSets, FiniteSetsExt, SequencesExt

CONSTANTS
  Buttons,    \* of a gamepad
  Leds,       \* the LEDs a board may have: subsets of {"plain", "rgb"}
  MaxCount,   \* bound: what the ports' counters count to
  MaxMoves    \* bound: values changed in the overclock dialog
(* The menu offers the LED panel where there is one.                       *)
ASSUME LedsAssumption == Leds \subseteq (SUBSET {"plain", "rgb"}) \ {{}}

VARIABLES
  kind,   \* the dialog this run is about
  up,     \* it is open
  mem,    \* its own variables
  real,   \* the hardware, and what outlives the dialog
  shown   \* what its last picture says
panelVars == <<kind, up, mem, real, shown>>

Nothing == [says |-> "nothing"]
(* Most are left by Esc, Enter or their button, anywhere among the keys    *)
(* typed between two passes: `leave`, and the pass is finished first.      *)
Opens(k) == kind = k /\ ~up /\ up' = TRUE
Passes(k) == kind = k /\ up /\ UNCHANGED kind
Unshown == shown' = Nothing /\ UNCHANGED kind

---------------------------------------------------------------------------
(* The gamepads.                                                           *)

Ports == {1, 2}
(* A pad with every button pressed is a pad that is not there.             *)
Decoded(raw) == IF raw = Buttons THEN {} ELSE raw

(* nespad_read starts a read and gives it a short time: one that comes     *)
(* late waits in the FIFO for the next, and the state stays as it was.     *)
Pending(f, raw, late) == IF late THEN f ELSE Append(f, raw)
Kept(f, raw, late) ==
  LET seen == Pending(f, raw, late)
      rest == IF seen = <<>> THEN <<>> ELSE Tail(seen)
  IN  IF late THEN Append(rest, raw) ELSE rest
Read(before, f, raw, late) ==
  LET seen == Pending(f, raw, late) IN IF seen = <<>> THEN before ELSE Decoded(Head(seen))

PadFits(p) == p = 1 \/ real.have2
OpenPadPanel ==
  /\ Opens("nespad") /\ mem' = [last |-> [p \in Ports |-> {"none yet"}]]
  /\ Unshown /\ UNCHANGED real
(* Only a change is drawn.  Seeded fault: only when both ports changed.    *)
PadsDiffer(now) == \A p \in Ports : now[p] # mem.last[p]
PadsChanged(now) == \E p \in Ports : now[p] # mem.last[p]
PassPadPanel(leave, raw, late) ==
  /\ Passes("nespad")
  /\ LET state == [p \in Ports |-> IF PadFits(p) THEN Read(real.state[p], real.fifo[p], raw[p], late[p])
                                   ELSE {}]
     IN  /\ real' = [real EXCEPT
              !.state = state,
              !.fifo = [p \in Ports |-> IF PadFits(p) THEN Kept(@[p], raw[p], late[p]) ELSE <<>>],
              !.samples = [p \in Ports |-> <<raw[p], @[p][1]>>]]
         /\ mem' = [last |-> state]
         /\ shown' = IF PadsChanged(state) THEN [says |-> "pads", held |-> state] ELSE shown
  /\ up' = ~leave

---------------------------------------------------------------------------
(* The keyboard.  Esc is tested like any other key, and leaves when it     *)
(* comes up again.                                                         *)

OpenKeyPanel == Opens("keys") /\ mem' = [esc |-> FALSE, lit |-> FALSE] /\ Unshown /\ UNCHANGED real
PassKeyPanel(held, click) ==
  /\ Passes("keys") /\ UNCHANGED real
  /\ shown' = [says |-> "keys", held |-> held]
  /\ mem' = [esc |-> mem.esc \/ "Esc" \in held, lit |-> mem.lit \/ "Esc" \in shown'.held]
  /\ up' = ~(click \/ (mem.esc /\ "Esc" \notin held))

---------------------------------------------------------------------------
(* The LEDs: three flashes of the plain one, and the WS2812 up and down    *)
(* through three hues.                                                     *)

Top == 255
FadeCurve(level) == (level * level) \div Top
Fitted == real.leds
LedStart ==
  [fading |-> "plain" \notin Fitted, on |-> FALSE, blinks |-> 0,
   hue |-> 0, level |-> 0, rising |-> TRUE]
OpenLedPanel ==
  /\ Opens("led") /\ mem' = LedStart /\ Unshown
  /\ real' = [real EXCEPT !.plain = @ /\ "plain" \notin Fitted]

BlinkOnce ==
  LET last == mem.blinks + 1 = 6
  IN  /\ real' = [real EXCEPT !.plain = ~mem.on /\ ~last]
      /\ mem' = [mem EXCEPT !.on = ~@, !.fading = last /\ "rgb" \in Fitted,
                            !.blinks = IF last /\ "rgb" \notin Fitted THEN 0 ELSE @ + 1]
(* What goes out is the level of the step before.                          *)
FadeOnce ==
  LET round == mem.hue = 2 /\ "plain" \in Fitted
  IN  /\ real' = [real EXCEPT !.rgb = [hue |-> mem.hue, drive |-> FadeCurve(mem.level)]]
      /\ mem' = IF mem.rising
                THEN IF mem.level >= Top - 16 THEN [mem EXCEPT !.level = Top, !.rising = FALSE]
                     ELSE [mem EXCEPT !.level = @ + 16]
                ELSE IF mem.level <= 16
                     THEN [mem EXCEPT !.level = 0, !.rising = TRUE, !.hue = (@ + 1) % 3,
                                      !.fading = ~round, !.blinks = IF round THEN 0 ELSE @]
                     ELSE [mem EXCEPT !.level = @ - 16]
LedPicture(m) ==
  [says |-> "led", lit |-> ~m.fading /\ m.on, fading |-> m.fading, hue |-> m.hue, level |-> m.level]
StepLedPanel ==
  /\ Passes("led") /\ UNCHANGED up
  /\ IF mem.fading THEN FadeOnce ELSE BlinkOnce
  /\ shown' = LedPicture(mem')
LeaveLedPanel ==
  /\ Passes("led") /\ up' = FALSE /\ UNCHANGED <<mem, shown>>
  /\ real' = [real EXCEPT !.plain = @ /\ "plain" \notin Fitted,
                          !.rgb = IF "rgb" \in Fitted THEN [hue |-> 0, drive |-> 0] ELSE @]

---------------------------------------------------------------------------
(* The audio: the melody channel by channel, until somebody answers,       *)
(* leaves, or a channel stalls.                                            *)

OpenAudioPanel ==
  /\ Opens("audio") /\ mem' = [ch |-> 0, answer |-> "unknown", abort |-> FALSE]
  /\ UNCHANGED kind /\ shown' = [says |-> "audio", ch |-> 0]
  /\ real' = [real EXCEPT !.plays = 0]
(* poll_abort, between two notes: the last answer of a batch counts, and   *)
(* leaving is none.                                                        *)
Typable == {"Esc", "Enter", "Y", "N"}
Batches == {<<>>} \cup {<<k>> : k \in Typable} \cup {<<j, k>> : j, k \in Typable}
Answers(batch) == SelectSeq(batch, LAMBDA k : k \in {"Y", "N"})
Answer(batch, before) == IF Answers(batch) = <<>> THEN before
                      ELSE IF Last(Answers(batch)) = "Y" THEN "heard" ELSE "silent"
PollAudioPanel(batch, click) ==
  /\ Passes("audio") /\ ~mem.abort /\ UNCHANGED <<up, shown>>
  /\ mem' = [mem EXCEPT
       !.answer = CASE click = "yes" -> "heard" [] click = "no" -> "silent"
                    [] OTHER -> Answer(batch, @),
       !.abort = click # "none" \/ batch # <<>>]
  /\ real' = [real EXCEPT !.said = IF mem'.answer = "unknown" THEN @ ELSE mem'.answer]
NextChannel ==
  /\ Passes("audio") /\ ~mem.abort /\ UNCHANGED up
  /\ mem' = [mem EXCEPT !.ch = (@ + 1) % 3]
  /\ shown' = [says |-> "audio", ch |-> mem'.ch]
  /\ real' = [real EXCEPT !.plays = mem'.ch]
(* A stalled channel ends the dialog too; a verdict is what was said.      *)
LeaveAudioPanel ==
  /\ Passes("audio") /\ up' = FALSE /\ UNCHANGED <<mem, shown>>
  /\ real' = [real EXCEPT !.attested = IF mem.answer = "unknown" THEN @ ELSE mem.answer]

---------------------------------------------------------------------------
(* The tape: half pulses of a Spectrum's recording, in a window of 25 ms   *)
(* that opens anywhere in one of them.                                     *)

WindowUs == 25000
PilotMin == (619 + 489) \div 2
SlowestUs == 4000
(* A recording played at some percent of its speed; ones and zeros mix by  *)
(* quarters; 50 Hz hum is a half pulse of 10 ms.                           *)
Mixed(ones) == (244 * (4 - ones) + 489 * ones) * 25
HalfPulse(signal) ==
  CASE signal.of = "pilot" -> (619 * 100) \div signal.speed
    [] signal.of = "data"  -> Mixed(signal.ones) \div signal.speed
    [] signal.of = "hum"   -> 10000
Speeds == {90, 95, 100, 105, 110}
Signals ==
  {[of |-> "pilot", speed |-> v, ones |-> 0] : v \in Speeds}
  \cup {[of |-> "data", speed |-> v, ones |-> n] : v \in Speeds, n \in 0..4}
  \cup {[of |-> s, speed |-> 100, ones |-> 0] : s \in {"hum", "none"}}
(* sample: the first edge only starts the clock.                           *)
Edges(signal, offset) ==
  IF signal.of = "none" THEN 0
  ELSE IF offset >= WindowUs THEN 0 ELSE (WindowUs - 1 - offset) \div HalfPulse(signal) + 1
MeanUs(signal, edges) == IF edges < 2 THEN 0 ELSE HalfPulse(signal)
Classified(edges, mean) ==
  IF edges < 2 \/ mean = 0 THEN "silent"
  ELSE IF mean > SlowestUs THEN "noise"
  ELSE IF mean >= PilotMin THEN "pilot" ELSE "data"
(* A band for every pulse that was measured, the newest at the bottom.     *)
Band(mean, before) == IF mean = 0 THEN before ELSE IF mean >= PilotMin THEN "thick" ELSE "thin"
OpenTapePanel == Opens("tape") /\ mem' = [band |-> "none"] /\ Unshown /\ UNCHANGED real
PassTapePanel(leave, signal, offset) ==
  LET edges == Edges(signal, offset)  mean == MeanUs(signal, edges)
  IN  /\ Passes("tape")
      /\ real' = [real EXCEPT !.plays = signal]
      /\ mem' = [band |-> Band(mean, mem.band)]
      /\ shown' = [says |-> "tape", of |-> Classified(edges, mean), band |-> mem'.band]
      /\ up' = ~leave

---------------------------------------------------------------------------
(* Clocks and voltage for the next boot.                                   *)

CPU   == <<150, 200, 252, 264, 300, 308, 336, 378, 396, 420, 450, 504>>
VREG  == <<0, 11, 12, 13, 14, 15, 16, 17, 18, 19, 20>>
PSRAM == <<84, 109, 133, 150, 166, 200>>
FLASH == <<66, 88, 100, 133>>
Fields == {"cpu", "vreg", "psram", "flash"}
Offered == [cpu |-> CPU, vreg |-> VREG, psram |-> PSRAM, flash |-> FLASH]
RowOf == <<"cpu", "vreg", "psram", "flash">>
Valued(sel) == [f \in Fields |-> Offered[f][sel[f]]]

(* index_of, the nearest at or below; index_of8, exactly or the first.     *)
IndexOf(arr, v) == Max({1} \cup {i \in DOMAIN arr : arr[i] <= v})
IndexOf8(arr, v) == IF v \in ToSet(arr) THEN Min({i \in DOMAIN arr : arr[i] = v}) ELSE 1
Selected(now) ==
  [f \in Fields |-> IF f = "cpu" THEN IndexOf(CPU, now.cpu) ELSE IndexOf8(Offered[f], now[f])]

OpenClockPanel ==
  /\ Opens("overclock") /\ UNCHANGED kind /\ real' = [real EXCEPT !.before = real.live]
  /\ mem' = [sel |-> Selected(real.live), row |-> 1, moves |-> 0]
  /\ shown' = [says |-> "clocks", values |-> Valued(mem'.sel), row |-> 1]
(* One key of a batch, which is drawn once at its end.                     *)
Turned(m, k) ==
  LET f == RowOf[m.row] IN
  CASE k = "Up"   -> [m EXCEPT !.row = Max({1, @ - 1})]
    [] k = "Down" -> [m EXCEPT !.row = Min({4, @ + 1})]
    [] k = "Left" /\ m.sel[f] > 1 -> [m EXCEPT !.sel[f] = @ - 1, !.moves = @ + 1]
    [] k = "Right" /\ m.sel[f] < Len(Offered[f]) -> [m EXCEPT !.sel[f] = @ + 1, !.moves = @ + 1]
    [] OTHER -> m
ClockKeys == {<<>>} \cup {<<k>> : k \in {"Up", "Down", "Left", "Right"}}
Applied(keys) == IF keys = <<>> THEN mem ELSE Turned(mem, keys[1])
PassClockPanel(keys, cancel) ==
  /\ Passes("overclock") /\ UNCHANGED real
  /\ mem' = Applied(keys) /\ real.moved + mem'.moves <= MaxMoves
  /\ shown' = IF mem' = mem THEN shown
              ELSE [says |-> "clocks", values |-> Valued(mem'.sel), row |-> mem'.row]
  /\ up' = ~cancel
(* Enter, or the button: armed, restarted, and in force; an Enter right    *)
(* behind other keys is taken before they are drawn.  The regulator reads  *)
(* 11, 1.10 V, when it was left alone.                                     *)
InForce(r) == [r EXCEPT !.vreg = IF @ = 0 THEN 11 ELSE @]
RestartClocks(keys) ==
  /\ Passes("overclock") /\ up' = FALSE
  /\ mem' = Applied(keys) /\ real.moved + mem'.moves <= MaxMoves
  /\ real' = [real EXCEPT !.live = InForce(Valued(mem'.sel)), !.moved = @ + mem'.moves]
  /\ UNCHANGED shown

---------------------------------------------------------------------------
(* The PS/2 ports, and a line for the USB keyboard.                        *)

Counters == {"bytes", "packets", "usb"}
OpenPortPanel == Opens("ps2") /\ mem' = [n \in Counters |-> -1] /\ Unshown /\ UNCHANGED real
PassPortPanel(leave, came) ==
  /\ Passes("ps2")
  /\ real' = [real EXCEPT !.count = [n \in Counters |-> IF n \in came THEN @[n] + 1 ELSE @[n]]]
  /\ \A n \in Counters : real'.count[n] <= MaxCount
  /\ IF \E n \in {"bytes", "packets"} : real'.count[n] # mem[n]
     THEN mem' = real'.count /\ shown' = [says |-> "ports", count |-> real'.count]
     ELSE UNCHANGED <<mem, shown>>
  /\ up' = ~leave

---------------------------------------------------------------------------
Built == [cpu |-> 252, vreg |-> 11, psram |-> 133, flash |-> 88]
PanelKinds == {"nespad", "keys", "led", "audio", "tape", "overclock", "ps2"}
PanelInit(kinds) ==
  /\ kind \in kinds /\ up = FALSE /\ mem = Nothing /\ shown = Nothing
  /\ CASE kind = "nespad" ->
            \E two \in BOOLEAN :
              real = [have2 |-> two, state |-> [p \in Ports |-> {}], fifo |-> [p \in Ports |-> <<>>],
                      samples |-> [p \in Ports |-> <<{}, {}>>]]
       [] kind = "led" ->
            \E fit \in Leds : real = [leds |-> fit, plain |-> FALSE, rgb |-> [hue |-> 0, drive |-> 0]]
       [] kind = "audio" -> real = [plays |-> 0, said |-> "unknown", attested |-> "unknown"]
       [] kind = "tape" -> real = [plays |-> [of |-> "none", speed |-> 100, ones |-> 0]]
       [] kind = "overclock" -> real = [live |-> Built, before |-> Built, moved |-> 0]
       [] kind = "ps2" -> real = [count |-> [n \in Counters |-> 0]]
       [] OTHER -> real = Nothing

PadPanel ==
  \/ OpenPadPanel
  \/ \E leave \in BOOLEAN, raw \in [Ports -> SUBSET Buttons],
        late \in {[p \in Ports |-> p <= n] : n \in 0..2} : PassPadPanel(leave, raw, late)
KeyPanel == OpenKeyPanel \/ \E held \in SUBSET {"Esc", "Q"}, click \in BOOLEAN : PassKeyPanel(held, click)
LedPanel == OpenLedPanel \/ StepLedPanel \/ LeaveLedPanel
AudioPanel ==
  \/ OpenAudioPanel \/ NextChannel \/ LeaveAudioPanel
  \/ \E batch \in Batches, click \in {"none", "yes", "no", "stop"} : PollAudioPanel(batch, click)
TapePanel ==
  OpenTapePanel \/ \E leave \in BOOLEAN, signal \in Signals, offset \in {0, 100, 5000, 9999} :
                     PassTapePanel(leave, signal, offset)
ClockPanel ==
  \/ OpenClockPanel
  \/ \E keys \in ClockKeys : RestartClocks(keys) \/ \E cancel \in BOOLEAN : PassClockPanel(keys, cancel)
PortPanel == OpenPortPanel \/ \E leave \in BOOLEAN, came \in SUBSET Counters : PassPortPanel(leave, came)

PanelNext ==
  \/ kind = "nespad" /\ PadPanel
  \/ kind = "keys" /\ KeyPanel
  \/ kind = "led" /\ LedPanel
  \/ kind = "audio" /\ AudioPanel
  \/ kind = "tape" /\ TapePanel
  \/ kind = "overclock" /\ ClockPanel
  \/ kind = "ps2" /\ PortPanel

---------------------------------------------------------------------------
(* The buttons lit are those of the read before last or of the last one,   *)
(* a pad that is not there lights none, and nothing at all a port the      *)
(* board does not have.                                                    *)
PadsAreShown ==
  kind = "nespad" /\ shown # Nothing =>
    \A p \in Ports :
      shown.held[p] \in IF PadFits(p) THEN {Decoded(raw) : raw \in ToSet(real.samples[p])} ELSE {{}}

(* Esc closes the keyboard panel, but not before it has been seen lit:     *)
(* "the key gets tested and still closes the window" (dlg_keys.c).         *)
EscIsTested == kind = "keys" /\ mem # Nothing => (mem.esc => mem.lit)

(* The plain LED is lit when the panel says "driven high"; the WS2812 is   *)
(* dark when it says "waiting", and until then of the hue it names, or     *)
(* dark; and when the panel is gone both are.                              *)
LedsAreShown ==
  kind = "led" =>
    /\ shown # Nothing /\ up =>
         /\ real.plain = shown.lit
         /\ real.rgb.drive # 0 => shown.fading /\ shown.hue = real.rgb.hue
    /\ ~up => ~real.plain /\ real.rgb.drive = 0

(* The channel named is the one that plays, and the report's "by ear" is   *)
(* what the operator last said: leaving, or a stall, says nothing.         *)
AnswersAreGiven ==
  kind = "audio" =>
    /\ up => shown.ch = real.plays
    /\ ~up => real.attested = real.said

(* A tape whose speed is up to a tenth off is told apart from silence and  *)
(* hum, its pilot tone from its data, wherever the window opens; and the   *)
(* band that is painted for it has the thickness of its kind.              *)
TapeIsTold ==
  kind = "tape" /\ shown # Nothing =>
    /\ shown.of = (CASE real.plays.of = "hum" -> "noise" [] real.plays.of = "none" -> "silent"
                     [] OTHER -> real.plays.of)
    /\ shown.of = "pilot" => shown.band = "thick"
    /\ shown.of = "data" => shown.band = "thin"

(* The dialog opens on what the board is really doing (oc_request.h): what *)
(* it first shows is in force, and applied as it opened changes nothing.   *)
ClocksAreHonest ==
  kind = "overclock" /\ mem # Nothing /\ mem.moves = 0 =>
    /\ up => shown.values = real.live
    /\ real.live = real.before

(* "The counts should climb": those of the PS/2 ports do.                  *)
PortsAreCounted ==
  kind = "ps2" /\ shown # Nothing =>
    \A n \in {"bytes", "packets"} : shown.count[n] = real.count[n]

PanelsAreTrue ==
  /\ PadsAreShown /\ EscIsTested /\ LedsAreShown /\ AnswersAreGiven /\ TapeIsTold
  /\ ClocksAreHonest /\ PortsAreCounted

(* And the USB keyboard's: "The scancode test was PS/2 only, which made it *)
(* useless on the boards whose only keyboard is USB" (dlg_ps2.c:199).      *)
UsbKeysAreCounted ==
  kind = "ps2" /\ shown # Nothing => shown.count["usb"] = real.count["usb"]
=============================================================================
