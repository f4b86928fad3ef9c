-------------------------------- MODULE Pads --------------------------------
(***************************************************************************)
(* Who drives which pad.  The audio dialog (app/dlg_audio.c,               *)
(* tests/tests_audio.c), the gamepad dialog (drivers/nespad), the tape     *)
(* dialog and the rows that borrow pads take turns on the same pins; the   *)
(* I2S state machine, the PWM slices, the DAC of the PCM5122 hat and the   *)
(* gamepad's state machines outlive the dialog that set them up.           *)
(***************************************************************************)
EXTENDS Integers, FiniteSets

CONSTANT Boards   \* the boards the operator may say this is

(* Of a descriptor: the two I2S connections as data pad and first clock    *)
(* pad, whether an audio mux makes PWM worth offering, and the pads of the *)
(* TurboSound, the gamepads, the ESP-01, the tape, the LED, the bit-banged *)
(* PSRAM, and what else it claims of the larger chip's 48 pins.            *)
NC == -1
NoPair == <<NC, NC>>
Tda == <<9, 10>>
Nes == {20, 21, 26, 27}
Wires(i2s, pcm, mux, ay, nes, esp, tape, ram, other) ==
  [i2s |-> i2s, pcm |-> pcm, mux |-> mux, ay |-> ay, nes |-> nes, esp |-> esp,
   tape |-> tape, led |-> {25}, ram |-> ram, other |-> other]
Frank ==
  Wires(Tda, NoPair, TRUE, {}, Nes, {20, 21}, {22}, {},
        (0..7) \cup (12..19) \cup {23, 24} \cup (29..47))
Mega ==
  Wires(Tda, NoPair, TRUE, {9, 10, 11}, Nes, {38, 39}, {22}, 31..34,
        (0..7) \cup (12..19) \cup (28..30))
NextBoard ==
  Wires(<<11, 9>>, NoPair, FALSE, {}, Nes, {}, {22}, {},
        (0..7) \cup (12..19) \cup {23, 24} \cup (28..30) \cup (32..41) \cup {47})
Z0pa ==
  Wires(<<10, 11>>, <<21, 18>>, FALSE, {}, {4, 5, 7, 8}, {}, {}, {},
        (0..3) \cup {14, 15} \cup (30..40) \cup {43, 47})

Source == {"PWM", "I2S", "TS", "PCM"}
Lines(pair) == IF pair = NoPair THEN {} ELSE {pair[1], pair[2], pair[2] + 1}
(* A data pad, a first clock pad with its second beside it; PWM comes out  *)
(* where I2S does.                                                         *)
Pair == ((0..47) \X (0..46)) \cup {NoPair}
Descriptor ==
  [i2s : Pair, pcm : Pair, mux : BOOLEAN, ay : SUBSET (0..47), nes : SUBSET (0..47),
   esp : SUBSET (0..47), tape : SUBSET (0..47), led : SUBSET (0..47),
   ram : SUBSET (0..47), other : SUBSET (0..47)]
ASSUME PadsAssumption ==
  /\ Boards # {}
  /\ \A b \in Boards : b \in Descriptor /\ (b.mux => b.i2s # NoPair)
Shared(b) == Lines(b.i2s) \cup b.ay \cup b.nes \cup b.esp \cup b.tape \cup b.led \cup b.ram
Pad == UNION {Shared(b) \cup Lines(b.pcm) : b \in Boards}

VARIABLES
  board,     \* the descriptor in force
  fn,        \* the function of every pad
  i2s,       \* s_i2s_up, the pair the state machine is set up for, and whether it runs
  slices,    \* the pads whose PWM slice runs
  dac,       \* of the hat: muted, open, or pulled off while it was open
  nes,       \* the pads the gamepad driver was set up with, once
  dialog,    \* what is on the screen
  sounding,  \* the melody has begun
  was        \* dlg_tape's copy of its pad's function
padVars == <<board, fn, i2s, slices, dac, nes, dialog, sounding, was>>

Function == {"NULL", "SIO", "PIO1", "PIO2", "PWM"}
Dialog == Source \cup {"none", "gamepad", "tape"}

Drives(s) ==
  CASE s = "PWM" -> IF board.mux THEN {board.i2s[1], board.i2s[2]} ELSE {}
    [] s = "I2S" -> Lines(board.i2s)
    [] s = "TS"  -> board.ay
    [] s = "PCM" -> Lines(board.pcm)
Routed(pads, f) == [p \in Pad |-> IF p \in pads THEN f ELSE fn[p]]

---------------------------------------------------------------------------
(* The audio dialog: one pass of the melody after the other, until the     *)
(* operator stops it or a pass fails.                                      *)

(* audio_src_available; the hat has answered a probe of its menu item.     *)
OpenAudio(s) ==
  /\ dialog = "none" /\ Drives(s) # {}
  /\ dialog' = s
  /\ UNCHANGED <<board, fn, i2s, slices, dac, nes, sounding, was>>

(* The pads go to the state machine, which runs; it is set up anew unless  *)
(* it is up for this very pair.  Seeded fault: unless it is up at all.     *)
KeepTheFirstPair(pair) ==
  [up |-> TRUE, pair |-> IF i2s.up THEN i2s.pair ELSE pair, on |-> TRUE]
BringUp(pair) == [up |-> TRUE, pair |-> pair, on |-> TRUE]

(* audio_stop.                                                             *)
Stopped(s) ==
  CASE s \in {"I2S", "PCM"} -> [i2s EXCEPT !.on = @ /\ ~i2s.up]
    [] s = "TS"             -> [i2s EXCEPT !.up = FALSE]
    [] OTHER                -> i2s
Stop(s) ==
  /\ i2s' = Stopped(s)
  /\ fn' = IF s = "TS" THEN Routed(board.ay, "SIO") ELSE fn
  /\ slices' = IF s = "PWM" THEN slices \ Drives(s) ELSE slices
  /\ dac' = IF s = "PCM" THEN "muted" ELSE dac
  /\ dialog' = "none" /\ sounding' = FALSE

PassI2s ==
  /\ dialog = "I2S"
  /\ i2s' = BringUp(board.i2s) /\ fn' = Routed(Lines(board.i2s), "PIO1")
  /\ sounding' = TRUE
  /\ UNCHANGED <<board, slices, dac, nes, dialog, was>>

(* The hat is configured anew on every pass; one that was taken off does   *)
(* not answer, and ends the dialog.                                        *)
PassPcm ==
  /\ dialog = "PCM"
  /\ \/ /\ dac' = "open"
        /\ i2s' = BringUp(board.pcm) /\ fn' = Routed(Lines(board.pcm), "PIO1")
        /\ sounding' = TRUE /\ UNCHANGED <<slices, dialog>>
     \/ Stop("PCM")
  /\ UNCHANGED <<board, nes, was>>

(* A counter that reads the same twice, dead or a whole lap later, fails   *)
(* the pass before the state machine is known to have lost its pads.       *)
PassPwm ==
  /\ dialog = "PWM"
  /\ \/ /\ fn' = Routed(Drives("PWM"), "PWM") /\ slices' = slices \cup Drives("PWM")
        /\ i2s' = [i2s EXCEPT !.up = FALSE]
        /\ sounding' = TRUE /\ UNCHANGED <<dac, dialog>>
     \/ /\ fn' = Routed(Drives("PWM"), "PWM") /\ slices' = slices \ Drives("PWM")
        /\ dialog' = "none" /\ sounding' = FALSE /\ UNCHANGED <<i2s, dac>>
  /\ UNCHANGED <<board, nes, was>>

PassTs ==
  /\ dialog = "TS"
  /\ fn' = Routed(board.ay, "SIO") /\ i2s' = [i2s EXCEPT !.up = FALSE]
  /\ sounding' = TRUE
  /\ UNCHANGED <<board, slices, dac, nes, dialog, was>>

StopAudio ==
  /\ dialog \in Source /\ sounding /\ Stop(dialog)
  /\ UNCHANGED <<board, nes, was>>

PullHat ==
  /\ dac = "open" /\ dac' = "pulled"
  /\ UNCHANGED <<board, fn, i2s, slices, nes, dialog, sounding, was>>

---------------------------------------------------------------------------
(* The gamepad dialog, the tape dialog, and the rows that borrow pads.     *)

(* nespad_begin takes its pads the first time and returns early ever after.*)
OpenGamepad ==
  /\ dialog = "none" /\ board.nes # {} /\ dialog' = "gamepad"
  /\ IF nes # {} THEN UNCHANGED <<fn, nes>>
     ELSE nes' = board.nes /\ fn' = Routed(board.nes, "PIO2")
  /\ UNCHANGED <<board, i2s, slices, dac, sounding, was>>

OpenTape ==
  /\ dialog = "none" /\ dialog' = "tape"
  /\ \E p \in board.tape : was' = fn[p]
  /\ fn' = Routed(board.tape, "SIO")
  /\ UNCHANGED <<board, i2s, slices, dac, nes, sounding>>

CloseDialog ==
  /\ dialog \in {"gamepad", "tape"} /\ dialog' = "none"
  /\ fn' = IF dialog = "tape" THEN Routed(board.tape, was) ELSE fn
  /\ UNCHANGED <<board, i2s, slices, dac, nes, sounding, was>>

Owned(p) == fn[p] \notin {"SIO", "NULL"}

(* The tape switch row gives the pad back only to a peripheral.            *)
TapeSwitch == fn' = Routed({p \in board.tape : ~Owned(p)}, "SIO")

(* Every pair of neighbours of which the descriptor claims neither; the    *)
(* hat's pads are not among those it claims.                               *)
Claimed == Shared(board) \cup board.other
Scanned == {p \in Pad \ Claimed : \E q \in {p - 1, p + 1} \cap 0..47 : q \notin Claimed}
TestPins(pads) == Routed({p \in pads : ~Owned(p)}, "NULL")
ShortScan == fn' = TestPins(Scanned)

(* The ESP-01 row ends with its two pads as inputs; the LED dialog and the *)
(* bit-banged PSRAM leave theirs as plain pins.                            *)
EspTest == fn' = Routed(board.esp, "SIO")
LedDialog == fn' = Routed(board.led, "SIO")
SpiPsram == fn' = Routed(board.ram, "SIO")

Borrow ==
  /\ dialog = "none"
  /\ TapeSwitch \/ ShortScan \/ EspTest \/ LedDialog \/ SpiPsram
  /\ UNCHANGED <<board, i2s, slices, dac, nes, dialog, sounding, was>>

SetBoard ==
  /\ dialog = "none" /\ board' \in Boards
  /\ UNCHANGED <<fn, i2s, slices, dac, nes, dialog, sounding, was>>

PadsInit(boards) ==
  /\ board \in boards /\ fn = [p \in Pad |-> "NULL"]
  /\ i2s = [up |-> FALSE, pair |-> NoPair, on |-> FALSE]
  /\ slices = {} /\ dac = "muted" /\ nes = {}
  /\ dialog = "none" /\ sounding = FALSE /\ was = "NULL"

PadsNext ==
  \/ \E s \in Source : OpenAudio(s)
  \/ PassI2s \/ PassPcm \/ PassPwm \/ PassTs \/ StopAudio \/ PullHat
  \/ OpenGamepad \/ OpenTape \/ CloseDialog \/ Borrow \/ SetBoard

---------------------------------------------------------------------------
(* Every pad has one function, and the state machine never runs without a  *)
(* pair.                                                                   *)
PadsTypeOK ==
  /\ board \in Boards /\ fn \in [Pad -> Function] /\ slices \subseteq Pad
  /\ i2s.up \in BOOLEAN /\ i2s.on \in BOOLEAN /\ (i2s.on => i2s.pair # NoPair)
  /\ dac \in {"muted", "open", "pulled"} /\ nes \subseteq Pad
  /\ dialog \in Dialog /\ sounding \in BOOLEAN /\ was \in Function

(* The engine of the source that is on has the pads, is set up for them    *)
(* and runs.                                                               *)
Playing(s) ==
  CASE s = "PWM" -> /\ \A p \in Drives(s) : fn[p] = "PWM" /\ Drives(s) \subseteq slices
    [] s = "TS"  -> \A p \in Drives(s) : fn[p] = "SIO"
    [] OTHER     -> /\ \A p \in Drives(s) : fn[p] = "PIO1"
                    /\ i2s.on /\ Lines(i2s.pair) = Drives(s)
                    /\ (s = "PCM" => dac # "muted")

(* A melody that is said to play is driven onto the pads of the source the *)
(* operator chose, whatever played, ran or was set before; and when its    *)
(* dialog is closed nothing goes on: no bit clock, no PWM, no open DAC.    *)
SoundIsTheDialogs ==
  /\ sounding => Playing(dialog)
  /\ i2s.on => dialog \in {"I2S", "PCM"}
  /\ slices # {} => dialog = "PWM"
  /\ dac = "open" => dialog = "PCM"

(* While the gamepad dialog is open the gamepad's state machines have the  *)
(* pads the board's gamepads are on.                                       *)
GamepadHears == dialog = "gamepad" => \A p \in board.nes : fn[p] = "PIO2"
=============================================================================
