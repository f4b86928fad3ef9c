-------------------------- MODULE InterfaceProofs --------------------------
(***************************************************************************)
(* What the operator is promised, for any boards, gamepads, LEDs and rows:  *)
(* sound is the dialog's that is open, a panel says what the hardware does, *)
(* the desktop shows what was selected and reaches every command, and what  *)
(* hands do to keyboards and mice is what the interface is told.            *)
(***************************************************************************)
EXTENDS Interface, Input, SequenceTheorems, FiniteSetTheorems, TLAPS

---------------------------------------------------------------------------
(* The pads.  Beyond the property itself: only a source's dialog sounds,    *)
(* the state machine runs only while it is set up, and the slices that run  *)
(* are the dialog's.                                                        *)
PadsInv ==
  /\ board \in Boards
  /\ i2s \in [up : BOOLEAN, pair : Pair, on : BOOLEAN]
  /\ sounding => dialog \in Source /\ Playing(dialog)
  /\ i2s.on => i2s.up /\ dialog \in {"I2S", "PCM"}
  /\ slices # {} => dialog = "PWM"
  /\ slices \subseteq Drives("PWM") \/ slices = {}
  /\ dac = "open" => dialog = "PCM"

(* The pads of a source are among those whose function is kept.             *)
LEMMA DrivesAreShared ==
  ASSUME board \in Boards, NEW s \in Source \ {"PCM"}
  PROVE  Drives(s) \subseteq Shared(board)
<1> board \in Descriptor /\ (board.mux => board.i2s # NoPair) BY PadsAssumption
<1>1. Lines(board.i2s) \subseteq Shared(board) /\ board.ay \subseteq Shared(board) BY DEF Shared
<1>2. CASE s = "PWM"
  <2>1. board.mux => board.i2s[1] \in Lines(board.i2s) /\ board.i2s[2] \in Lines(board.i2s) BY DEF Lines
  <2> QED BY <1>1, <1>2, <2>1 DEF Drives
<1>3. CASE s \in {"I2S", "TS"} BY <1>1, <1>3 DEF Drives
<1> QED BY <1>2, <1>3 DEF Source

(* Of every source, they are pads.                                          *)
LEMMA DrivesArePads ==
  ASSUME board \in Boards, NEW s \in Source
  PROVE  Drives(s) \subseteq Pad
<1>1. Shared(board) \subseteq Pad /\ Lines(board.pcm) \subseteq Pad BY DEF Pad
<1>2. CASE s = "PCM" BY <1>1, <1>2 DEF Drives
<1>3. CASE s \in Source \ {"PCM"} BY <1>1, <1>3, DrivesAreShared
<1> QED BY <1>2, <1>3
(* What CASE says, source by source.                                        *)
LEMMA DrivesCases ==
  /\ Drives("PWM") = IF board.mux THEN {board.i2s[1], board.i2s[2]} ELSE {}
  /\ Drives("I2S") = Lines(board.i2s)
  /\ Drives("TS") = board.ay
  /\ Drives("PCM") = Lines(board.pcm)
BY Zenon DEF Drives

(* And of what plays next: a bit clock, unless it is PWM or the TurboSound. *)
LEMMA PlayingCases ==
  /\ Playing("PWM")' <=> (\A p \in Drives("PWM")' : fn'[p] = "PWM" /\ Drives("PWM")' \subseteq slices')
  /\ Playing("TS")' <=> (\A p \in Drives("TS")' : fn'[p] = "SIO")
  /\ \A s \in {"I2S", "PCM"} :
       Playing(s)' <=> (/\ \A p \in Drives(s)' : fn'[p] = "PIO1"
                        /\ i2s'.on /\ Lines(i2s'.pair) = Drives(s)'
                        /\ (s = "PCM" => dac' # "muted"))
BY Zenon DEF Playing

(* Closing a source's dialog.                                               *)
LEMMA StoppedCases ==
  /\ \A s \in {"I2S", "PCM"} : Stopped(s) = [i2s EXCEPT !.on = @ /\ ~i2s.up]
  /\ Stopped("TS") = [i2s EXCEPT !.up = FALSE]
  /\ Stopped("PWM") = i2s
BY Zenon DEF Stopped

(* Before anything is opened nothing sounds.                                *)
LEMMA PadsStart == ASSUME Init PROVE PadsInv
<1>1. PadsInit(Boards) \/ PadsInit(One(Boards)) BY DEF Init
<1>2. One(Boards) \subseteq Boards BY PadsAssumption DEF One
<1>3. board \in Boards BY <1>1, <1>2 DEF PadsInit
<1>4. i2s \in [up : BOOLEAN, pair : Pair, on : BOOLEAN] 
  <2>1. i2s = [up |-> FALSE, pair |-> NoPair, on |-> FALSE] BY <1>1 DEF PadsInit
  <2>2. NoPair \in Pair BY DEF Pair
  <2> QED BY <2>1, <2>2
<1> QED BY <1>1, <1>3, <1>4 DEF PadsInit, PadsInv
(* Whatever leaves the board, the pads, the engines and the dialog alone    *)
(* leaves what plays alone.                                                 *)
LEMMA PadsStutter ==
  ASSUME PadsInv, UNCHANGED <<board, fn, i2s, slices, dac, dialog, sounding>>
  PROVE  PadsInv'
BY DEF PadsInv, Playing, Drives

(* A pair that is brought up is a record of its own.                        *)
LEMMA PairIsUp ==
  ASSUME NEW pair \in Pair
  PROVE  /\ BringUp(pair) \in [up : BOOLEAN, pair : Pair, on : BOOLEAN]
         /\ BringUp(pair).up = TRUE /\ BringUp(pair).on = TRUE /\ BringUp(pair).pair = pair
BY DEF BringUp

(* A source's dialog closes on silence.                                     *)
LEMMA StopIsSilent ==
  ASSUME PadsInv, dialog \in Source, Stop(dialog), UNCHANGED <<board, nes, was>>
  PROVE  PadsInv'
<1> USE DEF PadsInv
<1>1. i2s' = Stopped(dialog) /\ dialog' = "none" /\ sounding' = FALSE BY DEF Stop
<1>2. i2s' \in [up : BOOLEAN, pair : Pair, on : BOOLEAN] /\ i2s'.on = FALSE
  <2>1. CASE dialog \in {"I2S", "PCM"}
    <3>1. i2s' = [i2s EXCEPT !.on = @ /\ ~i2s.up] BY <1>1, <2>1, StoppedCases
    <3>2. i2s'.on = (i2s.on /\ ~i2s.up) /\ i2s'.up = i2s.up /\ i2s'.pair = i2s.pair BY <3>1
    <3>3. i2s' \in [up : BOOLEAN, pair : Pair, on : BOOLEAN] BY <3>1
    <3> QED BY <3>2, <3>3
  <2>2. CASE dialog = "TS" BY <1>1, <2>2, StoppedCases
  <2>3. CASE dialog = "PWM" BY <1>1, <2>3, StoppedCases
  <2> QED BY <2>1, <2>2, <2>3 DEF Source
<1>3. slices' = {}
  <2>1. CASE dialog = "PWM" BY <2>1 DEF Stop
  <2>2. CASE dialog # "PWM" BY <2>2 DEF Stop
  <2> QED BY <2>1, <2>2
<1>4. dac' # "open" BY DEF Stop
<1> QED BY <1>1, <1>2, <1>3, <1>4

(* A pass drives the pads of its source.                                    *)
LEMMA PassesPlay ==
  ASSUME PadsInv, PassI2s \/ PassPcm \/ PassPwm \/ PassTs
  PROVE  PadsInv'
<1> USE DEF PadsInv
<1> board \in Descriptor /\ board' = board BY PadsAssumption DEF PassI2s, PassPcm, PassPwm, PassTs
<1>1. board.i2s \in Pair /\ board.pcm \in Pair BY DEF Descriptor
<1>2. \A s \in Source : Drives(s)' = Drives(s) BY DEF Drives
<1>3. \A s \in Source : Drives(s) \subseteq Pad BY DrivesArePads
<1>4. CASE PassI2s
  <2>1. i2s' = BringUp(board.i2s) /\ dialog' = "I2S" /\ dialog = "I2S" /\ slices' = slices /\ dac' = dac
    BY <1>4 DEF PassI2s
  <2>2. \A p \in Drives("I2S") : fn'[p] = "PIO1"
    BY <1>3, <1>4, DrivesCases DEF PassI2s, Routed, Source
  <2>3. Lines(i2s'.pair) = Drives("I2S") BY <1>1, <2>1, DrivesCases, PairIsUp
  <2>4. Playing("I2S")'
    BY <1>1, <1>2, <2>1, <2>2, <2>3, PlayingCases, PairIsUp DEF Source
  <2>5. i2s' \in [up : BOOLEAN, pair : Pair, on : BOOLEAN] /\ i2s'.up BY <1>1, <2>1, PairIsUp
  <2> QED BY <2>1, <2>4, <2>5 DEF Source
<1>5. CASE PassPcm /\ ~Stop("PCM")
  <2>1. /\ i2s' = BringUp(board.pcm) /\ dialog' = "PCM" /\ dac' = "open" /\ dialog = "PCM"
        /\ slices' = slices
    BY <1>5 DEF PassPcm
  <2>2. \A p \in Drives("PCM") : fn'[p] = "PIO1"
    BY <1>3, <1>5, DrivesCases DEF PassPcm, Routed, Source
  <2>3. Lines(i2s'.pair) = Drives("PCM") BY <1>1, <2>1, DrivesCases, PairIsUp
  <2>4. Playing("PCM")'
    BY <1>1, <1>2, <2>1, <2>2, <2>3, PlayingCases, PairIsUp DEF Source
  <2>5. i2s' \in [up : BOOLEAN, pair : Pair, on : BOOLEAN] /\ i2s'.up BY <1>1, <2>1, PairIsUp
  <2> QED BY <2>1, <2>4, <2>5 DEF Source
<1>6. CASE PassPcm /\ Stop("PCM") BY <1>6, StopIsSilent DEF PassPcm, Source
<1>7. CASE PassPwm
  <2>1. dialog = "PWM" /\ fn' = Routed(Drives("PWM"), "PWM") BY <1>7 DEF PassPwm
  <2>2. \A p \in Drives("PWM") : fn'[p] = "PWM" BY <1>3, <2>1 DEF Routed, Source
  <2>3. CASE sounding' = FALSE
    <3>1. i2s' = i2s \/ i2s' = [i2s EXCEPT !.up = FALSE] BY <1>7 DEF PassPwm
    <3> QED BY <1>7, <2>1, <2>3, <3>1 DEF PassPwm
  <2>4. CASE sounding' # FALSE
    <3>1. /\ slices' = slices \cup Drives("PWM") /\ i2s' = [i2s EXCEPT !.up = FALSE]
          /\ dialog' = "PWM" /\ dac' = dac
      BY <1>7, <2>4 DEF PassPwm
    <3>2. slices \subseteq Drives("PWM") OBVIOUS
    <3>3. Playing("PWM")' BY <1>2, <2>2, <3>1, PlayingCases DEF Source
    <3> QED BY <1>2, <2>1, <3>1, <3>2, <3>3 DEF Source
  <2> QED BY <2>3, <2>4
<1>8. CASE PassTs
  <2>1. /\ dialog = "TS" /\ dialog' = "TS" /\ fn' = Routed(board.ay, "SIO") /\ i2s' = [i2s EXCEPT !.up = FALSE]
        /\ slices' = slices /\ dac' = dac
    BY <1>8 DEF PassTs
  <2>2. \A p \in Drives("TS") : fn'[p] = "SIO" BY <1>3, <2>1, DrivesCases DEF Routed, Source
  <2>3. Playing("TS")' BY <1>2, <2>2, PlayingCases DEF Source
  <2> QED BY <2>1, <2>3 DEF Source
<1> QED BY <1>4, <1>5, <1>6, <1>7, <1>8

(* And everything else the operator may do.                                 *)
LEMMA PadsStep == ASSUME PadsInv, PadsNext PROVE PadsInv'
<1> USE DEF PadsInv
<1>1. ASSUME NEW s \in Source, OpenAudio(s) PROVE PadsInv'
  BY <1>1 DEF OpenAudio, Source, Drives
<1>2. CASE PassI2s \/ PassPcm \/ PassPwm \/ PassTs BY <1>2, PassesPlay
<1>3. CASE StopAudio BY <1>3, StopIsSilent DEF StopAudio
<1>4. CASE PullHat
  <2>1. sounding => dialog = "PCM" BY <1>4 DEF PullHat
  <2>2. Playing("PCM") => Playing("PCM")' BY <1>4 DEF PullHat, Playing, Drives
  <2>3. Drives("PWM")' = Drives("PWM") BY <1>4 DEF PullHat, Drives
  <2> QED BY <1>4, <2>1, <2>2, <2>3 DEF PullHat
<1>5. CASE OpenGamepad \/ OpenTape \/ CloseDialog \/ Borrow
  <2>1. ~sounding /\ ~sounding' /\ ~i2s.on /\ slices = {} /\ dac # "open"
    BY <1>5 DEF OpenGamepad, OpenTape, CloseDialog, Borrow, Source
  <2> QED BY <1>5, <2>1 DEF OpenGamepad, OpenTape, CloseDialog, Borrow
<1>6. CASE SetBoard
  <2>1. ~sounding /\ ~sounding' /\ ~i2s.on /\ slices = {} /\ dac # "open"
    BY <1>6 DEF SetBoard, Source
  <2> QED BY <1>6, <2>1 DEF SetBoard
<1> QED BY <1>1, <1>2, <1>3, <1>4, <1>5, <1>6 DEF PadsNext

(* For any boards, in any order of dialogs, rows and melodies: a melody     *)
(* that is said to play is on the pads of the source the operator chose,    *)
(* and a closed dialog leaves no bit clock, no PWM and no open DAC.         *)
THEOREM SoundIsAlwaysTheDialogs == Spec => []SoundIsTheDialogs
<1>1. Init => PadsInv BY PadsStart
<1>2. PadsInv /\ [Next]_vars => PadsInv'
  <2> SUFFICES ASSUME PadsInv, [Next]_vars PROVE PadsInv' OBVIOUS
  <2>1. CASE PadsNext BY <2>1, PadsStep
  <2>2. CASE UNCHANGED padVars BY <2>2, PadsStutter DEF padVars
  <2>3. PadsNext \/ UNCHANGED padVars BY DEF Next, vars
  <2> QED BY <2>1, <2>2, <2>3
<1>3. PadsInv => SoundIsTheDialogs BY DEF PadsInv, SoundIsTheDialogs
<1> QED BY <1>1, <1>2, <1>3, PTL DEF Spec
---------------------------------------------------------------------------
(* The gamepads.  A read that came late waits alone in its FIFO, and the    *)
(* state is that of the sample before it; without one it is the last's.     *)
PortFollows(p) ==
  IF PadFits(p)
  THEN \/ real.fifo[p] = <<>> /\ real.state[p] = Decoded(real.samples[p][1])
       \/ real.fifo[p] = <<real.samples[p][1]>> /\ real.state[p] = Decoded(real.samples[p][2])
  ELSE real.state[p] = {}
Gamepads ==
  [have2 : BOOLEAN, state : [Ports -> SUBSET Buttons], fifo : [Ports -> Seq(SUBSET Buttons)],
   samples : [Ports -> (SUBSET Buttons) \X (SUBSET Buttons)]]
PadPanelInv ==
  /\ real \in Gamepads /\ \A p \in Ports : PortFollows(p)
  /\ shown # Nothing => shown.held = real.state /\ mem.last = real.state

(* Nothing is read yet, and no sample was ever anything but empty.          *)
LEMMA PadPanelStart == ASSUME PanelInit(PanelKinds), kind = "nespad" PROVE PadPanelInv
<1>1. PICK two \in BOOLEAN :
        real = [have2 |-> two, state |-> [p \in Ports |-> {}], fifo |-> [p \in Ports |-> <<>>],
                samples |-> [p \in Ports |-> <<{}, {}>>]]
  BY Zenon DEF PanelInit
<1>2. real \in Gamepads
  <2>1. [p \in Ports |-> {}] \in [Ports -> SUBSET Buttons] OBVIOUS
  <2>2. [p \in Ports |-> <<>>] \in [Ports -> Seq(SUBSET Buttons)] OBVIOUS
  <2>3. [p \in Ports |-> <<{}, {}>>] \in [Ports -> (SUBSET Buttons) \X (SUBSET Buttons)] OBVIOUS
  <2> QED BY <1>1, <2>1, <2>2, <2>3 DEF Gamepads
<1>3. \A p \in Ports : PortFollows(p) BY <1>1 DEF PortFollows, Decoded
<1>4. shown = Nothing BY DEF PanelInit
<1> QED BY <1>2, <1>3, <1>4 DEF PadPanelInv

(* What the FIFO holds before a read, and after it.                         *)
Waits(had, f, old) == (f = <<>> /\ had = Decoded(old)) \/ f = <<old>>
Answered(had, f, old, raw, late) ==
  \/ Kept(f, raw, late) = <<>> /\ Read(had, f, raw, late) = Decoded(raw)
  \/ Kept(f, raw, late) = <<raw>> /\ Read(had, f, raw, late) = Decoded(old)
(* One read, in time or late, keeps the FIFO no longer than it.             *)
LEMMA ReadFollows ==
  ASSUME NEW had, NEW f, NEW old, NEW raw, NEW late \in BOOLEAN, Waits(had, f, old)
  PROVE  Answered(had, f, old, raw, late)
<1> USE DEF Answered, Waits
<1>1. CASE f = <<>> /\ late BY <1>1 DEF Kept, Read, Pending
<1>2. CASE f = <<>> /\ ~late
  <2>1. Append(f, raw) = <<raw>> /\ Tail(<<raw>>) = <<>> /\ Head(<<raw>>) = raw /\ <<raw>> # <<>> BY <1>2
  <2> QED BY <1>2, <2>1 DEF Kept, Read, Pending
<1>3. CASE f = <<old>> /\ late
  <2>1. Tail(f) = <<>> /\ Head(f) = old /\ f # <<>> /\ Append(<<>>, raw) = <<raw>> BY <1>3
  <2> QED BY <1>3, <2>1 DEF Kept, Read, Pending
<1>4. CASE f = <<old>> /\ ~late
  <2>1. Tail(f) = <<>> /\ Head(f) = old /\ f # <<>> BY <1>4
  <2>2. Head(Append(f, raw)) = old /\ Tail(Append(f, raw)) = Append(<<>>, raw)
    <3>1. f \in Seq({old}) BY <1>4
    <3> QED BY <2>1, <3>1, HeadTailAppend
  <2>3. Append(<<>>, raw) = <<raw>> /\ Append(f, raw) # <<>> BY <1>4
  <2> QED BY <1>4, <2>2, <2>3 DEF Kept, Read, Pending
<1> QED BY <1>1, <1>2, <1>3, <1>4

(* And a pass of the panel shows what it read.                              *)
LEMMA PadPanelPass ==
  ASSUME PadPanelInv, NEW leave \in BOOLEAN, NEW raw \in [Ports -> SUBSET Buttons], NEW late \in [Ports -> BOOLEAN],
         PassPadPanel(leave, raw, late)
  PROVE  PadPanelInv'
<1> USE DEF PadPanelInv
<1> DEFINE state == [p \in Ports |-> IF PadFits(p) THEN Read(real.state[p], real.fifo[p], raw[p], late[p])
                                     ELSE {}]
           queued == [p \in Ports |-> IF PadFits(p) THEN Kept(real.fifo[p], raw[p], late[p]) ELSE <<>>]
           samples == [p \in Ports |-> <<raw[p], real.samples[p][1]>>]
<1>1. /\ real' = [real EXCEPT !.state = state, !.fifo = queued, !.samples = samples]
      /\ mem' = [last |-> state]
      /\ shown' = IF PadsChanged(state) THEN [says |-> "pads", held |-> state] ELSE shown
  BY DEF PassPadPanel
<1>2. real'.state = state /\ real'.fifo = queued /\ real'.samples = samples /\ real'.have2 = real.have2
  BY <1>1 DEF Gamepads
<1>3. ASSUME NEW p \in Ports PROVE /\ state[p] \in SUBSET Buttons /\ queued[p] \in Seq(SUBSET Buttons)
                                   /\ samples[p] \in (SUBSET Buttons) \X (SUBSET Buttons)
                                   /\ PortFollows(p)'
  <2> DEFINE old == real.samples[p][1]
  <2>1. /\ real.fifo[p] \in Seq(SUBSET Buttons) /\ old \in SUBSET Buttons
        /\ raw[p] \in SUBSET Buttons
    BY DEF Gamepads
  <2>2. samples[p] = <<raw[p], old>> /\ samples[p][1] = raw[p] /\ samples[p][2] = old OBVIOUS
  <2>3. PadFits(p)' <=> PadFits(p) BY <1>2 DEF PadFits
  <2>4. Decoded(raw[p]) \in SUBSET Buttons /\ Decoded(old) \in SUBSET Buttons BY <2>1 DEF Decoded
  <2>5. CASE PadFits(p)
    <3>1. \/ queued[p] = <<>> /\ state[p] = Decoded(raw[p])
          \/ queued[p] = <<raw[p]>> /\ state[p] = Decoded(old)
      <4>1. queued[p] = Kept(real.fifo[p], raw[p], late[p]) BY <2>5
      <4>2. state[p] = Read(real.state[p], real.fifo[p], raw[p], late[p]) BY <2>5
      <4>3. \/ real.fifo[p] = <<>> /\ real.state[p] = Decoded(old)
            \/ real.fifo[p] = <<old>>
        BY <2>5 DEF PortFollows
      <4> HIDE DEF state, queued, old
      <4>4. Waits(real.state[p], real.fifo[p], old) BY ONLY <4>3 DEF Waits
      <4>5. Answered(real.state[p], real.fifo[p], old, raw[p], late[p])
        BY ONLY <4>4, late[p] \in BOOLEAN, ReadFollows
      <4> QED BY ONLY <4>1, <4>2, <4>5 DEF Answered
    <3>2. queued[p] \in Seq(SUBSET Buttons)
      <4> HIDE DEF queued, state
      <4>1. <<raw[p]>> \in Seq(SUBSET Buttons) /\ <<>> \in Seq(SUBSET Buttons) BY <2>1
      <4> QED BY ONLY <3>1, <4>1
    <3> QED BY <1>2, <2>1, <2>2, <2>3, <2>4, <2>5, <3>1, <3>2 DEF PortFollows
  <2>6. CASE ~PadFits(p) BY <1>2, <2>1, <2>2, <2>3, <2>6 DEF PortFollows
  <2> QED BY <2>5, <2>6
<1>4. real' \in Gamepads
  <2>1. state \in [Ports -> SUBSET Buttons] /\ queued \in [Ports -> Seq(SUBSET Buttons)]
    BY <1>3
  <2>2. samples \in [Ports -> (SUBSET Buttons) \X (SUBSET Buttons)] BY <1>3
  <2> QED BY <1>1, <2>1, <2>2 DEF Gamepads
<1>5. shown' # Nothing => shown'.held = real'.state /\ mem'.last = real'.state
  <2>1. mem'.last = state BY <1>1
  <2>2. CASE PadsChanged(state) BY <1>1, <1>2, <2>1, <2>2
  <2>3. CASE ~PadsChanged(state)
    <3>1. shown # Nothing => state = real.state
      <4> HAVE shown # Nothing
      <4>1. \A p \in Ports : state[p] = real.state[p] BY <2>3 DEF PadsChanged
      <4>2. real.state \in [Ports -> SUBSET Buttons] BY DEF Gamepads
      <4> HIDE DEF state
      <4>3. state \in [Ports -> SUBSET Buttons] BY <1>2, <1>4 DEF Gamepads
      <4> QED BY <4>1, <4>2, <4>3
    <3> HIDE DEF state
    <3> QED BY <1>1, <1>2, <2>1, <2>3, <3>1
  <2> QED BY <2>2, <2>3
<1> QED BY <1>3, <1>4, <1>5

(* In every order of openings and passes.                                   *)
LEMMA PadPanelStep == ASSUME PadPanelInv, kind = "nespad", PadPanel PROVE PadPanelInv' /\ kind' = kind
<1>1. CASE OpenPadPanel BY <1>1 DEF OpenPadPanel, Unshown, PadPanelInv, PortFollows, PadFits
<1>2. ASSUME NEW leave \in BOOLEAN, NEW raw \in [Ports -> SUBSET Buttons],
             NEW late \in {[p \in Ports |-> p <= n] : n \in 0..2},
             PassPadPanel(leave, raw, late)
      PROVE  PadPanelInv' /\ kind' = kind
  <2>0. late \in [Ports -> BOOLEAN]
    <3>1. PICK n \in 0..2 : late = [p \in Ports |-> p <= n] OBVIOUS
    <3>2. \A p \in Ports : (p <= n) \in BOOLEAN OBVIOUS
    <3> QED BY <3>1, <3>2, Zenon
  <2>1. PadPanelInv' BY <1>2, <2>0, PadPanelPass
  <2> QED BY <1>2, <2>1 DEF PassPadPanel, Passes
<1> QED BY <1>1, <1>2 DEF PadPanel

(* What lights is the read before last or the last.                         *)
LEMMA PadPanelTells == ASSUME PadPanelInv PROVE PadsAreShown
<1> SUFFICES ASSUME shown # Nothing, NEW p \in Ports
             PROVE  shown.held[p] \in IF PadFits(p) THEN {Decoded(raw) : raw \in ToSet(real.samples[p])} ELSE {{}}
  BY DEF PadsAreShown
<1>1. shown.held[p] = real.state[p] /\ PortFollows(p) BY DEF PadPanelInv
<1>2. real.samples[p] \in (SUBSET Buttons) \X (SUBSET Buttons) BY DEF PadPanelInv, Gamepads
<1>3. real.samples[p][1] \in ToSet(real.samples[p]) /\ real.samples[p][2] \in ToSet(real.samples[p])
  BY <1>2 DEF ToSet
<1> QED BY <1>1, <1>3 DEF PortFollows
---------------------------------------------------------------------------
(* The keyboard: an Esc that has been seen has been drawn.                  *)
KeyPanelInv == up \/ mem # Nothing => (mem.esc => mem.lit)

(* And stays so, keys and clicks in any order.                              *)
LEMMA KeyPanelStep == ASSUME KeyPanelInv, kind = "keys", KeyPanel PROVE KeyPanelInv' /\ kind' = kind
<1>1. CASE OpenKeyPanel BY <1>1 DEF OpenKeyPanel, Unshown, KeyPanelInv
<1>2. ASSUME NEW keys \in SUBSET {"Esc", "Q"}, NEW click \in BOOLEAN, PassKeyPanel(keys, click)
      PROVE  KeyPanelInv' /\ kind' = kind
  <2>1. mem.esc => mem.lit BY <1>2 DEF PassKeyPanel, Passes, KeyPanelInv
  <2>2. /\ shown' = [says |-> "keys", held |-> keys] /\ kind' = kind
        /\ mem' = [esc |-> mem.esc \/ "Esc" \in keys, lit |-> mem.lit \/ "Esc" \in shown'.held]
    BY <1>2 DEF PassKeyPanel, Passes
  <2>3. shown'.held = keys BY <2>2
  <2>4. mem'.esc = (mem.esc \/ "Esc" \in keys) /\ mem'.lit = (mem.lit \/ "Esc" \in keys) BY <2>2, <2>3
  <2> QED BY <2>1, <2>2, <2>4 DEF KeyPanelInv
<1> QED BY <1>1, <1>2 DEF KeyPanel

---------------------------------------------------------------------------
(* The audio: an answer that is not yet given is not yet heard of.          *)
AudioPanelInv ==
  /\ DOMAIN real = {"plays", "said", "attested"}
  /\ up => /\ shown.ch = real.plays
           /\ real.said = IF mem.answer = "unknown" THEN real.attested ELSE mem.answer
  /\ ~up => real.attested = real.said

(* Answers, channels and ways out, in any order.                            *)
LEMMA AudioPanelStep == ASSUME AudioPanelInv, kind = "audio", AudioPanel PROVE AudioPanelInv' /\ kind' = kind
<1>1. CASE OpenAudioPanel
  <2>1. shown'.ch = 0 /\ mem'.answer = "unknown" /\ up' = TRUE /\ ~up /\ kind' = kind
    BY <1>1 DEF OpenAudioPanel, Opens
  <2>2. real' = [real EXCEPT !.plays = 0] BY <1>1 DEF OpenAudioPanel
  <2> QED BY <2>1, <2>2 DEF AudioPanelInv
<1>2. CASE NextChannel
  <2>1. /\ up /\ up' = up /\ kind' = kind /\ shown' = [says |-> "audio", ch |-> mem'.ch]
        /\ mem' = [mem EXCEPT !.ch = (@ + 1) % 3] /\ real' = [real EXCEPT !.plays = mem'.ch]
    BY <1>2 DEF NextChannel, Passes
  <2>2. shown'.ch = mem'.ch /\ mem'.answer = mem.answer BY <2>1
  <2> QED BY <2>1, <2>2 DEF AudioPanelInv
<1>3. CASE LeaveAudioPanel
  <2>1. /\ up /\ up' = FALSE /\ kind' = kind
        /\ real' = [real EXCEPT !.attested = IF mem.answer = "unknown" THEN @ ELSE mem.answer]
    BY <1>3 DEF LeaveAudioPanel, Passes
  <2> QED BY <2>1 DEF AudioPanelInv
<1>4. ASSUME NEW batch \in Batches, NEW click \in {"none", "yes", "no", "stop"}, PollAudioPanel(batch, click)
      PROVE  AudioPanelInv' /\ kind' = kind
  <2>1. up /\ up' = up /\ shown' = shown /\ kind' = kind BY <1>4 DEF PollAudioPanel, Passes
  <2>2. real' = [real EXCEPT !.said = IF mem'.answer = "unknown" THEN @ ELSE mem'.answer]
    BY <1>4 DEF PollAudioPanel
  <2>3. mem'.answer \in {mem.answer, "heard", "silent"}
    <3> DEFINE given == CASE click = "yes" -> "heard" [] click = "no" -> "silent"
                          [] OTHER -> Answer(batch, mem.answer)
    <3>1. given \in {mem.answer, "heard", "silent"} BY Zenon DEF Answer
    <3>2. mem' = [mem EXCEPT !.answer = given, !.abort = click # "none" \/ batch # <<>>]
      BY <1>4, Zenon DEF PollAudioPanel
    <3> HIDE DEF given
    <3>3. mem'.answer = given \/ mem'.answer = mem.answer BY <3>2
    <3> QED BY <3>1, <3>3
  <2> QED BY <2>1, <2>2, <2>3 DEF AudioPanelInv
<1> QED BY <1>1, <1>2, <1>3, <1>4 DEF AudioPanel
---------------------------------------------------------------------------
(* The PS/2 ports: what is shown is what was compared last.                 *)
PortPanelInv ==
  /\ real \in [count : [Counters -> Int]]
  /\ shown # Nothing =>
       shown.count = mem /\ \A n \in {"bytes", "packets"} : mem[n] = real.count[n]

(* Whatever came between two passes.                                        *)
LEMMA PortPanelStep == ASSUME PortPanelInv, kind = "ps2", PortPanel PROVE PortPanelInv' /\ kind' = kind
<1>1. CASE OpenPortPanel BY <1>1 DEF OpenPortPanel, Unshown, PortPanelInv
<1>2. ASSUME NEW leave \in BOOLEAN, NEW came \in SUBSET Counters, PassPortPanel(leave, came)
      PROVE  PortPanelInv' /\ kind' = kind
  <2> DEFINE count == [n \in Counters |-> IF n \in came THEN real.count[n] + 1 ELSE real.count[n]]
  <2>1. real' = [real EXCEPT !.count = count] /\ kind' = kind BY <1>2 DEF PassPortPanel, Passes
  <2>2. count \in [Counters -> Int] BY DEF PortPanelInv
  <2> HIDE DEF count
  <2>3. real' \in [count : [Counters -> Int]] BY <2>1, <2>2 DEF PortPanelInv
  <2>4. CASE \E n \in {"bytes", "packets"} : real'.count[n] # mem[n]
    <3>1. mem' = real'.count /\ shown' = [says |-> "ports", count |-> real'.count]
      BY <1>2, <2>4 DEF PassPortPanel
    <3> QED BY <2>1, <2>3, <3>1 DEF PortPanelInv
  <2>5. CASE ~\E n \in {"bytes", "packets"} : real'.count[n] # mem[n]
    <3>1. mem' = mem /\ shown' = shown BY <1>2, <2>5 DEF PassPortPanel
    <3> QED BY <2>1, <2>3, <2>5, <3>1 DEF PortPanelInv
  <2> QED BY <2>4, <2>5
<1> QED BY <1>1, <1>2 DEF PortPanel

---------------------------------------------------------------------------
(* What is no larger fits at least once.                                    *)
LEMMA WholeOnes ==
  ASSUME NEW x \in Nat, NEW h \in Nat \ {0}, x >= h
  PROVE  x \div h \in Nat /\ x \div h >= 1
<1> DEFINE q == x \div h
<1>1. q \in Int /\ x < h * (q + 1) OBVIOUS
<1> HIDE DEF q
<1>2. ASSUME q <= 0 PROVE FALSE
  <2>1. h * (q + 1) <= h BY <1>1, <1>2
  <2> QED BY <1>1, <2>1
<1> QED BY <1>1, <1>2 DEF q

(* The tape: each signal is a half pulse of its own range, and a window of  *)
(* 25 ms that opens anywhere in the first 10 sees two edges of any.         *)
LEMMA HalfPulses ==
  ASSUME NEW signal \in Signals
  PROVE  /\ signal.of \in {"pilot", "data", "hum", "none"}
         /\ signal.of = "pilot" => HalfPulse(signal) \in PilotMin..4000
         /\ signal.of = "data" => HalfPulse(signal) \in 1..(PilotMin - 1)
         /\ signal.of = "hum" => HalfPulse(signal) = 10000
<1>1. /\ signal.of = "pilot" => HalfPulse(signal) = (619 * 100) \div signal.speed
      /\ signal.of = "data" =>
           HalfPulse(signal) = Mixed(signal.ones) \div signal.speed
      /\ signal.of = "hum" => HalfPulse(signal) = 10000
  <2>1. CASE signal.of = "pilot" BY <2>1 DEF HalfPulse
  <2>2. CASE signal.of = "data" BY <2>2 DEF HalfPulse
  <2>3. CASE signal.of = "hum" BY <2>3 DEF HalfPulse
  <2> QED BY <2>1, <2>2, <2>3
<1>2. \/ signal.of = "pilot" /\ signal.speed \in Speeds
      \/ signal.of = "data" /\ signal.speed \in Speeds /\ signal.ones \in 0..4
      \/ signal.of \in {"hum", "none"}
  BY DEF Signals
<1>3. PilotMin = 554 BY DEF PilotMin
<1>4. CASE signal.of = "pilot" /\ signal.speed \in Speeds
  <2>1. HalfPulse(signal) \in {687, 651, 619, 589, 562} BY <1>1, <1>4 DEF Speeds
  <2> QED BY <1>3, <1>4, <2>1
<1>5. CASE signal.of = "data" /\ signal.speed \in Speeds /\ signal.ones \in 0..4
  <2>1. Mixed(signal.ones) \in {24400, 30525, 36650, 42775, 48900}
    BY <1>5 DEF Mixed
  <2>2. \A w \in {24400, 30525, 36650, 42775, 48900}, v \in Speeds : w \div v \in 1..553
    <3>1. \A w \in {24400, 30525, 36650, 42775, 48900} :
            w \div 90 \in 1..553 /\ w \div 95 \in 1..553 /\ w \div 100 \in 1..553
      OBVIOUS
    <3>2. \A w \in {24400, 30525, 36650, 42775, 48900} : w \div 105 \in 1..553 /\ w \div 110 \in 1..553
      OBVIOUS
    <3> QED BY <3>1, <3>2 DEF Speeds
  <2> QED BY <1>1, <1>3, <1>5, <2>1, <2>2
<1> QED BY <1>1, <1>2, <1>4, <1>5

(* A picture says which, and its band is of the kind it says.               *)
TapePanelInv ==
  /\ DOMAIN real = {"plays"}
  /\ TapeIsTold

(* Pass after pass, whatever is played.                                     *)
LEMMA TapePanelStep == ASSUME TapePanelInv, kind = "tape", TapePanel PROVE TapePanelInv' /\ kind' = kind
<1>1. CASE OpenTapePanel BY <1>1 DEF OpenTapePanel, Unshown, TapePanelInv, TapeIsTold
<1>2. ASSUME NEW leave \in BOOLEAN, NEW signal \in Signals, NEW offset \in {0, 100, 5000, 9999},
             PassTapePanel(leave, signal, offset)
      PROVE  TapePanelInv' /\ kind' = kind
  <2> DEFINE edges == Edges(signal, offset)
             mean == MeanUs(signal, edges)
             half == HalfPulse(signal)
  <2>1. /\ kind' = kind /\ real' = [real EXCEPT !.plays = signal]
        /\ mem' = [band |-> Band(mean, mem.band)]
        /\ shown' = [says |-> "tape", of |-> Classified(edges, mean), band |-> mem'.band]
    BY <1>2 DEF PassTapePanel, Passes
  <2>2. real'.plays = signal /\ DOMAIN real' = {"plays"} BY <2>1 DEF TapePanelInv
  <2>3. shown'.of = Classified(edges, mean) /\ shown'.band = Band(mean, mem.band) BY <2>1
  <2>4. PilotMin = 554 BY DEF PilotMin
  <2>5. CASE signal.of = "none"
    <3>1. edges = 0 BY <2>5 DEF Edges
    <3>2. shown'.of = "silent" BY <2>3, <3>1 DEF Classified
    <3> QED BY <2>1, <2>2, <2>5, <3>2 DEF TapePanelInv, TapeIsTold
  <2>6. CASE signal.of # "none"
    <3>1. half \in 1..10000 BY <2>4, <2>6, HalfPulses
    <3>2. edges = (24999 - offset) \div half + 1 BY <2>6 DEF Edges, WindowUs
    <3> DEFINE room == 24999 - offset
    <3>3. room \in 15000..24999 OBVIOUS
    <3> HIDE DEF half
    <3>4. edges >= 2 /\ edges \in Nat
      <4> HIDE DEF room
      <4>1. room \in Nat /\ half \in Nat \ {0} /\ room >= half BY ONLY <3>1, <3>3
      <4>2. PICK q \in Nat : q = room \div half /\ q >= 1 BY <4>1, WholeOnes
      <4>3. edges = q + 1 BY ONLY <3>2, <4>2 DEF room
      <4> HIDE DEF edges
      <4> QED BY <4>2, <4>3
    <3> HIDE DEF edges
    <3>5. mean = half BY <3>4 DEF MeanUs, half
    <3>6. CASE signal.of = "pilot"
      <4>1. half \in 554..4000 BY <2>4, <3>6, HalfPulses DEF half
      <4>2. shown'.of = "pilot" /\ shown'.band = "thick"
        BY <2>3, <2>4, <3>4, <3>5, <4>1 DEF Classified, Band, SlowestUs
      <4> QED BY <2>1, <2>2, <3>6, <4>2 DEF TapePanelInv, TapeIsTold
    <3>7. CASE signal.of = "data"
      <4>1. half \in 1..553 BY <2>4, <3>7, HalfPulses DEF half
      <4>2. shown'.of = "data" /\ shown'.band = "thin"
        BY <2>3, <2>4, <3>4, <3>5, <4>1 DEF Classified, Band, SlowestUs
      <4> QED BY <2>1, <2>2, <3>7, <4>2 DEF TapePanelInv, TapeIsTold
    <3>8. CASE signal.of = "hum"
      <4>1. half = 10000 BY <3>8, HalfPulses DEF half
      <4>2. shown'.of = "noise" BY <2>3, <3>4, <3>5, <4>1 DEF Classified, SlowestUs
      <4> QED BY <2>1, <2>2, <3>8, <4>2 DEF TapePanelInv, TapeIsTold
    <3> QED BY <2>6, <3>6, <3>7, <3>8, HalfPulses
  <2> QED BY <2>5, <2>6
<1> QED BY <1>1, <1>2 DEF TapePanel
---------------------------------------------------------------------------
(* The LEDs.  The plain one is on after an odd number of transitions, and   *)
(* off while the other fades; that one's level is a multiple of 16 going    *)
(* up, and one short of it going down, so that the last step down is dark.  *)
LedMemory ==
  [fading : BOOLEAN, on : BOOLEAN, blinks : 0..6, hue : 0..2, level : 0..255, rising : BOOLEAN]
LedPanelInv ==
  /\ real \in [leds : (SUBSET {"plain", "rgb"}) \ {{}}, plain : BOOLEAN, rgb : [hue : 0..2, drive : Nat]]
  /\ up =>
       /\ mem \in LedMemory
       /\ ~mem.fading => "plain" \in Fitted /\ mem.blinks \in 0..5 /\ (mem.on <=> mem.blinks \in {1, 3, 5})
       /\ mem.fading => "rgb" \in Fitted /\ ~mem.on
       /\ mem.level \in IF mem.rising THEN {n \in 0..240 : n % 16 = 0} ELSE {n \in 15..255 : n % 16 = 15}
       /\ real.plain = (~mem.fading /\ mem.on)
       /\ real.rgb.drive # 0 => mem.fading /\ real.rgb.hue = mem.hue
       /\ shown # Nothing => shown = LedPicture(mem)
  /\ ~up => ~real.plain /\ real.rgb.drive = 0

(* A transition of the plain LED.                                           *)
LEMMA BlinkIsShown ==
  ASSUME LedPanelInv, up, up' = up, ~mem.fading, BlinkOnce, shown' = LedPicture(mem)'
  PROVE  LedPanelInv'
<1> USE DEF LedPanelInv
<1> DEFINE ends == mem.blinks + 1 = 6
<1>1. mem \in LedMemory /\ "plain" \in Fitted /\ mem.blinks \in 0..5 /\ real.rgb.drive = 0 OBVIOUS
<1>2. real' = [real EXCEPT !.plain = ~mem.on /\ ~ends] BY DEF BlinkOnce
<1>3. mem' = [mem EXCEPT !.on = ~@, !.fading = ends /\ "rgb" \in Fitted,
                         !.blinks = IF ends /\ "rgb" \notin Fitted THEN 0 ELSE @ + 1]
  BY DEF BlinkOnce
<1>4. /\ real'.leds = real.leds /\ real'.rgb = real.rgb /\ real'.plain = (~mem.on /\ ~ends)
      /\ real' \in [leds : (SUBSET {"plain", "rgb"}) \ {{}}, plain : BOOLEAN, rgb : [hue : 0..2, drive : Nat]]
  BY ZenonT(40), <1>2
<1>5. /\ mem'.on = ~mem.on /\ mem'.fading = (ends /\ "rgb" \in Fitted)
      /\ mem'.blinks = IF ends /\ "rgb" \notin Fitted THEN 0 ELSE mem.blinks + 1
      /\ mem'.hue = mem.hue /\ mem'.level = mem.level /\ mem'.rising = mem.rising
  BY <1>1, <1>3 DEF LedMemory
<1>6. mem' \in LedMemory
  <2> DEFINE on == ~mem.on
             fading == ends /\ "rgb" \in Fitted
             blinks == IF ends /\ "rgb" \notin Fitted THEN 0 ELSE mem.blinks + 1
  <2>1. on \in BOOLEAN /\ fading \in BOOLEAN OBVIOUS
  <2>2. blinks \in 0..6 BY <1>1
  <2>3. mem' = [mem EXCEPT !.on = on, !.fading = fading, !.blinks = blinks] BY <1>3
  <2> HIDE DEF on, fading, blinks
  <2>4. mem \in [fading : BOOLEAN, on : BOOLEAN, blinks : 0..6, hue : 0..2, level : 0..255, rising : BOOLEAN]
    BY <1>1 DEF LedMemory
  <2>5. mem' = [fading |-> fading, on |-> on, blinks |-> blinks, hue |-> mem.hue, level |-> mem.level,
                rising |-> mem.rising]
    BY ONLY <2>3, <2>4
  <2>6. mem.hue \in 0..2 /\ mem.level \in 0..255 /\ mem.rising \in BOOLEAN BY ONLY <2>4
  <2> QED BY ONLY <2>1, <2>2, <2>5, <2>6 DEF LedMemory
<1>7. Fitted' = Fitted BY <1>4 DEF Fitted
<1>8. ends => mem.on BY <1>1
<1> QED BY <1>1, <1>4, <1>5, <1>6, <1>7, <1>8

(* The levels a fade goes through.                                          *)
LEMMA Levels ==
  /\ \A n \in 0..240 : n % 16 = 0 /\ n < 239 => n + 16 \in 0..240 /\ (n + 16) % 16 = 0
  /\ \A n \in 15..255 : n % 16 = 15 /\ n <= 16 => n = 15
  /\ \A n \in 15..255 : n % 16 = 15 /\ n > 16 => n - 16 \in 15..255 /\ (n - 16) % 16 = 15
  /\ 255 % 16 = 15 /\ 0 % 16 = 0
<1>1. \A n \in 0..240 : n % 16 = 0 /\ n < 239 => n + 16 \in 0..240 /\ (n + 16) % 16 = 0 OBVIOUS
<1>2. \A n \in 15..255 : n % 16 = 15 /\ n <= 16 => n = 15 OBVIOUS
<1>3. \A n \in 15..255 : n % 16 = 15 /\ n > 16 => n - 16 \in 15..255 /\ (n - 16) % 16 = 15 OBVIOUS
<1>4. 255 % 16 = 15 /\ 0 % 16 = 0 OBVIOUS
<1> QED BY ONLY <1>1, <1>2, <1>3, <1>4

(* A step of the other's fade.                                              *)
LEMMA FadeIsShown ==
  ASSUME LedPanelInv, up, up' = up, mem.fading, FadeOnce, shown' = LedPicture(mem)'
  PROVE  LedPanelInv'
<1> USE DEF LedPanelInv
<1> DEFINE round == mem.hue = 2 /\ "plain" \in Fitted
<1>1. mem \in LedMemory /\ "rgb" \in Fitted /\ ~mem.on /\ ~real.plain OBVIOUS
<1>2. real' = [real EXCEPT !.rgb = [hue |-> mem.hue, drive |-> FadeCurve(mem.level)]] BY DEF FadeOnce
<1>3. FadeCurve(mem.level) \in Nat /\ (mem.level = 15 => FadeCurve(mem.level) = 0)
  <2>1. mem.level \in 0..255 BY <1>1 DEF LedMemory
  <2>2. \A n \in 0..255 : n * n \in Nat /\ (n = 15 => n * n = 225) OBVIOUS
  <2>3. \A n \in Nat : n \div 255 \in Nat /\ (n = 225 => n \div 255 = 0) OBVIOUS
  <2> QED BY <2>1, <2>2, <2>3 DEF FadeCurve, Top
<1>4. /\ real'.leds = real.leds /\ real'.plain = FALSE
      /\ real'.rgb.hue = mem.hue /\ real'.rgb.drive = FadeCurve(mem.level)
      /\ real' \in [leds : (SUBSET {"plain", "rgb"}) \ {{}}, plain : BOOLEAN, rgb : [hue : 0..2, drive : Nat]]
  <2> DEFINE rgb == [hue |-> mem.hue, drive |-> FadeCurve(mem.level)]
  <2>1. rgb \in [hue : 0..2, drive : Nat] /\ rgb.hue = mem.hue /\ rgb.drive = FadeCurve(mem.level)
    BY <1>1, <1>3 DEF LedMemory
  <2>2. real' = [real EXCEPT !.rgb = rgb] BY <1>2
  <2> HIDE DEF rgb
  <2>3. real'.rgb = rgb BY <2>2
  <2> QED BY <1>1, <2>1, <2>2, <2>3
<1>5. Fitted' = Fitted BY <1>4 DEF Fitted
<1>6. CASE mem.rising /\ mem.level >= Top - 16
  <2>1. mem' = [mem EXCEPT !.level = Top, !.rising = FALSE] BY <1>6 DEF FadeOnce
  <2>2. mem' \in LedMemory /\ mem'.level = 255 /\ mem'.rising = FALSE
    <3>1. mem' = [mem EXCEPT !.level = 255, !.rising = FALSE] BY <2>1 DEF Top
    <3>2. mem' = [fading |-> mem.fading, on |-> mem.on, blinks |-> mem.blinks, hue |-> mem.hue,
                  level |-> 255, rising |-> FALSE]
      BY ONLY <1>1, <3>1 DEF LedMemory
    <3> QED BY ONLY <1>1, <3>2 DEF LedMemory
  <2>3. mem'.fading = mem.fading /\ mem'.on = mem.on /\ mem'.hue = mem.hue BY <1>1, <2>1 DEF LedMemory
  <2>4. 255 \in {n \in 15..255 : n % 16 = 15} BY Levels
  <2> QED BY <1>1, <1>4, <1>5, <2>2, <2>3, <2>4
<1>7. CASE mem.rising /\ ~(mem.level >= Top - 16)
  <2>1. mem' = [mem EXCEPT !.level = @ + 16] BY <1>7 DEF FadeOnce
  <2>2. mem.level \in 0..240 /\ mem.level % 16 = 0 /\ mem.level < 239 BY <1>1, <1>7 DEF Top, LedMemory
  <2>3. mem.level + 16 \in {n \in 0..240 : n % 16 = 0} BY <2>2, Levels
  <2>4. mem' \in LedMemory /\ mem'.level = mem.level + 16 BY <1>1, <2>1, <2>2 DEF LedMemory
  <2>5. mem'.fading = mem.fading /\ mem'.on = mem.on /\ mem'.hue = mem.hue /\ mem'.rising = mem.rising
    BY <1>1, <2>1 DEF LedMemory
  <2> QED BY <1>1, <1>4, <1>5, <1>7, <2>3, <2>4, <2>5
<1>8. CASE ~mem.rising /\ mem.level <= 16
  <2>1. mem.level = 15 BY <1>1, <1>8, Levels
  <2>2. mem' = [mem EXCEPT !.level = 0, !.rising = TRUE, !.hue = (@ + 1) % 3,
                           !.fading = ~round, !.blinks = IF round THEN 0 ELSE @]
    BY <1>8 DEF FadeOnce
  <2> DEFINE fading == ~round
             blinks == IF round THEN 0 ELSE mem.blinks
             hue == (mem.hue + 1) % 3
  <2>3. fading \in BOOLEAN /\ blinks \in 0..6 /\ hue \in 0..2 BY <1>1 DEF LedMemory
  <2>4. mem' = [mem EXCEPT !.level = 0, !.rising = TRUE, !.hue = hue, !.fading = fading, !.blinks = blinks]
    BY <2>2
  <2>5. ~fading => blinks = 0 /\ "plain" \in Fitted OBVIOUS
  <2> HIDE DEF fading, blinks, hue, round
  <2>6. mem \in [fading : BOOLEAN, on : BOOLEAN, blinks : 0..6, hue : 0..2, level : 0..255, rising : BOOLEAN]
    BY <1>1 DEF LedMemory
  <2>7. mem' \in LedMemory
    <3>1. mem' = [fading |-> fading, on |-> mem.on, blinks |-> blinks, hue |-> hue, level |-> 0, rising |-> TRUE]
      BY ONLY <2>4, <2>6
    <3> QED BY ONLY <2>3, <2>6, <3>1 DEF LedMemory
  <2>8. /\ mem'.level = 0 /\ mem'.rising = TRUE /\ mem'.fading = fading /\ mem'.on = mem.on
        /\ mem'.blinks = blinks
    BY ONLY <2>4, <2>6
  <2>9. 0 \in {n \in 0..240 : n % 16 = 0} BY Levels
  <2>10. real'.rgb.drive = 0 BY <1>3, <1>4, <2>1
  <2> QED BY <1>1, <1>4, <1>5, <2>5, <2>7, <2>8, <2>9, <2>10
<1>9. CASE ~mem.rising /\ ~(mem.level <= 16)
  <2>1. mem' = [mem EXCEPT !.level = @ - 16] BY <1>9 DEF FadeOnce
  <2>2. mem.level \in 15..255 /\ mem.level % 16 = 15 /\ mem.level > 16 BY <1>1, <1>9 DEF LedMemory
  <2>3. mem.level - 16 \in {n \in 15..255 : n % 16 = 15} BY <2>2, Levels
  <2>4. mem' \in LedMemory /\ mem'.level = mem.level - 16 BY <1>1, <2>1, <2>2 DEF LedMemory
  <2>5. mem'.fading = mem.fading /\ mem'.on = mem.on /\ mem'.hue = mem.hue /\ mem'.rising = mem.rising
    BY <1>1, <2>1 DEF LedMemory
  <2> QED BY <1>1, <1>4, <1>5, <1>9, <2>3, <2>4, <2>5
<1> QED BY <1>1, <1>6, <1>7, <1>8, <1>9 DEF LedMemory

(* Opened, stepped and left in any order.                                   *)
LEMMA LedPanelStep == ASSUME LedPanelInv, kind = "led", LedPanel PROVE LedPanelInv' /\ kind' = kind
<1>1. CASE OpenLedPanel
  <2>1. /\ ~up /\ up' = TRUE /\ mem' = LedStart /\ shown' = Nothing /\ kind' = kind
        /\ real' = [real EXCEPT !.plain = @ /\ "plain" \notin Fitted]
    BY <1>1 DEF OpenLedPanel, Opens, Unshown
  <2>2. real' = real BY <2>1 DEF LedPanelInv
  <2>3. Fitted' = Fitted /\ ("plain" \notin Fitted => "rgb" \in Fitted) BY <2>2 DEF Fitted, LedPanelInv
  <2>4. LedStart \in LedMemory BY DEF LedStart, LedMemory
  <2>5. 0 \in {n \in 0..240 : n % 16 = 0} BY Levels
  <2>6. /\ mem'.fading = ("plain" \notin Fitted) /\ mem'.on = FALSE /\ mem'.blinks = 0
        /\ mem'.level = 0 /\ mem'.rising = TRUE
    BY <2>1 DEF LedStart
  <2>7. ~real.plain /\ real.rgb.drive = 0 BY <2>1 DEF LedPanelInv
  <2>8. mem' \in LedMemory BY <2>1, <2>4
  <2>9. real'.plain = FALSE /\ real'.rgb.drive = 0 BY <2>2, <2>7 DEF LedPanelInv
  <2>10. CASE "plain" \in Fitted
    <3>1. mem'.fading = FALSE BY <2>6, <2>10
    <3> QED BY <2>1, <2>2, <2>3, <2>5, <2>6, <2>8, <2>9, <2>10, <3>1 DEF LedPanelInv
  <2>11. CASE "plain" \notin Fitted
    <3>1. mem'.fading = TRUE BY <2>6, <2>11
    <3> QED BY <2>1, <2>2, <2>3, <2>5, <2>6, <2>8, <2>9, <2>11, <3>1 DEF LedPanelInv
  <2> QED BY <2>10, <2>11
<1>2. CASE StepLedPanel
  <2>1. up /\ up' = up /\ kind' = kind /\ shown' = LedPicture(mem)'
    BY <1>2 DEF StepLedPanel, Passes, LedPicture
  <2>2. CASE mem.fading BY <1>2, <2>1, <2>2, FadeIsShown DEF StepLedPanel
  <2>3. CASE ~mem.fading BY <1>2, <2>1, <2>3, BlinkIsShown DEF StepLedPanel
  <2> QED BY <2>1, <2>2, <2>3
<1>3. CASE LeaveLedPanel
  <2>1. /\ up /\ up' = FALSE /\ kind' = kind
        /\ real' = [real EXCEPT !.plain = @ /\ "plain" \notin Fitted,
                                !.rgb = IF "rgb" \in Fitted THEN [hue |-> 0, drive |-> 0] ELSE @]
    BY <1>3 DEF LeaveLedPanel, Passes
  <2>2. real.plain => "plain" \in Fitted BY <2>1 DEF LedPanelInv
  <2>3. real.rgb.drive # 0 => "rgb" \in Fitted BY <2>1 DEF LedPanelInv
  <2>4. [hue |-> 0, drive |-> 0] \in [hue : 0..2, drive : Nat] OBVIOUS
  <2> DEFINE plain == real.plain /\ "plain" \notin Fitted
             rgb == IF "rgb" \in Fitted THEN [hue |-> 0, drive |-> 0] ELSE real.rgb
  <2>5. plain = FALSE /\ rgb.drive = 0 BY <2>2, <2>3
  <2>6. rgb \in [hue : 0..2, drive : Nat] BY <2>4 DEF LedPanelInv
  <2>7. real' = [real EXCEPT !.plain = plain, !.rgb = rgb] BY <2>1
  <2> HIDE DEF plain, rgb
  <2> QED BY ZenonT(40), <2>1, <2>5, <2>6, <2>7 DEF LedPanelInv
<1> QED BY <1>1, <1>2, <1>3 DEF LedPanel

(* "driven high" is high, and a hue that is named is the one that is lit.   *)
LEMMA LedPanelTells == ASSUME LedPanelInv PROVE LedsAreShown
BY DEF LedPanelInv, LedsAreShown, LedPicture, LedMemory
---------------------------------------------------------------------------
(* The clocks.  What is in force is on offer, and the regulator is not at   *)
(* "left alone"; until a value is turned the panel is at what is in force.  *)
InOffer(v) == \A f \in Fields : \E i \in 1..Len(Offered[f]) : v[f] = Offered[f][i]
Settings == {v \in [Fields -> Nat] : InOffer(v) /\ v["vreg"] # 0}
Selections == {s \in [Fields -> Nat] : \A f \in Fields : s[f] \in 1..Len(Offered[f])}
ClockPanelInv ==
  /\ DOMAIN real = {"live", "before", "moved"} /\ real.live \in Settings
  /\ up \/ mem # Nothing => (mem.moves = 0 => real.live = real.before)
  /\ up =>
       /\ mem \in [sel : Selections, row : 1..4, moves : Nat]
       /\ mem.moves = 0 => mem.sel = Selected(real.live)
       /\ shown.values = Valued(mem.sel)

(* What the tables are.                                                     *)
LEMMA Tables ==
  /\ Fields = {"cpu", "vreg", "psram", "flash"}
  /\ Offered["cpu"] = CPU /\ Offered["vreg"] = VREG /\ Offered["psram"] = PSRAM /\ Offered["flash"] = FLASH
  /\ Len(CPU) = 12 /\ Len(VREG) = 11 /\ Len(PSRAM) = 6 /\ Len(FLASH) = 4
  /\ \A f \in Fields : \A i \in 1..Len(Offered[f]) : Offered[f][i] \in Nat
BY DEF Fields, Offered, CPU, VREG, PSRAM, FLASH

(* A value of a table that rises is found again at its place.               *)
LEMMA Found ==
  ASSUME NEW arr, NEW n \in Nat, DOMAIN arr = 1..n, \A i \in 1..n : arr[i] \in Nat,
         \A i, j \in 1..n : i < j => arr[i] < arr[j], NEW k \in 1..n
  PROVE  IndexOf(arr, arr[k]) = k /\ IndexOf8(arr, arr[k]) = k
<1>1. \A i \in 1..n : arr[i] <= arr[k] <=> i <= k OBVIOUS
<1>2. \A i \in 1..n : arr[i] = arr[k] <=> i = k OBVIOUS
<1>3. {1} \cup {i \in DOMAIN arr : arr[i] <= arr[k]} = 1..k BY <1>1
<1>4. Max(1..k) = k
  <2>1. k \in 1..k /\ \A y \in 1..k : k >= y OBVIOUS
  <2>2. \A x \in 1..k : (\A y \in 1..k : x >= y) => x = k OBVIOUS
  <2> QED BY <2>1, <2>2 DEF Max
<1>5. {i \in DOMAIN arr : arr[i] = arr[k]} = {k} BY <1>2
<1>6. Min({k}) = k BY DEF Min
<1>7. arr[k] \in ToSet(arr) BY DEF ToSet
<1> QED BY <1>3, <1>4, <1>5, <1>6, <1>7 DEF IndexOf, IndexOf8

(* The panel opens on a selection that says what is in force.               *)
LEMMA OpensOnForce ==
  ASSUME NEW v \in Settings
  PROVE  Selected(v) \in Selections /\ Valued(Selected(v)) = v
<1> USE Tables
<1>1. /\ \A i, j \in 1..12 : i < j => CPU[i] < CPU[j]
      /\ DOMAIN CPU = 1..12 /\ \A i \in 1..12 : CPU[i] \in Nat
  BY DEF CPU
<1>2. /\ \A i, j \in 1..11 : i < j => VREG[i] < VREG[j]
      /\ DOMAIN VREG = 1..11 /\ \A i \in 1..11 : VREG[i] \in Nat
  BY DEF VREG
<1>3. /\ \A i, j \in 1..6 : i < j => PSRAM[i] < PSRAM[j]
      /\ DOMAIN PSRAM = 1..6 /\ \A i \in 1..6 : PSRAM[i] \in Nat
  BY DEF PSRAM
<1>4. /\ \A i, j \in 1..4 : i < j => FLASH[i] < FLASH[j]
      /\ DOMAIN FLASH = 1..4 /\ \A i \in 1..4 : FLASH[i] \in Nat
  BY DEF FLASH
<1>5. ASSUME NEW f \in Fields
      PROVE  Selected(v)[f] \in 1..Len(Offered[f]) /\ Offered[f][Selected(v)[f]] = v[f]
  <2>1. PICK k \in 1..Len(Offered[f]) : v[f] = Offered[f][k] BY DEF Settings, InOffer
  <2>2. Selected(v)[f] = k
    <3>1. CASE f = "cpu"
      <4>1. IndexOf(CPU, CPU[k]) = k BY <1>1, <2>1, <3>1, Found
      <4>2. Selected(v)[f] = IndexOf(CPU, v["cpu"]) BY <3>1 DEF Selected
      <4> QED BY <2>1, <3>1, <4>1, <4>2
    <3>2. CASE f = "vreg"
      <4>1. IndexOf8(VREG, VREG[k]) = k BY <1>2, <2>1, <3>2, Found
      <4>2. Selected(v)[f] = IndexOf8(VREG, v[f]) BY <3>2 DEF Selected
      <4> QED BY <2>1, <3>2, <4>1, <4>2
    <3>3. CASE f = "psram"
      <4>1. IndexOf8(PSRAM, PSRAM[k]) = k BY <1>3, <2>1, <3>3, Found
      <4>2. Selected(v)[f] = IndexOf8(PSRAM, v[f]) BY <3>3 DEF Selected
      <4> QED BY <2>1, <3>3, <4>1, <4>2
    <3>4. CASE f = "flash"
      <4>1. IndexOf8(FLASH, FLASH[k]) = k BY <1>4, <2>1, <3>4, Found
      <4>2. Selected(v)[f] = IndexOf8(FLASH, v[f]) BY <3>4 DEF Selected
      <4> QED BY <2>1, <3>4, <4>1, <4>2
    <3> QED BY <3>1, <3>2, <3>3, <3>4
  <2> QED BY <2>1, <2>2
<1> HIDE Tables
<1>6. Selected(v) \in [Fields -> Nat]
  <2>1. \A f \in Fields : Selected(v)[f] \in Nat
    <3> SUFFICES ASSUME NEW f \in Fields PROVE Selected(v)[f] \in Nat OBVIOUS
    <3>1. Len(Offered[f]) \in Nat BY Tables
    <3> QED BY <1>5, <3>1
  <2>2. DOMAIN Selected(v) = Fields /\ Selected(v) = [f \in Fields |-> Selected(v)[f]] BY DEF Selected
  <2> QED BY <2>1, <2>2
<1>7. Valued(Selected(v)) = v
  <2>1. v = [f \in Fields |-> v[f]] BY DEF Settings
  <2>2. \A f \in Fields : Offered[f][Selected(v)[f]] = v[f] BY <1>5
  <2>3. Valued(Selected(v)) = [f \in Fields |-> Offered[f][Selected(v)[f]]] BY DEF Valued
  <2> QED BY <2>1, <2>2, <2>3
<1> QED BY <1>5, <1>6, <1>7 DEF Selections
(* One key keeps row and values on the table, and counts what it turned.    *)
LEMMA TurnsAreCounted ==
  ASSUME NEW m \in [sel : Selections, row : 1..4, moves : Nat], NEW k
  PROVE  /\ Turned(m, k) \in [sel : Selections, row : 1..4, moves : Nat]
         /\ Turned(m, k).moves = 0 => m.moves = 0 /\ Turned(m, k).sel = m.sel
<1> DEFINE f == RowOf[m.row]
           Up == [m EXCEPT !.row = Max({1, @ - 1})]
           Down == [m EXCEPT !.row = Min({4, @ + 1})]
           Back == [m EXCEPT !.sel[f] = @ - 1, !.moves = @ + 1]
           Right == [m EXCEPT !.sel[f] = @ + 1, !.moves = @ + 1]
<1>1. \/ Turned(m, k) \in {Up, Down, m}
      \/ m.sel[f] > 1 /\ Turned(m, k) = Back
      \/ m.sel[f] < Len(Offered[f]) /\ Turned(m, k) = Right
  BY Zenon DEF Turned
<1>2. f \in Fields BY DEF RowOf, Fields
<1>3. m.sel \in [Fields -> Nat] /\ m.sel[f] \in 1..Len(Offered[f]) BY <1>2 DEF Selections
<1>4. Len(Offered[f]) \in Nat BY <1>2, Tables
<1> HIDE DEF f
<1>5. CASE Turned(m, k) = Up
  <2>1. Max({1, m.row - 1}) \in 1..4
    <3>1. CASE m.row = 1
      <4>1. {1, m.row - 1} = {0, 1} BY <3>1
      <4>2. Max({0, 1}) = 1 BY DEF Max
      <4> QED BY <4>1, <4>2
    <3>2. CASE m.row > 1
      <4>1. \E x \in {1, m.row - 1} : \A y \in {1, m.row - 1} : x >= y
        <5>1. \A y \in {1, m.row - 1} : m.row - 1 >= y BY <3>2
        <5> QED BY <5>1
      <4>2. Max({1, m.row - 1}) \in {1, m.row - 1} BY <4>1, Zenon DEF Max
      <4> QED BY <3>2, <4>2
    <3> QED BY <3>1, <3>2
  <2> QED BY <1>5, <2>1
<1>6. CASE Turned(m, k) = Down
  <2>1. Min({4, m.row + 1}) \in 1..4
    <3>1. CASE m.row = 4
      <4>1. {4, m.row + 1} = {4, 5} BY <3>1
      <4>2. Min({4, 5}) = 4 BY DEF Min
      <4>3. Min({4, m.row + 1}) = 4 BY ONLY <4>1, <4>2, Zenon
      <4> QED BY ONLY <4>3
    <3>2. CASE m.row < 4
      <4>1. \A y \in {4, m.row + 1} : m.row + 1 <= y BY <3>2
      <4>2. Min({4, m.row + 1}) \in {4, m.row + 1} BY <4>1, Zenon DEF Min
      <4>3. m.row \in 1..3 BY <3>2
      <4> QED BY ONLY <4>2, <4>3
    <3> QED BY <3>1, <3>2
  <2> QED BY <1>6, <2>1
<1>7. CASE Turned(m, k) = m BY <1>7
<1>8. CASE m.sel[f] > 1 /\ Turned(m, k) = Back
  <2> DEFINE chosen == [m.sel EXCEPT ![f] = @ - 1]
  <2>1. chosen \in [Fields -> Nat] BY <1>2, <1>3, <1>8
  <2>2. \A g \in Fields : chosen[g] \in 1..Len(Offered[g]) BY <1>2, <1>3, <1>4, <1>8 DEF Selections
  <2>3. chosen \in Selections BY <2>1, <2>2 DEF Selections
  <2>4. Back = [m EXCEPT !.sel = chosen, !.moves = m.moves + 1] OBVIOUS
  <2>5. m.moves + 1 \in Nat /\ m.moves + 1 # 0 OBVIOUS
  <2> HIDE DEF chosen, Back
  <2>6. Back \in [sel : Selections, row : 1..4, moves : Nat] /\ Back.moves = m.moves + 1
    BY <2>3, <2>4, <2>5
  <2> QED BY <1>8, <2>5, <2>6
<1>9. CASE m.sel[f] < Len(Offered[f]) /\ Turned(m, k) = Right
  <2> DEFINE chosen == [m.sel EXCEPT ![f] = @ + 1]
  <2>1. chosen \in [Fields -> Nat] BY <1>2, <1>3, <1>9
  <2>2. \A g \in Fields : chosen[g] \in 1..Len(Offered[g]) BY <1>2, <1>3, <1>4, <1>9 DEF Selections
  <2>3. chosen \in Selections BY <2>1, <2>2 DEF Selections
  <2>4. Right = [m EXCEPT !.sel = chosen, !.moves = m.moves + 1] OBVIOUS
  <2>5. m.moves + 1 \in Nat /\ m.moves + 1 # 0 OBVIOUS
  <2> HIDE DEF chosen, Right
  <2>6. Right \in [sel : Selections, row : 1..4, moves : Nat] /\ Right.moves = m.moves + 1
    BY <2>3, <2>4, <2>5
  <2> QED BY <1>9, <2>5, <2>6
<1> QED BY <1>1, <1>5, <1>6, <1>7, <1>8, <1>9

(* And so does a batch.                                                     *)
LEMMA BatchesAreCounted ==
  ASSUME mem \in [sel : Selections, row : 1..4, moves : Nat], NEW keys \in ClockKeys
  PROVE  /\ Applied(keys) \in [sel : Selections, row : 1..4, moves : Nat]
         /\ Applied(keys).moves = 0 => mem.moves = 0 /\ Applied(keys).sel = mem.sel
<1>1. CASE keys = <<>> BY <1>1 DEF Applied
<1>2. CASE keys # <<>>
  <2>1. Applied(keys) = Turned(mem, keys[1]) BY <1>2 DEF Applied
  <2> QED BY <2>1, TurnsAreCounted
<1> QED BY <1>1, <1>2

(* What is chosen can be in force.                                          *)
LEMMA ChosenIsASetting == ASSUME NEW s \in Selections PROVE InForce(Valued(s)) \in Settings
<1> DEFINE v == Valued(s)
           r == InForce(v)
<1>1. \A f \in Fields : v[f] = Offered[f][s[f]] /\ s[f] \in 1..Len(Offered[f]) BY DEF Valued, Selections
<1>2. \A f \in Fields : v[f] \in Nat BY <1>1, Tables
<1>3. "vreg" \in Fields BY Tables
<1>4. r = [v EXCEPT !["vreg"] = IF v["vreg"] = 0 THEN 11 ELSE v["vreg"]] BY DEF InForce
<1>5. DOMAIN v = Fields /\ v = [f \in Fields |-> v[f]] BY DEF Valued
<1> HIDE DEF v, r
<1>6. v \in [Fields -> Nat] BY <1>2, <1>5
<1>7. r \in [Fields -> Nat] BY <1>3, <1>4, <1>6
<1>8. r["vreg"] = (IF v["vreg"] = 0 THEN 11 ELSE v["vreg"]) /\ \A f \in Fields \ {"vreg"} : r[f] = v[f]
  BY <1>3, <1>4, <1>6
<1>9. Offered["vreg"][2] = 11 /\ 2 \in 1..Len(Offered["vreg"])
  <2>1. Offered["vreg"] = VREG /\ Len(VREG) = 11 BY Tables
  <2>2. VREG[2] = 11 BY DEF VREG
  <2> QED BY <2>1, <2>2
<1>10. InOffer(r)
  <2> SUFFICES ASSUME NEW f \in Fields PROVE \E i \in 1..Len(Offered[f]) : r[f] = Offered[f][i] BY DEF InOffer
  <2>1. CASE f = "vreg" /\ v["vreg"] = 0 BY <1>8, <1>9, <2>1
  <2>2. CASE ~(f = "vreg" /\ v["vreg"] = 0) BY <1>1, <1>8, <2>2
  <2> QED BY <2>1, <2>2
<1>11. r["vreg"] # 0 BY <1>8
<1> QED BY <1>7, <1>10, <1>11 DEF Settings, r, v

(* What is in force stays so when it is chosen.                             *)
LEMMA ForceKeeps == ASSUME NEW v \in Settings PROVE InForce(v) = v
<1>1. v \in [Fields -> Nat] /\ v["vreg"] # 0 BY DEF Settings
<1> QED BY <1>1 DEF InForce

(* Opened, turned, cancelled and applied in any order.                      *)
LEMMA ClockPanelStep == ASSUME ClockPanelInv, kind = "overclock", ClockPanel PROVE ClockPanelInv' /\ kind' = kind
<1> USE DEF ClockPanelInv
<1>1. CASE OpenClockPanel
  <2>1. /\ real' = [real EXCEPT !.before = real.live] /\ kind' = kind
        /\ mem' = [sel |-> Selected(real.live), row |-> 1, moves |-> 0]
        /\ shown' = [says |-> "clocks", values |-> Valued(mem'.sel), row |-> 1]
    BY <1>1 DEF OpenClockPanel
  <2>2. Selected(real.live) \in Selections BY OpensOnForce
  <2>3. mem' \in [sel : Selections, row : 1..4, moves : Nat] BY <2>1, <2>2
  <2>4. /\ real'.live = real.live /\ real'.before = real.live
        /\ DOMAIN real' = {"live", "before", "moved"}
    BY <2>1
  <2>5. mem'.sel = Selected(real.live) /\ shown'.values = Valued(mem'.sel) BY <2>1
  <2> QED BY <2>1, <2>3, <2>4, <2>5
<1>2. ASSUME NEW keys \in ClockKeys, NEW cancel \in BOOLEAN, PassClockPanel(keys, cancel)
      PROVE  ClockPanelInv' /\ kind' = kind
  <2>1. /\ up /\ real' = real /\ mem' = Applied(keys) /\ kind' = kind
        /\ shown' = IF mem' = mem THEN shown
                    ELSE [says |-> "clocks", values |-> Valued(mem'.sel), row |-> mem'.row]
    BY <1>2 DEF PassClockPanel, Passes
  <2>2. /\ mem' \in [sel : Selections, row : 1..4, moves : Nat]
        /\ mem'.moves = 0 => mem.moves = 0 /\ mem'.sel = mem.sel
    BY <2>1, BatchesAreCounted
  <2>3. shown'.values = Valued(mem'.sel) BY <2>1
  <2> QED BY <2>1, <2>2, <2>3
<1>3. ASSUME NEW keys \in ClockKeys, RestartClocks(keys) PROVE ClockPanelInv' /\ kind' = kind
  <2>1. /\ up /\ up' = FALSE /\ mem' = Applied(keys) /\ kind' = kind
        /\ real' = [real EXCEPT !.live = InForce(Valued(mem'.sel)), !.moved = @ + mem'.moves]
    BY <1>3 DEF RestartClocks, Passes
  <2>2. /\ mem'.sel \in Selections
        /\ mem'.moves = 0 => mem.moves = 0 /\ mem'.sel = mem.sel
    BY <2>1, BatchesAreCounted
  <2>3. /\ real'.live = InForce(Valued(mem'.sel)) /\ real'.before = real.before
        /\ DOMAIN real' = {"live", "before", "moved"}
    BY <2>1
  <2>4. real'.live \in Settings BY <2>2, <2>3, ChosenIsASetting
  <2>5. mem'.moves = 0 => real'.live = real.live BY <2>1, <2>2, <2>3, OpensOnForce, ForceKeeps
  <2> QED BY <2>1, <2>2, <2>3, <2>4, <2>5
<1> QED BY <1>1, <1>2, <1>3 DEF ClockPanel

(* Untouched, the panel says what is in force, and changes nothing.         *)
LEMMA ClockPanelTells == ASSUME ClockPanelInv PROVE ClocksAreHonest
<1> SUFFICES ASSUME mem # Nothing, mem.moves = 0
             PROVE  (up => shown.values = real.live) /\ real.live = real.before
  BY DEF ClocksAreHonest
<1> QED BY OpensOnForce DEF ClockPanelInv
---------------------------------------------------------------------------
(* All of them: a run is about one panel, and never of another.             *)
PanelsInv ==
  /\ kind = "nespad" => PadPanelInv
  /\ kind = "keys" => KeyPanelInv
  /\ kind = "led" => LedPanelInv
  /\ kind = "audio" => AudioPanelInv
  /\ kind = "tape" => TapePanelInv
  /\ kind = "overclock" => ClockPanelInv
  /\ kind = "ps2" => PortPanelInv

(* Nothing has been opened.                                                 *)
LEMMA PanelsStart == ASSUME Init PROVE PanelsInv
<1>1. PICK some \in {PanelKinds, {"keys"}} : PanelInit(some) BY DEF Init
<1>2. kind \in PanelKinds /\ up = FALSE /\ mem = Nothing /\ shown = Nothing
  BY <1>1 DEF PanelInit, PanelKinds
<1>3. CASE kind = "nespad"
  <2>1. PanelInit(PanelKinds) BY <1>1, <1>3 DEF PanelInit
  <2> QED BY <1>3, <2>1, PadPanelStart DEF PanelsInv
<1>4. CASE kind = "keys" BY <1>2, <1>4 DEF PanelsInv, KeyPanelInv
<1>5. CASE kind = "led"
  <2>1. PICK fit \in Leds : real = [leds |-> fit, plain |-> FALSE, rgb |-> [hue |-> 0, drive |-> 0]]
    BY <1>1, <1>5, Zenon DEF PanelInit
  <2>2. fit \in (SUBSET {"plain", "rgb"}) \ {{}} BY LedsAssumption
  <2>3. [hue |-> 0, drive |-> 0] \in [hue : 0..2, drive : Nat] OBVIOUS
  <2>4. real \in [leds : (SUBSET {"plain", "rgb"}) \ {{}}, plain : BOOLEAN, rgb : [hue : 0..2, drive : Nat]]
    BY ONLY <2>1, <2>2, <2>3
  <2>5. real.plain = FALSE /\ real.rgb.drive = 0 BY <2>1
  <2> QED BY <1>2, <1>5, <2>4, <2>5 DEF PanelsInv, LedPanelInv
<1>6. CASE kind = "audio"
  <2>1. real = [plays |-> 0, said |-> "unknown", attested |-> "unknown"]
    BY <1>1, <1>6, Zenon DEF PanelInit
  <2> QED BY <1>2, <1>6, <2>1 DEF PanelsInv, AudioPanelInv
<1>7. CASE kind = "tape"
  <2>1. real = [plays |-> [of |-> "none", speed |-> 100, ones |-> 0]] BY <1>1, <1>7, Zenon DEF PanelInit
  <2>2. DOMAIN real = {"plays"} BY <2>1
  <2>3. TapeIsTold BY <1>2 DEF TapeIsTold
  <2> QED BY <1>7, <2>2, <2>3 DEF PanelsInv, TapePanelInv
<1>8. CASE kind = "overclock"
  <2>1. real = [live |-> Built, before |-> Built, moved |-> 0] BY <1>1, <1>8, Zenon DEF PanelInit
  <2>2. Built \in Settings
    <3>1. Built \in [Fields -> Nat] BY DEF Built, Fields
    <3>2. /\ Built["cpu"] = 252 /\ Built["vreg"] = 11 /\ Built["psram"] = 133 /\ Built["flash"] = 88
      BY DEF Built
    <3>3. CPU[3] = 252 /\ VREG[2] = 11 /\ PSRAM[3] = 133 /\ FLASH[2] = 88 BY DEF CPU, VREG, PSRAM, FLASH
    <3>4. InOffer(Built)
      <4> SUFFICES ASSUME NEW f \in Fields PROVE \E i \in 1..Len(Offered[f]) : Built[f] = Offered[f][i]
        BY DEF InOffer
      <4>1. CASE f = "cpu"
        <5>1. 3 \in 1..Len(Offered[f]) /\ Built[f] = Offered[f][3] BY <3>2, <3>3, <4>1, Tables
        <5> QED BY <5>1
      <4>2. CASE f = "vreg"
        <5>1. 2 \in 1..Len(Offered[f]) /\ Built[f] = Offered[f][2] BY <3>2, <3>3, <4>2, Tables
        <5> QED BY <5>1
      <4>3. CASE f = "psram"
        <5>1. 3 \in 1..Len(Offered[f]) /\ Built[f] = Offered[f][3] BY <3>2, <3>3, <4>3, Tables
        <5> QED BY <5>1
      <4>4. CASE f = "flash"
        <5>1. 2 \in 1..Len(Offered[f]) /\ Built[f] = Offered[f][2] BY <3>2, <3>3, <4>4, Tables
        <5> QED BY <5>1
      <4> QED BY <4>1, <4>2, <4>3, <4>4, Tables
    <3> QED BY <3>1, <3>2, <3>4 DEF Settings
  <2>3. ClockPanelInv BY <1>2, <2>1, <2>2 DEF ClockPanelInv
  <2> QED BY <1>8, <2>3 DEF PanelsInv
<1>9. CASE kind = "ps2"
  <2>1. real = [count |-> [n \in Counters |-> 0]] BY <1>1, <1>9, Zenon DEF PanelInit
  <2>2. [n \in Counters |-> 0] \in [Counters -> Int] OBVIOUS
  <2> QED BY <1>2, <1>9, <2>1, <2>2 DEF PanelsInv, PortPanelInv
<1> QED BY <1>2, <1>3, <1>4, <1>5, <1>6, <1>7, <1>8, <1>9 DEF PanelKinds

(* Whatever leaves them alone leaves what they say alone.                   *)
LEMMA PanelsStutter == ASSUME PanelsInv, UNCHANGED panelVars PROVE PanelsInv'
<1> USE DEF panelVars
<1>1. PadPanelInv => PadPanelInv' BY DEF PadPanelInv, PortFollows, PadFits
<1>2. KeyPanelInv => KeyPanelInv' BY DEF KeyPanelInv
<1>3. LedPanelInv => LedPanelInv' BY DEF LedPanelInv, LedPicture, Fitted
<1>4. AudioPanelInv => AudioPanelInv' BY DEF AudioPanelInv
<1>5. TapePanelInv => TapePanelInv' BY Zenon DEF TapePanelInv, TapeIsTold
<1>6. ClockPanelInv => ClockPanelInv' BY DEF ClockPanelInv
<1>7. PortPanelInv => PortPanelInv' BY DEF PortPanelInv
<1> QED BY <1>1, <1>2, <1>3, <1>4, <1>5, <1>6, <1>7 DEF PanelsInv

(* And every step of one.                                                   *)
LEMMA PanelsStep == ASSUME PanelsInv, PanelNext PROVE PanelsInv'
<1> USE DEF PanelsInv
<1>1. CASE kind = "nespad" /\ PadPanel BY <1>1, PadPanelStep
<1>2. CASE kind = "keys" /\ KeyPanel BY <1>2, KeyPanelStep
<1>3. CASE kind = "led" /\ LedPanel BY <1>3, LedPanelStep
<1>4. CASE kind = "audio" /\ AudioPanel BY <1>4, AudioPanelStep
<1>5. CASE kind = "tape" /\ TapePanel BY <1>5, TapePanelStep
<1>6. CASE kind = "overclock" /\ ClockPanel BY <1>6, ClockPanelStep
<1>7. CASE kind = "ps2" /\ PortPanel BY <1>7, PortPanelStep
<1> QED BY <1>1, <1>2, <1>3, <1>4, <1>5, <1>6, <1>7 DEF PanelNext

(* For any buttons, any LEDs and any number of passes, each dialog that     *)
(* watches a device says what the device does: buttons, an Esc that was     *)
(* drawn before it closes, LEDs, the channel and the answer, the tape, the  *)
(* clocks in force and the counts of the PS/2 ports.                        *)
THEOREM PanelsAreAlwaysTrue == Spec => []PanelsAreTrue
<1>1. Init => PanelsInv BY PanelsStart
<1>2. PanelsInv /\ [Next]_vars => PanelsInv'
  <2> SUFFICES ASSUME PanelsInv, [Next]_vars PROVE PanelsInv' OBVIOUS
  <2>1. CASE PanelNext BY <2>1, PanelsStep
  <2>2. CASE UNCHANGED panelVars BY <2>2, PanelsStutter
  <2>3. PanelNext \/ UNCHANGED panelVars BY DEF Next, vars
  <2> QED BY <2>1, <2>2, <2>3
<1>3. PanelsInv => PanelsAreTrue
  <2> SUFFICES ASSUME PanelsInv PROVE PanelsAreTrue OBVIOUS
  <2> USE DEF PanelsInv
  <2>1. PadsAreShown BY PadPanelTells DEF PadsAreShown
  <2>2. EscIsTested BY DEF EscIsTested, KeyPanelInv
  <2>3. LedsAreShown BY LedPanelTells DEF LedsAreShown
  <2>4. AnswersAreGiven BY DEF AnswersAreGiven, AudioPanelInv
  <2>5. TapeIsTold BY Zenon DEF TapeIsTold, TapePanelInv
  <2>6. ClocksAreHonest BY ClockPanelTells DEF ClocksAreHonest
  <2>7. PortsAreCounted BY DEF PortsAreCounted, PortPanelInv
  <2> QED BY <2>1, <2>2, <2>3, <2>4, <2>5, <2>6, <2>7 DEF PanelsAreTrue
<1> QED BY <1>1, <1>2, <1>3, PTL DEF Spec
---------------------------------------------------------------------------
(* The height of rows that are more, or wrap more, is not less.             *)
LEMMA HeightGrows ==
  ASSUME NEW B, IsFiniteSet(B), NEW A \in SUBSET B, NEW ks, NEW kt, NEW v, NEW w,
         \A i \in A : Wraps(ks, i, v) => Wraps(kt, i, w)
  PROVE  /\ Height(ks, A, v) \in Nat /\ Height(kt, B, w) \in Nat
         /\ Height(ks, A, v) <= Height(kt, B, w)
<1> DEFINE tallA == {i \in A : Wraps(ks, i, v)}
           tallB == {i \in B : Wraps(kt, i, w)}
<1>1. tallA \in SUBSET tallB /\ tallB \in SUBSET B OBVIOUS
<1>2. IsFiniteSet(tallB) /\ Cardinality(B) \in Nat BY <1>1, FS_Subset, FS_CardinalityType
<1>3. IsFiniteSet(A) /\ Cardinality(A) <= Cardinality(B) /\ Cardinality(A) \in Nat
  BY FS_Subset, FS_CardinalityType
<1>4. Cardinality(tallA) <= Cardinality(tallB) /\ Cardinality(tallA) \in Nat /\ Cardinality(tallB) \in Nat
  BY <1>1, <1>2, FS_Subset, FS_CardinalityType
<1>5. Height(ks, A, v) = 2 * Cardinality(A) + Cardinality(tallA) BY DEF Height
<1>6. Height(kt, B, w) = 2 * Cardinality(B) + Cardinality(tallB) BY DEF Height
<1> HIDE DEF tallA, tallB
<1> QED BY <1>2, <1>3, <1>4, <1>5, <1>6

(* A row is two half rows high, or three.                                   *)
LEMMA OneRow == ASSUME NEW ks, NEW i, NEW w PROVE Height(ks, {i}, w) \in Nat /\ Height(ks, {i}, w) <= 3
<1> DEFINE tall == {j \in {i} : Wraps(ks, j, w)}
<1>1. IsFiniteSet({i}) /\ Cardinality({i}) = 1 BY FS_Singleton
<1>2. tall \in SUBSET {i} OBVIOUS
<1>3. Cardinality(tall) <= 1 /\ Cardinality(tall) \in Nat BY <1>1, <1>2, FS_Subset, FS_CardinalityType
<1>4. Height(ks, {i}, w) = 2 * Cardinality({i}) + Cardinality(tall) BY DEF Height
<1> HIDE DEF tall
<1> QED BY <1>1, <1>3, <1>4

(* The width the next draw lays rows at.                                    *)
WidthOf(ks, f) == IF f > 0 \/ Height(ks, 1..Tests, "full") > Window THEN "bar" ELSE "full"
(* What a draw works out is that width, and a count of rows.                *)
LEMMA LaidAt ==
  ASSUME NEW ks, NEW f \in Nat
  PROVE  Laid(ks, f).w = WidthOf(ks, f) /\ Laid(ks, f).count \in Nat
<1> DEFINE drawn2 == {i \in (f + 1)..Tests : Height(ks, (f + 1)..(i - 1), WidthOf(ks, f)) < Window}
<1>1. Laid(ks, f) = [w |-> WidthOf(ks, f), count |-> Cardinality(drawn2)] BY DEF Laid, WidthOf
<1>2. Cardinality(drawn2) \in Nat
  <2>1. IsFiniteSet((f + 1)..Tests) BY DeskAssumption, FS_Interval
  <2>2. drawn2 \in SUBSET ((f + 1)..Tests) OBVIOUS
  <2> QED BY <2>1, <2>2, FS_Subset, FS_CardinalityType
<1> HIDE DEF drawn2
<1> QED BY <1>1, <1>2
(* Sets of numbers have a least.                                            *)
LEMMA LeastOf ==
  ASSUME NEW T \in SUBSET Nat, T # {}
  PROVE  Min(T) \in T /\ \A y \in T : Min(T) <= y
<1> DEFINE less == OpToRel(<, Nat)
<1>1. IsWellFoundedOn(less, Nat) BY NatLessThanWellFounded
<1>2. \A x, y \in T : y < x => <<y, x>> \in less BY DEF OpToRel
<1> HIDE DEF less
<1>3. PICK x \in T : \A y \in T : ~(<<y, x>> \in less) BY <1>1, WFMin
<1>4. \A y \in T : x <= y
  <2> SUFFICES ASSUME NEW y \in T PROVE x <= y OBVIOUS
  <2>1. x \in Nat /\ y \in Nat /\ ~(y < x) BY <1>2, <1>3
  <2> QED BY <2>1
<1> QED BY <1>4 DEF Min

(* The greater of two numbers.                                              *)
LEMMA GreaterOf ==
  ASSUME NEW a \in Nat, NEW b \in Nat
  PROVE  Max({a, b}) \in {a, b} /\ a <= Max({a, b}) /\ b <= Max({a, b})
<1>1. \E x \in {a, b} : \A y \in {a, b} : x >= y OBVIOUS
<1>2. /\ (CHOOSE x \in {a, b} : \A y \in {a, b} : x >= y) \in {a, b}
      /\ \A y \in {a, b} : (CHOOSE x \in {a, b} : \A z \in {a, b} : x >= z) >= y
  BY <1>1, Zenon
<1>3. \A y \in {a, b} : Max({a, b}) >= y BY <1>2, Zenon DEF Max
<1>4. Max({a, b}) \in {a, b} BY <1>2, Zenon DEF Max
<1> QED BY <1>3, <1>4

(* What the list is moved to shows the row, and whole, at the width of the  *)
(* draw that follows.                                                       *)
Seats(ks, f, i) == f < i /\ Height(ks, (f + 1)..i, WidthOf(ks, f)) <= Window
(* FirstShowing seats the row, if rows were laid at the list's own width.   *)
LEMMA ShowingSeats ==
  ASSUME first \in Nat, NEW i \in 1..Tests, geom.w = WidthOf(kinds, first)
  PROVE  FirstShowing(i) \in Nat /\ Seats(kinds, FirstShowing(i), i)
<1> USE DeskAssumption
<1>1. CASE i <= first
  <2>1. FirstShowing(i) = i - 1 /\ i - 1 \in Nat BY <1>1 DEF FirstShowing
  <2>2. ((i - 1) + 1)..i = {i} OBVIOUS
  <2> DEFINE h == Height(kinds, {i}, WidthOf(kinds, i - 1))
  <2>3. h \in Nat /\ h <= 3 BY OneRow
  <2> HIDE DEF h
  <2>4. h <= Window BY <2>3
  <2> QED BY <2>1, <2>2, <2>4 DEF Seats, h
<1>2. CASE i > first
  <2> DEFINE fits == {f \in 0..(i - 1) : Height(kinds, (f + 1)..i, geom.w) <= Window}
             low == Min(fits)
             to == FirstShowing(i)
  <2>1. i - 1 \in fits
    <3>1. ((i - 1) + 1)..i = {i} OBVIOUS
    <3> DEFINE h == Height(kinds, {i}, geom.w)
    <3>2. h \in Nat /\ h <= 3 BY OneRow
    <3> HIDE DEF h
    <3>3. h <= Window BY <3>2
    <3> QED BY <3>1, <3>3 DEF h
  <2>2. fits \in SUBSET Nat OBVIOUS
  <2>3. low \in fits /\ \A f \in fits : low <= f
    <3> HIDE DEF fits
    <3> QED BY <2>1, <2>2, LeastOf
  <2>4. to = Max({first, low}) BY <1>2 DEF FirstShowing
  <2>5. low \in 0..(i - 1) /\ Height(kinds, (low + 1)..i, geom.w) <= Window BY <2>3
  <2>6. 0 \in fits => low = 0 BY <2>3, <2>5
  <2>7. 0 \in fits <=> Height(kinds, 1..i, geom.w) <= Window OBVIOUS
  <2> HIDE DEF low, fits, to
  <2>8. to \in {first, low} /\ first <= to /\ low <= to BY <2>4, <2>5, GreaterOf
  <2>9. to \in Nat /\ to < i BY <1>2, <2>5, <2>8
  <2>10. IsFiniteSet((low + 1)..i) /\ (to + 1)..i \in SUBSET ((low + 1)..i)
    BY <2>5, <2>8, <2>9, FS_Interval
  <2>11. CASE geom.w = "bar"
    <3>1. \A j \in (to + 1)..i : Wraps(kinds, j, WidthOf(kinds, to)) => Wraps(kinds, j, geom.w)
      BY <2>11 DEF Wraps
    <3>2. /\ Height(kinds, (to + 1)..i, WidthOf(kinds, to)) <= Height(kinds, (low + 1)..i, geom.w)
          /\ Height(kinds, (to + 1)..i, WidthOf(kinds, to)) \in Nat /\ Height(kinds, (low + 1)..i, geom.w) \in Nat
      BY <2>10, <3>1, HeightGrows
    <3>3. Height(kinds, (to + 1)..i, WidthOf(kinds, to)) <= Window BY <2>5, <3>2
    <3> QED BY <2>9, <3>3 DEF Seats, to
  <2>12. CASE geom.w # "bar"
    <3>1. geom.w = "full" /\ first = 0 /\ ~(Height(kinds, 1..Tests, "full") > Window)
      BY <2>12 DEF WidthOf
    <3>2. IsFiniteSet(1..Tests) /\ 1..i \in SUBSET (1..Tests) BY FS_Interval
    <3>3. /\ Height(kinds, 1..i, "full") \in Nat /\ Height(kinds, 1..Tests, "full") \in Nat
          /\ Height(kinds, 1..i, "full") <= Height(kinds, 1..Tests, "full")
      BY <3>2, HeightGrows
    <3>4. Height(kinds, 1..i, "full") <= Window BY <3>1, <3>3
    <3>5. low = 0 BY <2>6, <2>7, <3>1, <3>4
    <3>6. to = 0 BY <2>8, <3>1, <3>5
    <3>7. WidthOf(kinds, 0) = "full" BY <3>1 DEF WidthOf
    <3>8. (0 + 1)..i = 1..i OBVIOUS
    <3>9. Seats(kinds, 0, i) BY <3>4, <3>7, <3>8 DEF Seats
    <3> QED BY <2>9, <3>6, <3>9 DEF to
  <2> QED BY <2>9, <2>11, <2>12 DEF to
<1> QED BY <1>1, <1>2

(* Rows that lose their details stay where they were.                       *)
LEMMA PlainSeats ==
  ASSUME first \in Nat, sel \in 1..Tests, Seats(kinds, first, sel), NEW ks, \A i \in 1..Tests, w \in {"full", "bar"} : ~Wraps(ks, i, w)
  PROVE  Seats(ks, first, sel)
<1> USE DeskAssumption
<1>1. IsFiniteSet((first + 1)..sel) BY FS_Interval
<1>2. WidthOf(ks, first) \in {"full", "bar"} /\ (first + 1)..sel \in SUBSET (1..Tests) BY DEF WidthOf
<1>3. \A i \in (first + 1)..sel : Wraps(ks, i, WidthOf(ks, first)) => Wraps(kinds, i, WidthOf(kinds, first))
  BY <1>2
<1>4. /\ Height(ks, (first + 1)..sel, WidthOf(ks, first)) <= Height(kinds, (first + 1)..sel, WidthOf(kinds, first))
      /\ Height(ks, (first + 1)..sel, WidthOf(ks, first)) \in Nat
      /\ Height(kinds, (first + 1)..sel, WidthOf(kinds, first)) \in Nat
  BY <1>1, <1>3, HeightGrows
<1> QED BY <1>4 DEF Seats

---------------------------------------------------------------------------
(* The menus, one by one, and how many items each has.                       *)
Size(m) == Len(Menus[m].items)
(* The bar has six menus, each with its own items.                          *)
LEMMA MenusAre ==
  /\ DOMAIN Menus = 1..6 /\ Len(Menus) = 6
  /\ Menus[1].items = MarkItems /\ Menus[2].items = FileItems /\ Menus[3].items = BoardItems
  /\ Menus[4].items = VideoItems /\ Menus[5].items = AudioItems /\ Menus[6].items = TestsItems
BY DEF Menus
(* No menu has more than nine items.                                        *)
LEMMA MenuSizes ==
  /\ DOMAIN Menus = 1..6 /\ Len(Menus) = 6
  /\ \A m \in 1..6 : Items(m) = 1..Size(m) /\ Size(m) \in {1, 4, 5, 6, 7, 9}
  /\ Size(1) = 5 /\ Size(2) = 6 /\ Size(3) = 1 /\ Size(4) = 7 /\ Size(5) = 4 /\ Size(6) = 9
<1>1. DOMAIN MarkItems = 1..5 /\ Len(MarkItems) = 5 BY DEF MarkItems
<1>2. DOMAIN FileItems = 1..6 /\ Len(FileItems) = 6 BY DEF FileItems
<1>3. DOMAIN BoardItems = 1..1 /\ Len(BoardItems) = 1 BY DEF BoardItems
<1>4. DOMAIN VideoItems = 1..7 /\ Len(VideoItems) = 7 BY DEF VideoItems
<1>5. DOMAIN AudioItems = 1..4 /\ Len(AudioItems) = 4 BY DEF AudioItems
<1>6. DOMAIN TestsItems = 1..9 /\ Len(TestsItems) = 9 BY DEF TestsItems
<1>7. /\ Items(1) = DOMAIN MarkItems /\ Items(2) = DOMAIN FileItems /\ Items(3) = DOMAIN BoardItems
      /\ Items(4) = DOMAIN VideoItems /\ Items(5) = DOMAIN AudioItems /\ Items(6) = DOMAIN TestsItems
  BY MenusAre DEF Items
<1>8. Size(1) = 5 /\ Size(2) = 6 /\ Size(3) = 1 /\ Size(4) = 7 /\ Size(5) = 4 /\ Size(6) = 9
  BY <1>1, <1>2, <1>3, <1>4, <1>5, <1>6, MenusAre DEF Size
<1>9. ASSUME NEW m \in 1..6 PROVE Items(m) = 1..Size(m) /\ Size(m) \in {1, 4, 5, 6, 7, 9}
  <2>1. CASE m = 1 BY <1>1, <1>7, <1>8, <2>1
  <2>2. CASE m = 2 BY <1>2, <1>7, <1>8, <2>2
  <2>3. CASE m = 3 BY <1>3, <1>7, <1>8, <2>3
  <2>4. CASE m = 4 BY <1>4, <1>7, <1>8, <2>4
  <2>5. CASE m = 5 BY <1>5, <1>7, <1>8, <2>5
  <2>6. CASE m = 6 BY <1>6, <1>7, <1>8, <2>6
  <2> QED BY <2>1, <2>2, <2>3, <2>4, <2>5, <2>6
<1> QED BY <1>8, <1>9, MenusAre

(* Where so many steps from an item come to, round the ends.                *)
Round(n, x) == IF x <= n THEN x ELSE x - n
(* Both ways round, a step comes to an item.                                *)
LEMMA ReachedIs ==
  ASSUME NEW m \in 1..6, NEW h \in 1..Size(m), NEW s \in 1..Size(m)
  PROVE  /\ Reached(m, h, FALSE, s) = Round(Size(m), h + s)
         /\ Reached(m, h, TRUE, s) = Round(Size(m), h + Size(m) - s)
         /\ Round(Size(m), h + s) \in 1..Size(m) /\ Round(Size(m), h + Size(m) - s) \in 1..Size(m)
<1> DEFINE n == Size(m)
<1>1. n \in {1, 4, 5, 6, 7, 9} BY MenuSizes
<1>2. /\ Reached(m, h, FALSE, s) = ((h + s - 1) % n) + 1
      /\ Reached(m, h, TRUE, s) = ((h + n - s - 1) % n) + 1
  BY DEF Reached, Wrapped, Size
<1> HIDE DEF n
<1>3. \A x \in 1..(2 * n) : ((x - 1) % n) + 1 = Round(n, x)
  <2>1. CASE n = 1 BY <2>1 DEF Round
  <2>2. CASE n = 4 BY <2>2 DEF Round
  <2>3. CASE n = 5 BY <2>3 DEF Round
  <2>4. CASE n = 6 BY <2>4 DEF Round
  <2>5. CASE n = 7 BY <2>5 DEF Round
  <2>6. CASE n = 9 BY <2>6 DEF Round
  <2> QED BY <1>1, <2>1, <2>2, <2>3, <2>4, <2>5, <2>6
<1>4. h \in 1..n /\ s \in 1..n BY DEF n
<1>5. h + s \in 1..(2 * n) /\ h + n - s \in 1..(2 * n) BY <1>1, <1>4
<1>6. Round(n, h + s) \in 1..n /\ Round(n, h + n - s) \in 1..n BY <1>1, <1>4 DEF Round
<1>7. ((h + s - 1) % n) + 1 = Round(n, h + s) BY <1>3, <1>5
<1>8. ((h + n - s - 1) % n) + 1 = Round(n, h + n - s)
  <2> DEFINE x == h + n - s
  <2>1. x \in 1..(2 * n) BY <1>5
  <2> HIDE DEF x
  <2>2. ((x - 1) % n) + 1 = Round(n, x) BY <1>3, <2>1
  <2> QED BY <1>1, <1>4, <2>1, <2>2 DEF x
<1> QED BY ONLY <1>2, <1>6, <1>7, <1>8 DEF n

(* The steps after which a key finds an item to highlight, and the item.    *)
Hits(m, h, u) == {s \in 1..Size(m) : Selectable(m, Reached(m, h, u, s))}
(* The first hit is taken.                                                  *)
LEMMA StepsAre ==
  ASSUME NEW m \in 1..6, NEW h \in 1..Size(m), NEW u \in BOOLEAN
  PROVE  /\ Hits(m, h, u) = {} => Step(m, h, u) = 0
         /\ Hits(m, h, u) # {} =>
              /\ Min(Hits(m, h, u)) \in Hits(m, h, u)
              /\ \A s \in Hits(m, h, u) : Min(Hits(m, h, u)) <= s
              /\ Step(m, h, u) = Reached(m, h, u, Min(Hits(m, h, u)))
<1>1. h # 0 BY MenuSizes
<1>2. Step(m, h, u) = IF Hits(m, h, u) = {} THEN 0 ELSE Reached(m, h, u, Min(Hits(m, h, u)))
  BY <1>1 DEF Step, Hits, Size
<1>3. Hits(m, h, u) \in SUBSET Nat BY MenuSizes DEF Hits
<1> QED BY <1>2, <1>3, LeastOf

(* A key finds an item if there is one.                                     *)
LEMMA StepLands ==
  ASSUME NEW m \in 1..6, NEW h \in 0..Size(m), NEW u \in BOOLEAN
  PROVE  /\ Selectables(m) # {} => Step(m, h, u) \in Selectables(m)
         /\ Selectables(m) = {} => Step(m, h, u) = 0
<1> DEFINE n == Size(m)
<1>1. Selectables(m) \in SUBSET (1..n) /\ n \in Nat BY MenuSizes DEF Selectables
<1>2. CASE h = 0
  <2>1. Step(m, h, u) = IF Selectables(m) = {} THEN 0 ELSE Min(Selectables(m))
    BY <1>2 DEF Step, FirstSelectable
  <2>2. Selectables(m) \in SUBSET Nat BY <1>1
  <2> QED BY <2>1, <2>2, LeastOf
<1>3. CASE h \in 1..n
  <2>1. ASSUME NEW s \in Hits(m, h, u) PROVE Reached(m, h, u, s) \in Selectables(m)
    BY <2>1 DEF Hits, Selectables, Selectable
  <2>2. ASSUME NEW t \in Selectables(m) PROVE \E s \in Hits(m, h, u) : TRUE
    <3>1. t \in 1..n /\ Selectable(m, t) BY <1>1, <2>2 DEF Selectables
    <3> DEFINE away == IF t > h THEN t - h ELSE t - h + n
               back == IF h > t THEN h - t ELSE h - t + n
    <3>2. away \in 1..n /\ back \in 1..n BY <1>1, <1>3, <3>1
    <3>3. Round(n, h + away) = t /\ Round(n, h + n - back) = t BY <1>1, <1>3, <3>1 DEF Round
    <3> HIDE DEF away, back
    <3>4. Reached(m, h, FALSE, away) = t /\ Reached(m, h, TRUE, back) = t BY <1>3, <3>2, <3>3, ReachedIs
    <3>5. CASE u
      <4>1. u = TRUE BY <3>5
      <4> QED BY <3>1, <3>2, <3>4, <4>1 DEF Hits
    <3>6. CASE ~u
      <4>1. u = FALSE BY <3>6
      <4> QED BY <3>1, <3>2, <3>4, <4>1 DEF Hits
    <3> QED BY <3>5, <3>6
  <2>3. Selectables(m) # {} => Hits(m, h, u) # {} BY <2>2
  <2>4. Selectables(m) = {} => Hits(m, h, u) = {} BY <2>1
  <2> QED BY <1>3, <2>1, <2>3, <2>4, StepsAre
<1> QED BY <1>1, <1>2, <1>3

(* Down comes to any item, or nearer to it, and not past it.                *)
Gap(m, p, t) == IF t > p THEN t - p ELSE t - p + Size(m)
(* Each Down is a step towards whatever it has not come to.                 *)
LEMMA Nearer ==
  ASSUME NEW m \in 1..6, NEW p \in Selectables(m), NEW t \in Selectables(m), p # t
  PROVE  /\ Step(m, p, FALSE) \in Selectables(m)
         /\ Step(m, p, FALSE) = t \/ Gap(m, Step(m, p, FALSE), t) < Gap(m, p, t)
         /\ Gap(m, p, t) \in 1..(Size(m) - 1)
<1> DEFINE n == Size(m)
           g == Gap(m, p, t)
           hits == Hits(m, p, FALSE)
           k == Min(hits)
           q == Step(m, p, FALSE)
<1>1. n \in {1, 4, 5, 6, 7, 9} BY MenuSizes
<1>2. p \in 1..n /\ t \in 1..n /\ Selectable(m, t) BY MenuSizes DEF Selectables
<1>3. g \in 1..(n - 1) /\ g \in 1..n /\ Round(n, p + g) = t BY <1>1, <1>2 DEF Gap, Round
<1>4. q \in Selectables(m)
  <2>1. p \in 0..Size(m) /\ Selectables(m) # {} BY <1>1, <1>2
  <2> QED BY <2>1, StepLands
<1>5. Reached(m, p, FALSE, g) = t BY <1>2, <1>3, ReachedIs
<1>6. g \in hits BY <1>2, <1>3, <1>5 DEF Hits
<1>7. k \in hits /\ k <= g /\ q = Reached(m, p, FALSE, k)
  <2>1. hits # {} BY <1>6
  <2> HIDE DEF k, hits, q, g
  <2> QED BY <1>2, <1>6, <2>1, StepsAre DEF k, hits, q
<1>8. k \in 1..n BY <1>7 DEF Hits
<1>9. q = Round(n, p + k) BY <1>2, <1>7, <1>8, ReachedIs
<1>10. g = IF t > p THEN t - p ELSE t - p + n BY DEF Gap
<1>11. Gap(m, q, t) = IF t > q THEN t - q ELSE t - q + n BY DEF Gap
<1> HIDE DEF n, g, hits, k, q
<1>12. q = t \/ Gap(m, q, t) < g
  <2> DEFINE far == Gap(m, q, t)
  <2>1. far = IF t > q THEN t - q ELSE t - q + n BY <1>11
  <2> HIDE DEF far
  <2>2. q = IF p + k <= n THEN p + k ELSE p + k - n BY <1>1, <1>2, <1>8, <1>9 DEF Round
  <2>3. k \in Nat /\ k >= 1 /\ k <= g /\ n \in Nat /\ p \in 1..n /\ t \in 1..n BY <1>1, <1>2, <1>7, <1>8
  <2>4. q = t \/ far < g
    <3>1. CASE t > p
      <4>1. g = t - p BY <1>10, <3>1
      <4>2. q = p + k BY <2>2, <2>3, <4>1
      <4> QED BY <2>1, <2>3, <4>1, <4>2
    <3>2. CASE t < p
      <4>1. g = t - p + n BY <1>10, <2>3, <3>2
      <4>2. CASE p + k <= n
        <5>1. q = p + k BY <2>2, <4>2
        <5> QED BY <2>1, <2>3, <3>2, <4>1, <4>2, <5>1
      <4>3. CASE ~(p + k <= n)
        <5>1. q = p + k - n BY <2>2, <4>3
        <5> QED BY <2>1, <2>3, <3>2, <4>1, <4>3, <5>1
      <4> QED BY <4>2, <4>3
    <3> QED BY <2>3, <3>1, <3>2
  <2> QED BY <2>4 DEF far
<1> QED BY <1>3, <1>4, <1>12 DEF q, n, g

(* Down after Down: nine of them come past everything that can be selected. *)
DownFrom(m, h) ==
  CHOOSE f : f = [n \in 0..9 |-> IF n = 0 THEN h ELSE Step(m, f[n - 1], FALSE)]
(* The recursion is a function: each Down is a step from the last.          *)
LEMMA DownFromIs ==
  ASSUME NEW m \in 1..6, NEW h
  PROVE  /\ Downs(m, h) = {DownFrom(m, h)[n] : n \in 0..9}
         /\ DownFrom(m, h)[0] = h
         /\ \A n \in 1..9 : DownFrom(m, h)[n] = Step(m, DownFrom(m, h)[n - 1], FALSE)
<1> DEFINE s(x) == Step(m, x, FALSE)
           a1 == s(h)  a2 == s(a1)  a3 == s(a2)  a4 == s(a3)  a5 == s(a4)
           a6 == s(a5) a7 == s(a6)  a8 == s(a7)  a9 == s(a8)
           g == [n \in 0..9 |-> IF n = 0 THEN h ELSE IF n = 1 THEN a1 ELSE IF n = 2 THEN a2
                   ELSE IF n = 3 THEN a3 ELSE IF n = 4 THEN a4 ELSE IF n = 5 THEN a5
                   ELSE IF n = 6 THEN a6 ELSE IF n = 7 THEN a7 ELSE IF n = 8 THEN a8 ELSE a9]
           after(f) == [n \in 0..9 |-> IF n = 0 THEN h ELSE s(f[n - 1])]
           d == DownFrom(m, h)
<1>1. /\ s(h) = a1 /\ s(a1) = a2 /\ s(a2) = a3 /\ s(a3) = a4 /\ s(a4) = a5
      /\ s(a5) = a6 /\ s(a6) = a7 /\ s(a7) = a8 /\ s(a8) = a9
  OBVIOUS
<1>2. Downs(m, h) = {d[n] : n \in 0..9} BY DEF Downs, DownFrom
<1>3. d = CHOOSE f : f = after(f) BY DEF DownFrom
<1> HIDE DEF a1, a2, a3, a4, a5, a6, a7, a8, a9, s, d
<1>4. g = after(g)
  <2>1. \A n \in 0..9 : g[n] = after(g)[n] 
    <3> SUFFICES ASSUME NEW n \in 0..9 PROVE g[n] = after(g)[n] OBVIOUS
    <3>1. n \in {0, 1, 2, 3, 4, 5, 6, 7, 8, 9} OBVIOUS
    <3> QED BY <1>1, <3>1
  <2> QED BY <2>1
<1>5. d = after(d)
  <2> HIDE DEF g, after
  <2>1. \E f : f = after(f) BY <1>4
  <2> QED BY <1>3, <2>1, Zenon
<1>6. d[0] = h /\ \A n \in 1..9 : d[n] = s(d[n - 1])
  <2>1. \A n \in 0..9 : d[n] = IF n = 0 THEN h ELSE s(d[n - 1]) BY <1>5
  <2> QED BY <2>1
<1> QED BY <1>2, <1>6 DEF d, s
(* From any item that can be selected, nine Downs come to every other.      *)
LEMMA DownsReach ==
  ASSUME NEW m \in 1..6, NEW h \in Selectables(m)
  PROVE  Downs(m, h) = Selectables(m)
<1> DEFINE d == DownFrom(m, h)
<1>1. d[0] = h BY DownFromIs
<1>2. \A n \in 1..9 : d[n] = Step(m, d[n - 1], FALSE) BY DownFromIs
<1>3. Downs(m, h) = {d[n] : n \in 0..9} BY DownFromIs
<1> HIDE DEF d
<1>4. Selectables(m) \in SUBSET (0..Size(m)) /\ Selectables(m) # {} BY MenuSizes DEF Selectables
<1>5. ASSUME NEW n \in 0..8, d[n] \in Selectables(m) PROVE d[n + 1] \in Selectables(m)
  <2>1. n + 1 \in 1..9 /\ (n + 1) - 1 = n OBVIOUS
  <2>2. d[n + 1] = Step(m, d[n], FALSE) BY <1>2, <2>1
  <2>3. Step(m, d[n], FALSE) \in Selectables(m) BY <1>4, <1>5, StepLands
  <2> QED BY <2>2, <2>3
<1>6. d[0] \in Selectables(m) BY <1>1
<1>7. d[1] \in Selectables(m) BY <1>5, <1>6
<1>8. d[2] \in Selectables(m) BY <1>5, <1>7
<1>9. d[3] \in Selectables(m) BY <1>5, <1>8
<1>10. d[4] \in Selectables(m) BY <1>5, <1>9
<1>11. d[5] \in Selectables(m) BY <1>5, <1>10
<1>12. d[6] \in Selectables(m) BY <1>5, <1>11
<1>13. d[7] \in Selectables(m) BY <1>5, <1>12
<1>14. d[8] \in Selectables(m) BY <1>5, <1>13
<1>15. d[9] \in Selectables(m) BY <1>5, <1>14
<1>16. \A n \in 0..9 : d[n] \in Selectables(m)
  <2> SUFFICES ASSUME NEW n \in 0..9 PROVE d[n] \in Selectables(m) OBVIOUS
  <2>1. n \in {0, 1, 2, 3, 4, 5, 6, 7, 8, 9} OBVIOUS
  <2> QED BY <1>6, <1>7, <1>8, <1>9, <1>10, <1>11, <1>12, <1>13, <1>14, <1>15, <2>1
<1>17. ASSUME NEW t \in Selectables(m) PROVE \E n \in 0..9 : d[n] = t
  <2> SUFFICES ASSUME \A n \in 0..9 : d[n] # t PROVE FALSE OBVIOUS
  <2> DEFINE gap(n) == Gap(m, d[n], t)
  <2>1. ASSUME NEW n \in 0..8 PROVE gap(n) \in 1..8 /\ (n + 1 \in 0..9 => gap(n + 1) < gap(n))
    <3>1. d[n] \in Selectables(m) /\ d[n] # t BY <1>16
    <3>2. d[n + 1] = Step(m, d[n], FALSE) /\ d[n + 1] # t
      <4>1. n + 1 \in 1..9 /\ n + 1 \in 0..9 /\ (n + 1) - 1 = n OBVIOUS
      <4>2. d[n + 1] = Step(m, d[n], FALSE) BY <1>2, <4>1
      <4>3. d[n + 1] # t BY <4>1
      <4> QED BY <4>2, <4>3
    <3>3. gap(n) \in 1..(Size(m) - 1) BY <3>1, Nearer
    <3>4. gap(n + 1) < gap(n)
      <4>1. Step(m, d[n], FALSE) # t BY <3>2
      <4>2. Gap(m, Step(m, d[n], FALSE), t) < Gap(m, d[n], t) BY <3>1, <4>1, Nearer
      <4> QED BY <3>2, <4>2
    <3>5. Size(m) \in {1, 4, 5, 6, 7, 9} BY MenuSizes
    <3> HIDE DEF gap
    <3> QED BY <3>3, <3>4, <3>5
  <2> HIDE DEF gap
  <2>2. \A n \in 0..8 : gap(n) \in 1..8 BY <2>1
  <2>3. \A n \in 0..7 : gap(n + 1) < gap(n) BY <2>1
  <2>4. gap(1) < gap(0) /\ gap(2) < gap(1) /\ gap(3) < gap(2) /\ gap(4) < gap(3) BY <2>3
  <2>5. gap(5) < gap(4) /\ gap(6) < gap(5) /\ gap(7) < gap(6) /\ gap(8) < gap(7) BY <2>3
  <2>6. /\ gap(0) \in 1..8 /\ gap(1) \in 1..8 /\ gap(2) \in 1..8 /\ gap(3) \in 1..8 /\ gap(4) \in 1..8
        /\ gap(5) \in 1..8 /\ gap(6) \in 1..8 /\ gap(7) \in 1..8 /\ gap(8) \in 1..8
    BY <2>2
  <2> QED BY ONLY <2>4, <2>5, <2>6
<1> QED BY <1>3, <1>16, <1>17

(* A key is that of one item: where it is.                                  *)
Spot(k) ==
  IF k = "I" THEN <<1, 4>> ELSE IF k = "R" THEN <<2, 5>> ELSE IF k = "S" THEN <<3, 1>>
  ELSE IF k = "H" THEN <<4, 3>> ELSE IF k = "V" THEN <<4, 4>> ELSE IF k = "C" THEN <<4, 5>>
  ELSE IF k = "T" THEN <<4, 7>> ELSE IF k = "P" THEN <<5, 1>> ELSE IF k = "2" THEN <<5, 2>>
  ELSE IF k = "U" THEN <<5, 3>> ELSE IF k = "M" THEN <<5, 4>> ELSE IF k = "A" THEN <<6, 1>>
  ELSE IF k = "E" THEN <<6, 2>> ELSE IF k = "G" THEN <<6, 5>> ELSE IF k = "K" THEN <<6, 6>>
  ELSE IF k = "Y" THEN <<6, 7>> ELSE IF k = "L" THEN <<6, 8>> ELSE <<6, 9>>
(* No two items have one key.                                               *)
LEMMA KeysAreUnique ==
  ASSUME NEW m \in 1..6, NEW i \in 1..Size(m), Key(m, i) # ""
  PROVE  Spot(Key(m, i)) = <<m, i>>
<1>1. CASE m = 1
  <2>1. i \in {1, 2, 3, 4, 5}
    <3>1. Size(m) = 5 BY <1>1, MenuSizes
    <3>2. i \in 1..5 BY <3>1
    <3> QED BY ONLY <3>2
  <2>2. /\ MarkItems[1][2] = "" /\ MarkItems[2][2] = "" /\ MarkItems[3][2] = ""
        /\ MarkItems[4][2] = "I" /\ MarkItems[5][2] = ""
    BY DEF MarkItems, Sep
  <2>3. Key(1, i) = MarkItems[i][2] BY MenusAre DEF Key
  <2> QED BY <1>1, <2>1, <2>2, <2>3 DEF Spot
<1>2. CASE m = 2
  <2>1. i \in {1, 2, 3, 4, 5, 6}
    <3>1. Size(m) = 6 BY <1>2, MenuSizes
    <3>2. i \in 1..6 BY <3>1
    <3> QED BY ONLY <3>2
  <2>2. /\ FileItems[1][2] = "" /\ FileItems[2][2] = "" /\ FileItems[3][2] = ""
        /\ FileItems[4][2] = "" /\ FileItems[5][2] = "R" /\ FileItems[6][2] = ""
    BY DEF FileItems, Sep
  <2>3. Key(2, i) = FileItems[i][2] BY MenusAre DEF Key
  <2> QED BY <1>2, <2>1, <2>2, <2>3 DEF Spot
<1>3. CASE m = 3
  <2>1. i = 1
    <3>1. Size(m) = 1 BY <1>3, MenuSizes
    <3>2. i \in 1..1 BY <3>1
    <3> QED BY ONLY <3>2
  <2>2. BoardItems[1][2] = "S" BY DEF BoardItems
  <2>3. Key(3, i) = BoardItems[i][2] BY MenusAre DEF Key
  <2> QED BY <1>3, <2>1, <2>2, <2>3 DEF Spot
<1>4. CASE m = 4
  <2>1. i \in {1, 2, 3, 4, 5, 6, 7}
    <3>1. Size(m) = 7 BY <1>4, MenuSizes
    <3>2. i \in 1..7 BY <3>1
    <3> QED BY ONLY <3>2
  <2>2. /\ VideoItems[1][2] = "" /\ VideoItems[2][2] = "" /\ VideoItems[3][2] = "H"
        /\ VideoItems[4][2] = "V" /\ VideoItems[5][2] = "C" /\ VideoItems[6][2] = "" /\ VideoItems[7][2] = "T"
    BY DEF VideoItems, Sep
  <2>3. Key(4, i) = VideoItems[i][2] BY MenusAre DEF Key
  <2> QED BY <1>4, <2>1, <2>2, <2>3 DEF Spot
<1>5. CASE m = 5
  <2>1. i \in {1, 2, 3, 4}
    <3>1. Size(m) = 4 BY <1>5, MenuSizes
    <3>2. i \in 1..4 BY <3>1
    <3> QED BY ONLY <3>2
  <2>2. AudioItems[1][2] = "P" /\ AudioItems[2][2] = "2" /\ AudioItems[3][2] = "U" /\ AudioItems[4][2] = "M"
    BY DEF AudioItems
  <2>3. Key(5, i) = AudioItems[i][2] BY MenusAre DEF Key
  <2> QED BY <1>5, <2>1, <2>2, <2>3 DEF Spot
<1>6. CASE m = 6
  <2>1. i \in {1, 2, 3, 4, 5, 6, 7, 8, 9}
    <3>1. Size(m) = 9 BY <1>6, MenuSizes
    <3>2. i \in 1..9 BY <3>1
    <3> QED BY ONLY <3>2
  <2>2. /\ TestsItems[1][2] = "A" /\ TestsItems[2][2] = "E" /\ TestsItems[3][2] = "" /\ TestsItems[4][2] = ""
        /\ TestsItems[5][2] = "G" /\ TestsItems[6][2] = "K" /\ TestsItems[7][2] = "Y"
        /\ TestsItems[8][2] = "L" /\ TestsItems[9][2] = "N"
    BY DEF TestsItems, Sep
  <2>3. Key(6, i) = TestsItems[i][2] BY MenusAre DEF Key
  <2> QED BY <1>6, <2>1, <2>2, <2>3 DEF Spot
<1>7. m \in {1, 2, 3, 4, 5, 6}
  <2>1. m \in 1..6 OBVIOUS
  <2> QED BY ONLY <2>1
<1> QED BY <1>1, <1>2, <1>3, <1>4, <1>5, <1>6, <1>7

(* So it does what is drawn beside it.                                      *)
LEMMA KeyDoes ==
  ASSUME NEW m \in 1..6, NEW i \in Selectables(m), Key(m, i) # ""
  PROVE  CmdForKey(Key(m, i)) = Cmd(m, i)
<1> DEFINE k == Key(m, i)
           p == <<m, i>>
           found == {q \in DrawnBeside[k] : Enabled(Cmd(q[1], q[2]))}
           firsts == {q \in found : \A r \in found : q[1] < r[1] \/ (q[1] = r[1] /\ q[2] <= r[2])}
           one == CHOOSE q \in firsts : TRUE
<1>1. m \in DOMAIN Menus /\ i \in Items(m) /\ i \in 1..Size(m) /\ Enabled(Cmd(m, i))
  BY MenuSizes DEF Selectables, Selectable
<1>2. DrawnBeside[k] = Drawn(k)
  <2>1. k \in {Key(m, j) : j \in Items(m)} BY <1>1
  <2>2. k \in UNION {{Key(n, j) : j \in Items(n)} : n \in DOMAIN Menus}
    <3> HIDE DEF k
    <3> QED BY <1>1, <2>1
  <2>4. k # "" OBVIOUS
  <2> HIDE DEF k
  <2>3. k \in Letters BY ONLY <2>2, <2>4 DEF Letters
  <2> QED BY <2>3 DEF DrawnBeside
<1>3. Drawn(k) = {p}
  <2>1. p \in Drawn(k)
    <3>1. p \in {m} \X Items(m) BY <1>1
    <3>2. p \in UNION {{n} \X Items(n) : n \in DOMAIN Menus} BY <1>1, <3>1
    <3> QED BY <3>2 DEF Drawn
  <2>2. ASSUME NEW q \in Drawn(k) PROVE q = p
    <3>1. q \in UNION {{n} \X Items(n) : n \in DOMAIN Menus} /\ Key(q[1], q[2]) = k BY DEF Drawn
    <3>2. PICK n \in DOMAIN Menus : q \in {n} \X Items(n) BY <3>1
    <3>3. PICK j \in Items(n) : q = <<n, j>>
      <4>1. q \in {n} \X Items(n) BY <3>2
      <4>2. q[1] = n /\ q[2] \in Items(n) /\ q = <<q[1], q[2]>> BY ONLY <4>1
      <4> QED BY ONLY <4>2
    <3>4. n \in 1..6 /\ j \in 1..Size(n) /\ Key(n, j) = k BY <3>1, <3>3, MenuSizes
    <3>5. Spot(k) = <<n, j>> BY <3>4, KeysAreUnique
    <3>6. Spot(k) = <<m, i>> BY <1>1, KeysAreUnique
    <3> QED BY <3>3, <3>5, <3>6
  <2> QED BY <2>1, <2>2
<1>4. found = {p}
  <2>1. p[1] = m /\ p[2] = i OBVIOUS
  <2> HIDE DEF p
  <2> QED BY <1>1, <1>2, <1>3, <2>1
<1>5. firsts = {p}
  <2>1. p[1] = m /\ p[2] = i OBVIOUS
  <2>2. i \in Nat
    <3>1. Size(m) \in Nat
      <4>1. Size(m) \in {1, 4, 5, 6, 7, 9} BY MenuSizes
      <4> QED BY ONLY <4>1
    <3>2. i \in 1..Size(m) BY <1>1
    <3> QED BY ONLY <3>1, <3>2
  <2> HIDE DEF found, p
  <2>3. i <= i BY ONLY <2>2
  <2> QED BY ONLY <1>4, <2>1, <2>3
<1>6. CmdForKey(k) = IF found = {} THEN "none" ELSE Cmd(one[1], one[2]) BY DEF CmdForKey
<1>7. one = p
  <2> HIDE DEF firsts, p
  <2>1. \E q \in firsts : TRUE BY <1>5
  <2>2. one \in firsts BY <2>1, Zenon
  <2> HIDE DEF one
  <2> QED BY <1>5, <2>2
<1> HIDE DEF one, found
<1> QED BY <1>4, <1>6, <1>7 DEF k

---------------------------------------------------------------------------
(* The desktop.  Beyond the property itself: the width rows were laid at is *)
(* that of the list as it stands unless it waits to be drawn; what a key    *)
(* selected fits the window; and a menu that is open highlights what can be *)
(* selected.                                                                *)
ListInv ==
  /\ out \in {"desk", "page"} /\ seated \in BOOLEAN /\ dirty \in BOOLEAN
  /\ first \in Nat /\ pfirst \in Nat /\ sel \in 0..Tests /\ geom.count \in Nat
  /\ fresh \in {"yes", "no", "clipped", "narrated"}
DrawnInv ==
  /\ fresh \in {"yes", "clipped"} => geom.w = WidthOf(kinds, first)
  /\ seated => fresh # "narrated" /\ (sel # 0 => Seats(kinds, first, sel))
  /\ fresh = "no" => at = "modal" \/ (dirty /\ at \in {"wheel", "key", "poll", "draw"})
RunInv ==
  /\ at \in {"follow", "result"} => cur \in 1..Tests /\ fresh = "yes"
  /\ at = "result" => seated /\ sel # 0
  /\ resume \in {"pointer", "wheel", "poll", "draw"}
PageInv ==
  out = "page" /\ open = 0 /\ sel # 0 /\ fresh = "yes" /\ (~dirty \/ at = "pointer") =>
    pfirst < sel /\ sel <= pfirst + PageLines
Highlighted(o, h) == h \in Selectables(o) \cup {0} /\ (Selectables(o) # {} => h # 0)
MenuInv ==
  /\ open \in 0..6 /\ (at = "modal" => open = 0)
  /\ open # 0 => Highlighted(open, hl)
DeskInv == ListInv /\ DrawnInv /\ RunInv /\ PageInv /\ MenuInv

(* A row can always be shown.                                               *)
LEMMA ShowingIsNat ==
  ASSUME first \in Nat, NEW i \in 1..Tests
  PROVE  FirstShowing(i) \in Nat
<1> USE DeskAssumption
<1>1. CASE i <= first BY <1>1 DEF FirstShowing
<1>2. CASE i > first
  <2> DEFINE fits == {f \in 0..(i - 1) : Height(kinds, (f + 1)..i, geom.w) <= Window}
             low == Min(fits)
  <2>1. i - 1 \in fits
    <3>1. ((i - 1) + 1)..i = {i} OBVIOUS
    <3> DEFINE h == Height(kinds, {i}, geom.w)
    <3>2. h \in Nat /\ h <= 3 BY OneRow
    <3> HIDE DEF h
    <3>3. h <= Window BY <3>2
    <3> QED BY <3>1, <3>3 DEF h
  <2>2. fits \in SUBSET Nat OBVIOUS
  <2>3. low \in Nat
    <3> HIDE DEF fits
    <3>1. fits # {} BY <2>1
    <3>2. Min(fits) \in fits BY <2>2, <3>1, LeastOf
    <3> QED BY <2>2, <3>2
  <2>4. FirstShowing(i) = Max({first, low}) BY <1>2 DEF FirstShowing
  <2> HIDE DEF low, fits
  <2> QED BY <2>3, <2>4, GreaterOf
<1> QED BY <1>1, <1>2

(* The first row but the first is seated when the list is at its top.       *)
LEMMA TopSeats == Seats(kinds, 0, 1)
<1> DEFINE h == Height(kinds, {1}, WidthOf(kinds, 0))
<1>1. h \in Nat /\ h <= 3 BY OneRow
<1>2. (0 + 1)..1 = {1} OBVIOUS
<1> HIDE DEF h
<1>3. h <= Window BY <1>1, DeskAssumption
<1> QED BY <1>2, <1>3 DEF Seats, h

(* The next row a run comes to.                                             *)
LEMMA FollowingIs ==
  ASSUME NEW i \in 0..Tests
  PROVE  Following(i) \in 0..Tests
<1> DEFINE next == {j \in (i + 1)..Tests : NotNa(j)}
<1> USE DeskAssumption
<1>1. CASE \E j \in (i + 1)..Tests : NotNa(j)
  <2>1. Following(i) = Min(next) BY <1>1 DEF Following
  <2>2. next # {} /\ next \in SUBSET Nat BY <1>1
  <2>3. next \in SUBSET (0..Tests) OBVIOUS
  <2> HIDE DEF next
  <2>4. Min(next) \in next BY <2>2, LeastOf
  <2> QED BY <2>1, <2>3, <2>4
<1>2. CASE ~ \E j \in (i + 1)..Tests : NotNa(j) BY <1>2 DEF Following
<1> QED BY <1>1, <1>2

(* The page's scroll: the selected row is on it.                            *)
LEMMA PageShows ==
  ASSUME NEW s \in 0..Tests, NEW f \in Nat
  PROVE  /\ PageFirst(s, f) \in Nat
         /\ s # 0 => PageFirst(s, f) < s /\ s <= PageFirst(s, f) + PageLines
<1> DEFINE a == IF s - 1 < f THEN (IF s = 0 THEN 0 ELSE s - 1) ELSE f
           b == IF s > a + PageLines THEN s - PageLines ELSE a
           c == Tests - PageLines
<1> USE DeskAssumption
<1>1. a \in Nat /\ (s # 0 => a < s) OBVIOUS
<1>2. b \in Nat /\ (s # 0 => b < s /\ s <= b + PageLines)
  <2> HIDE DEF a
  <2> QED BY <1>1
<1>3. PageFirst(s, f) = IF Tests < PageLines THEN 0 ELSE Min({b, c}) BY DEF PageFirst
<1> HIDE DEF a, b
<1>4. CASE Tests < PageLines BY <1>3, <1>4
<1>5. CASE ~(Tests < PageLines)
  <2>1. c \in Nat BY <1>5
  <2> DEFINE two == {b, c}
  <2>2. two \in SUBSET Nat /\ two # {} BY <1>2, <2>1
  <2> HIDE DEF two
  <2>3. Min(two) \in two /\ \A y \in two : Min(two) <= y BY <2>2, LeastOf
  <2>4. Min({b, c}) \in {b, c} /\ Min({b, c}) <= b BY <2>3 DEF two
  <2> QED BY <1>2, <1>3, <1>5, <2>1, <2>4
<1> QED BY <1>4, <1>5

---------------------------------------------------------------------------
(* What a redraw leaves.                                                    *)
LEMMA DrawnWhole ==
  ASSUME first' \in Nat, sel' \in 0..Tests, pfirst \in Nat, out' = out,
         geom' = Laid(kinds', first'),
         pfirst' = IF out = "page" /\ open' = 0 THEN PageFirst(sel', pfirst) ELSE pfirst
  PROVE  geom'.w = WidthOf(kinds', first') /\ geom'.count \in Nat /\ pfirst' \in Nat /\ PageInv'
<1>1. geom'.w = WidthOf(kinds', first') /\ geom'.count \in Nat BY LaidAt
<1>2. PageFirst(sel', pfirst) \in Nat
      /\ (sel' # 0 => PageFirst(sel', pfirst) < sel' /\ sel' <= PageFirst(sel', pfirst) + PageLines)
  BY PageShows
<1> QED BY <1>1, <1>2 DEF PageInv

(* What can be selected is a matter of the board in force.                  *)
LEMMA MenusKept ==
  ASSUME MenuInv, UNCHANGED desc, open' = 0 \/ (open' = open /\ hl' = hl), at' = "modal" => open' = 0
  PROVE  MenuInv'
<1>1. \A o : Selectables(o)' = Selectables(o) BY DEF Selectables, Selectable, Enabled
<1>2. \A o, h : Highlighted(o, h)' <=> Highlighted(o, h) BY <1>1 DEF Highlighted
<1> QED BY <1>2 DEF MenuInv

(* registry_prepare empties the details: what was seated still is.          *)
LEMMA PreparedSeats ==
  ASSUME ListInv, DrawnInv, UNCHANGED <<first, sel, seated>>, kinds' = [i \in 1..Tests |-> "plain"]
  PROVE  seated' => (sel' # 0 => Seats(kinds', first', sel'))
<1> SUFFICES ASSUME seated, sel # 0 PROVE Seats(kinds', first, sel) OBVIOUS
<1>1. first \in Nat /\ sel \in 1..Tests /\ Seats(kinds, first, sel) BY DeskAssumption DEF ListInv, DrawnInv
<1>2. \A i \in 1..Tests, w \in {"full", "bar"} : ~Wraps(kinds', i, w) BY DEF Wraps
<1> QED BY <1>1, <1>2, PlainSeats

(* A run of everything begins with an empty list, drawn.                    *)
LEMMA RunAllKeeps ==
  ASSUME DeskInv, NEW after \in {"pointer", "wheel", "poll", "draw"}, RunAll(after), UNCHANGED <<desc, out>>,
         open' = 0 \/ (open' = open /\ hl' = hl)
  PROVE  DeskInv'
<1>1. first \in Nat /\ sel \in 0..Tests /\ pfirst \in Nat BY DEF DeskInv, ListInv
<1>2. /\ UNCHANGED <<first, sel, seated>> /\ geom' = Laid(kinds', first') /\ fresh' = "yes" /\ dirty' = FALSE
      /\ pfirst' = IF out = "page" /\ open' = 0 THEN PageFirst(sel', pfirst) ELSE pfirst
      /\ kinds' = [i \in 1..Tests |-> "plain"]
  BY DEF RunAll, Draws
<1>3. geom'.w = WidthOf(kinds', first') /\ geom'.count \in Nat /\ pfirst' \in Nat /\ PageInv'
  BY <1>1, <1>2, DrawnWhole
<1>4. ListInv' BY <1>2, <1>3 DEF DeskInv, ListInv
<1>5. seated' => (sel' # 0 => Seats(kinds', first', sel')) BY <1>2, PreparedSeats DEF DeskInv
<1>6. DrawnInv' BY <1>2, <1>3, <1>5 DEF DrawnInv
<1>7. at' \in {"follow", after} /\ resume' \in {resume, after} /\ (at' = "follow" => cur' \in 1..Tests)
  <2>1. CASE desc.known /\ Following(0) # 0
    <3>1. at' = "follow" /\ cur' = Following(0) /\ resume' = after BY <2>1 DEF RunAll
    <3>2. Following(0) \in 0..Tests BY DeskAssumption, FollowingIs
    <3> QED BY <2>1, <3>1, <3>2, DeskAssumption
  <2>2. CASE ~(desc.known /\ Following(0) # 0) BY <2>2 DEF RunAll, Goes
  <2> QED BY <2>1, <2>2
<1>8. RunInv' BY <1>2, <1>7 DEF DeskInv, RunInv
<1>9. MenuInv' BY <1>7, MenusKept DEF DeskInv
<1> QED BY <1>3, <1>4, <1>6, <1>8, <1>9 DEF DeskInv

(* A run of the selected row gives up its place in the window.              *)
LEMMA RunSelectedKeeps ==
  ASSUME DeskInv, NEW after \in {"wheel", "poll"}, RunSelected(after), UNCHANGED <<desc, out>>, ClosesMenu
  PROVE  DeskInv'
<1>1. first \in Nat /\ sel \in 0..Tests /\ UNCHANGED <<first, sel, resume, cur, modal>> /\ at' = after /\ open' = 0
  BY DEF DeskInv, ListInv, RunSelected, Goes, ClosesMenu
<1>2. MenuInv' BY <1>1, MenusKept DEF DeskInv
<1>3. RunInv' BY <1>1 DEF DeskInv, RunInv
<1>4. CASE ~NotNa(sel)
  <2>1. kinds' = kinds /\ seated' = seated /\ Touched BY <1>4 DEF RunSelected
  <2>2. dirty' = TRUE /\ UNCHANGED <<geom, pfirst, fresh>> BY <2>1 DEF Touched
  <2>3. ListInv' /\ PageInv' BY <1>1, <2>1, <2>2 DEF DeskInv, ListInv, PageInv
  <2>4. DrawnInv' BY <1>1, <2>1, <2>2 DEF DeskInv, DrawnInv
  <2> QED BY <1>2, <1>3, <2>3, <2>4 DEF DeskInv
<1>5. CASE NotNa(sel)
  <2>1. seated' = FALSE BY <1>5 DEF RunSelected
  <2>2. CASE sel \in Narrating
    <3>1. /\ geom' = Laid([kinds EXCEPT ![sel] = "plain"], first)
          /\ fresh' = "narrated" /\ dirty' = (after = "wheel") /\ pfirst' = pfirst
      BY <1>5, <2>2 DEF RunSelected
    <3>2. geom'.count \in Nat BY <1>1, <3>1, LaidAt
    <3> QED BY <1>1, <1>2, <1>3, <2>1, <3>1, <3>2 DEF DeskInv, ListInv, PageInv, DrawnInv
  <2>3. CASE sel \notin Narrating
    <3>1. fresh' = "no" /\ UNCHANGED <<geom, pfirst>> /\ dirty' = TRUE
      BY <1>5, <2>3 DEF RunSelected, Unpainted
    <3> QED BY <1>1, <1>2, <1>3, <2>1, <3>1 DEF DeskInv, ListInv, PageInv, DrawnInv
  <2> QED BY <2>2, <2>3
<1> QED BY <1>4, <1>5

(* A dialog is drawn over the list as it stands.                            *)
LEMMA ModalKeeps ==
  ASSUME DeskInv, NEW c, NEW after \in {"wheel", "poll"}, Modal(c, after), UNCHANGED <<desc, out>>, ClosesMenu
  PROVE  DeskInv'
<1>1. /\ first \in Nat /\ sel \in 0..Tests /\ pfirst \in Nat /\ UNCHANGED <<kinds, first, sel, seated, cur>>
      /\ at' = "modal" /\ resume' = after /\ open' = 0
  BY DEF DeskInv, ListInv, Modal, list, ClosesMenu
<1>2. MenuInv' BY <1>1, MenusKept DEF DeskInv
<1>3. RunInv' BY <1>1 DEF RunInv
<1>4. CASE c = "testcard"
  <2>1. fresh' = "no" /\ UNCHANGED <<geom, pfirst, dirty>> BY <1>4 DEF Modal, Unpainted
  <2> QED BY <1>1, <1>2, <1>3, <2>1 DEF DeskInv, ListInv, PageInv, DrawnInv
<1>5. CASE c # "testcard"
  <2>1. /\ geom' = Laid(kinds', first') /\ fresh' = "yes" /\ dirty' = FALSE
        /\ pfirst' = IF out = "page" /\ open' = 0 THEN PageFirst(sel', pfirst) ELSE pfirst
    BY <1>5 DEF Modal, Draws
  <2>2. geom'.w = WidthOf(kinds', first') /\ geom'.count \in Nat /\ pfirst' \in Nat /\ PageInv'
    BY <1>1, <2>1, DrawnWhole
  <2>3. ListInv' /\ DrawnInv' BY <1>1, <2>1, <2>2 DEF DeskInv, ListInv, DrawnInv
  <2> QED BY <1>2, <1>3, <2>2, <2>3 DEF DeskInv
<1> QED BY <1>4, <1>5

(* A restart begins at the top.                                             *)
LEMMA BootsKeep ==
  ASSUME DeskInv, Boots, UNCHANGED <<desc, out>>, ClosesMenu
  PROVE  DeskInv'
<1>1. /\ first' = 0 /\ sel' = 0 /\ geom' = Laid(kinds', 0) /\ pfirst' = 0 /\ fresh' = "yes" /\ dirty' = TRUE
      /\ seated' = FALSE /\ at' = "tests" /\ resume' = "pointer" /\ cur' = 0 /\ open' = 0
  BY DEF Boots, ClosesMenu
<1>2. geom'.w = WidthOf(kinds', 0) /\ geom'.count \in Nat BY <1>1, LaidAt
<1>3. MenuInv' BY <1>1, MenusKept DEF DeskInv
<1>4. ListInv'
  <2>1. 0 \in 0..Tests BY DeskAssumption
  <2> QED BY <1>1, <1>2, <2>1 DEF DeskInv, ListInv
<1>6. DrawnInv'
  <2>1. first' = 0 /\ geom'.w = WidthOf(kinds', first') BY <1>1, <1>2
  <2> QED BY <1>1, <2>1 DEF DrawnInv
<1>5. RunInv' /\ PageInv' BY <1>1 DEF RunInv, PageInv
<1> QED BY <1>3, <1>4, <1>5, <1>6 DEF DeskInv

(* A command, whichever way it was chosen.                                  *)
LEMMA DoKeeps ==
  ASSUME DeskInv, NEW c, NEW after \in {"wheel", "poll"}, Do(c, after), UNCHANGED <<desc, out>>, ClosesMenu
  PROVE  DeskInv'
<1>1. CASE RunAll(after)
  <2>1. open' = 0 BY DEF ClosesMenu
  <2> QED BY <1>1, <2>1, RunAllKeeps
<1>2. CASE RunSelected(after) BY <1>2, RunSelectedKeeps
<1>3. CASE Modal(c, after) BY <1>3, ModalKeeps
<1>4. CASE Boots BY <1>4, BootsKeep
<1>5. CASE Touched /\ Goes(after) /\ UNCHANGED <<list, seated>>
  <2>1. /\ dirty' = TRUE /\ UNCHANGED <<geom, pfirst, fresh, kinds, first, sel, seated, resume, cur, modal>>
        /\ at' = after /\ open' = 0
    BY <1>5 DEF Touched, Goes, list, ClosesMenu
  <2>2. MenuInv' BY <2>1, MenusKept DEF DeskInv
  <2>3. RunInv' /\ PageInv' BY <2>1 DEF DeskInv, RunInv, PageInv
  <2>4. ListInv' /\ DrawnInv' BY <2>1 DEF DeskInv, ListInv, DrawnInv
  <2> QED BY <2>2, <2>3, <2>4 DEF DeskInv
<1> QED BY <1>1, <1>2, <1>3, <1>4, <1>5 DEF Do

---------------------------------------------------------------------------
(* What only sets the flag, and what only scrolls or selects.               *)
LEMMA TouchedKeeps ==
  ASSUME DeskInv, UNCHANGED <<desc, out, kinds, first, sel, seated, geom, pfirst, fresh, resume, cur>>,
         dirty' = TRUE, at' \in {"wheel", "poll"}, MenuInv'
  PROVE  DeskInv'
<1>1. ListInv' BY DEF DeskInv, ListInv
<1>2. DrawnInv' BY DEF DeskInv, DrawnInv
<1>3. RunInv' /\ PageInv' BY DEF DeskInv, RunInv, PageInv
<1> QED BY <1>1, <1>2, <1>3 DEF DeskInv

(* What leaves the screen behind sets the flag.                             *)
LEMMA UnpaintedKeeps ==
  ASSUME DeskInv, UNCHANGED <<desc, out, open, hl, kinds, resume, cur, geom, pfirst>>, fresh' = "no", dirty' = TRUE,
         at' \in {"wheel", "key", "poll"}, first' \in Nat, sel' \in 0..Tests, seated' \in BOOLEAN,
         seated' => (sel' # 0 => Seats(kinds, first', sel'))
  PROVE  DeskInv'
<1>1. ListInv' BY DEF DeskInv, ListInv
<1>2. DrawnInv' BY DEF DrawnInv
<1>3. RunInv' /\ PageInv' BY DEF DeskInv, RunInv, PageInv
<1>4. MenuInv' BY MenusKept DEF DeskInv
<1> QED BY <1>1, <1>2, <1>3, <1>4 DEF DeskInv

(* A scroll by hand seats nothing.                                          *)
LEMMA ScrollsKeeps ==
  ASSUME DeskInv, NEW f \in Nat, Scrolls(f), Unpainted, dirty' = TRUE, at' \in {"wheel", "key"},
         UNCHANGED <<desc, out, open, hl, resume, cur>>
  PROVE  DeskInv'
<1>1. /\ first' = f /\ kinds' = kinds /\ sel' = sel /\ seated' = (seated /\ f = first)
      /\ fresh' = "no" /\ UNCHANGED <<geom, pfirst>>
  BY DEF Scrolls, Unpainted
<1>2. sel \in 0..Tests /\ seated \in BOOLEAN /\ (seated => (sel # 0 => Seats(kinds, first, sel)))
  BY DEF DeskInv, ListInv, DrawnInv
<1>3. seated' \in BOOLEAN /\ (seated' => (sel' # 0 => Seats(kinds, first', sel')))
  BY <1>1, <1>2
<1> QED BY <1>1, <1>2, <1>3, UnpaintedKeeps

(* An opened menu highlights its first.                                     *)
LEMMA FirstHighlighted ==
  ASSUME NEW o \in 1..6, UNCHANGED desc
  PROVE  Highlighted(o, FirstSelectable(o))' /\ Highlighted(o, FirstSelectable(o))
<1>1. Selectables(o)' = Selectables(o) BY DEF Selectables, Selectable, Enabled
<1>2. Selectables(o) \in SUBSET Nat /\ 0 \notin Selectables(o)
  <2>1. Selectables(o) \in SUBSET (1..Size(o)) /\ Size(o) \in {1, 4, 5, 6, 7, 9} BY MenuSizes DEF Selectables
  <2> QED BY <2>1
<1>3. FirstSelectable(o)' = FirstSelectable(o) BY <1>1 DEF FirstSelectable
<1>4. FirstSelectable(o) = IF Selectables(o) = {} THEN 0 ELSE Min(Selectables(o)) BY DEF FirstSelectable
<1>5. Highlighted(o, FirstSelectable(o))
  <2> DEFINE some == Selectables(o)
  <2> HIDE DEF some
  <2>1. some # {} => Min(some) \in some BY <1>2, LeastOf DEF some
  <2> QED BY <1>2, <1>4, <2>1 DEF Highlighted, some
<1> QED BY <1>1, <1>3, <1>5 DEF Highlighted

(* An open menu and its highlight are a matter of the board alone.          *)
LEMMA HighlightedIs ==
  ASSUME UNCHANGED desc, open' \in 0..6, open' # 0 => Highlighted(open', hl'), at' # "modal"
  PROVE  MenuInv'
<1>1. \A o : Selectables(o)' = Selectables(o) BY DEF Selectables, Selectable, Enabled
<1>2. \A o, h : Highlighted(o, h)' <=> Highlighted(o, h) BY <1>1 DEF Highlighted
<1>3. Highlighted(open', hl') => Highlighted(open, hl)'
  <2>1. Selectables(open)' = Selectables(open') BY DEF Selectables, Selectable, Enabled
  <2> QED BY <2>1 DEF Highlighted
<1> QED BY <1>3 DEF MenuInv

---------------------------------------------------------------------------
(* The pointer's steps.                                                     *)
LEMMA NothingKeeps ==
  ASSUME DeskInv, UNCHANGED <<desc, out, list, drawn, open, hl, seated, resume, cur>>,
         at = "pointer" => at' \in {"wheel", "key"}, at = "wheel" => at' = "key", at = "key" => at' = "poll",
         at \in {"pointer", "wheel", "key"}
  PROVE  DeskInv'
<1>1. UNCHANGED <<kinds, first, sel, geom, pfirst, fresh, dirty>> BY DEF list, drawn
<1>2. ListInv' BY <1>1 DEF DeskInv, ListInv
<1>3. DrawnInv' BY <1>1 DEF DeskInv, DrawnInv
<1>4. RunInv' /\ PageInv' BY <1>1 DEF DeskInv, RunInv, PageInv
<1>5. at' # "modal" OBVIOUS
<1>6. MenuInv' BY <1>5, MenusKept DEF DeskInv
<1> QED BY <1>2, <1>3, <1>4, <1>6 DEF DeskInv

(* A pointer over an item highlights it.                                    *)
LEMMA HoverKeeps == ASSUME DeskInv, Hover PROVE DeskInv'
<1>1. /\ UNCHANGED <<desc, out, kinds, first, sel, seated, geom, pfirst, fresh, resume, cur, open>>
      /\ dirty' = TRUE /\ at' = "wheel"
  BY DEF Hover, Pointed, Goes, Touched, list
<1>2. open \in 0..6 /\ (open # 0 => Highlighted(open, hl)) BY DEF DeskInv, MenuInv
<1>3. open # 0 => Highlighted(open, hl')
  <2>1. CASE open # 0 /\ hl' \in Selectables(open)
    <3>1. hl' # 0
      <4>1. Selectables(open) \in SUBSET (1..Size(open)) /\ Size(open) \in {1, 4, 5, 6, 7, 9}
        BY <1>2, <2>1, MenuSizes DEF Selectables
      <4> QED BY <2>1, <4>1
    <3> QED BY <2>1, <3>1 DEF Highlighted
  <2>2. CASE hl' = hl BY <1>2, <2>2
  <2> QED BY <2>1, <2>2 DEF Hover
<1>4. MenuInv' BY <1>1, <1>2, <1>3, HighlightedIs
<1> QED BY <1>1, <1>4, TouchedKeeps

(* A title opens its menu, or closes it.                                    *)
LEMMA ToggledIs ==
  ASSUME DeskInv, NEW m \in DOMAIN Menus, Toggled(m), UNCHANGED desc, at' # "modal"
  PROVE  MenuInv'
<1>1. m \in 1..6 BY MenuSizes
<1>2. Highlighted(m, FirstSelectable(m)) BY <1>1, FirstHighlighted
<1>3. CASE m = open
  <2>1. open' = 0 BY <1>3 DEF Toggled
  <2> QED BY <2>1, HighlightedIs
<1>4. CASE m # open
  <2>1. open' = m /\ hl' = FirstSelectable(m) BY <1>4 DEF Toggled
  <2> QED BY <1>1, <1>2, <2>1, HighlightedIs
<1> QED BY <1>3, <1>4

(* By a press on it...                                                      *)
LEMMA PressTitleKeeps == ASSUME DeskInv, NEW m \in DOMAIN Menus, PressTitle(m) PROVE DeskInv'
<1>1. /\ UNCHANGED <<desc, out, kinds, first, sel, seated, geom, pfirst, fresh, resume, cur>>
      /\ dirty' = TRUE /\ at' = "wheel" /\ Toggled(m)
  BY DEF PressTitle, Pointed, Goes, Touched, list
<1>2. MenuInv' BY <1>1, ToggledIs
<1> QED BY <1>1, <1>2, TouchedKeeps

(* A press on an item does its command.                                     *)
LEMMA PressItemKeeps == ASSUME DeskInv, NEW i \in 1..9, PressItem(i) PROVE DeskInv'
<1>1. UNCHANGED <<desc, out>> /\ ClosesMenu /\ Do(Cmd(open, i), "wheel") BY DEF PressItem, Pointed
<1> DEFINE c == Cmd(open, i)
<1>2. Do(c, "wheel") BY <1>1
<1> HIDE DEF c
<1> QED BY <1>1, <1>2, DoKeeps

(* A press elsewhere closes the menu.                                       *)
LEMMA PressAwayKeeps == ASSUME DeskInv, PressAway PROVE DeskInv'
<1>1. /\ UNCHANGED <<desc, out, kinds, first, sel, seated, geom, pfirst, fresh, resume, cur>>
      /\ dirty' = TRUE /\ at' = "wheel" /\ open' = 0
  BY DEF PressAway, Pointed, Goes, Touched, list, ClosesMenu
<1>2. MenuInv' BY <1>1, MenusKept DEF DeskInv
<1> QED BY <1>1, <1>2, TouchedKeeps

(* Where the bar and the wheel may scroll to.                               *)
LEMMA ClampedIs ==
  ASSUME ListInv, NEW f \in Nat
  PROVE  Clamped(f) \in Nat
<1>1. MaxFirst \in Nat BY DeskAssumption DEF ListInv, MaxFirst
<1> QED BY <1>1 DEF Clamped

(* Nor does the bar go above the first row.                                 *)
LEMMA BarTargetsAre == ASSUME ListInv PROVE BarTargets \subseteq Nat
<1> SUFFICES ASSUME NEW f \in BarTargets PROVE f \in Nat OBVIOUS
<1>1. PICK g \in 0..MaxFirst \cup {first + 1} \cup ({first - 1} \cap Nat) : f = Clamped(g) BY DEF BarTargets
<1>2. first \in Nat /\ MaxFirst \in Nat BY DeskAssumption DEF ListInv, MaxFirst
<1>3. g \in Nat BY <1>1, <1>2
<1> QED BY <1>1, <1>3, ClampedIs

(* A press on the bar, or a drag of its thumb.                              *)
LEMMA PressBarKeeps == ASSUME DeskInv, NEW f \in BarTargets, PressBar(f) \/ Drag(f) PROVE DeskInv'
<1>1. f \in Nat BY BarTargetsAre DEF DeskInv
<1>2. /\ Scrolls(f) /\ Unpainted /\ dirty' = TRUE /\ at' = "wheel"
      /\ UNCHANGED <<desc, out, open, hl, resume, cur>>
  BY DEF PressBar, Drag, Pointed, Goes
<1> QED BY <1>1, <1>2, ScrollsKeeps

(* A press on a row selects it where it stands.                             *)
LEMMA PressRowKeeps == ASSUME DeskInv, NEW k \in 1..geom.count, PressRow(k) PROVE DeskInv'
<1>1. first \in Nat /\ geom.count \in Nat BY DEF DeskInv, ListInv
<1>2. /\ first + k <= Tests /\ sel' = first + k /\ seated' = FALSE /\ fresh' = "no" /\ dirty' = TRUE /\ at' = "wheel"
      /\ UNCHANGED <<desc, out, open, hl, kinds, first, resume, cur, geom, pfirst>>
  BY DEF PressRow, Pointed, Goes, Unpainted
<1>3. sel' \in 0..Tests
  <2>1. k \in Nat /\ first + k \in Nat /\ first + k <= Tests BY <1>1, <1>2
  <2> QED BY <1>2, <2>1, DeskAssumption
<1>4. first' \in Nat /\ at' \in {"wheel", "key", "poll"} /\ seated' \in BOOLEAN BY <1>1, <1>2
<1> QED BY <1>2, <1>3, <1>4, UnpaintedKeeps

(* The wheel scrolls, or nothing was turned.                                *)
LEMMA WheelKeeps == ASSUME DeskInv, Wheel PROVE DeskInv'
<1>1. at = "wheel" /\ at' = "key" /\ UNCHANGED <<desc, out, open, hl, resume, cur>> BY DEF Wheel, Goes
<1>2. CASE UNCHANGED <<list, drawn, seated>> BY <1>1, <1>2, NothingKeeps
<1>3. CASE \E f \in {Clamped(first + 1), Clamped(first), IF first = 0 THEN 0 ELSE Clamped(first - 1)} :
             Scrolls(f) /\ Unpainted /\ dirty' = TRUE
  <2>1. PICK f \in {Clamped(first + 1), Clamped(first), IF first = 0 THEN 0 ELSE Clamped(first - 1)} :
          Scrolls(f) /\ Unpainted /\ dirty' = TRUE
    BY <1>3
  <2>2. first \in Nat /\ first + 1 \in Nat /\ (first # 0 => first - 1 \in Nat) BY DEF DeskInv, ListInv
  <2>3. f \in Nat BY <2>1, <2>2, ClampedIs DEF DeskInv
  <2> QED BY <1>1, <2>1, <2>3, ScrollsKeeps
<1> QED BY <1>2, <1>3 DEF Wheel

---------------------------------------------------------------------------
(* The keyboard's.                                                          *)
LEMMA F1Keeps == ASSUME DeskInv, F1 PROVE DeskInv'
<1>1. UNCHANGED <<desc, out>> /\ ClosesMenu /\ Do("help", "poll") BY DEF F1, Typed
<1> QED BY <1>1, DoKeeps

(* A key that moves about the menus draws them.                             *)
LEMMA MenuKeyKeeps ==
  ASSUME DeskInv, Typed, MenuKey, MenuInv'
  PROVE  DeskInv'
<1>1. /\ UNCHANGED <<desc, out, kinds, first, sel, seated, geom, pfirst, fresh, resume, cur>>
      /\ dirty' = TRUE /\ at' = "poll"
  BY DEF Typed, MenuKey, Goes, list
<1> QED BY <1>1, TouchedKeeps

(* ...or by its letter.                                                     *)
LEMMA AltLetterKeeps == ASSUME DeskInv, NEW m \in DOMAIN Menus, AltLetter(m) PROVE DeskInv'
<1>1. Typed /\ Toggled(m) /\ MenuKey /\ UNCHANGED desc /\ at' # "modal" BY DEF AltLetter, Typed, MenuKey, Goes
<1>2. MenuInv' BY <1>1, ToggledIs
<1> QED BY <1>1, <1>2, MenuKeyKeeps

(* Esc closes the menu.                                                     *)
LEMMA MenuEscKeeps == ASSUME DeskInv, MenuEsc PROVE DeskInv'
<1>1. Typed /\ MenuKey /\ UNCHANGED desc /\ at' # "modal" /\ open' = 0
  BY DEF MenuEsc, Typed, MenuKey, Goes, ClosesMenu
<1>2. MenuInv' BY <1>1, HighlightedIs
<1> QED BY <1>1, <1>2, MenuKeyKeeps

(* Up and Down move the highlight.                                          *)
LEMMA MenuUpDownKeeps == ASSUME DeskInv, NEW u \in BOOLEAN, MenuUpDown(u) PROVE DeskInv'
<1>1. /\ Typed /\ MenuKey /\ UNCHANGED desc /\ at' # "modal" /\ open' = open /\ open # 0
      /\ hl' = Step(open, hl, u)
  BY DEF MenuUpDown, Typed, MenuKey, Goes
<1>2. open \in 1..6 /\ Highlighted(open, hl) BY <1>1 DEF DeskInv, MenuInv
<1>3. Selectables(open) \in SUBSET (1..Size(open)) /\ Size(open) \in {1, 4, 5, 6, 7, 9}
  BY <1>2, MenuSizes DEF Selectables
<1>4. hl \in 0..Size(open)
  <2>1. 0 \in 0..Size(open) BY <1>3
  <2>2. \A x \in 1..Size(open) : x \in 0..Size(open) BY <1>3
  <2> QED BY <1>2, <1>3, <2>1, <2>2 DEF Highlighted
<1>5. /\ Selectables(open) # {} => hl' \in Selectables(open)
      /\ Selectables(open) = {} => hl' = 0
  BY <1>1, <1>2, <1>4, StepLands
<1>6. Highlighted(open, hl')
  <2>1. 0 \notin Selectables(open) BY <1>3
  <2> QED BY <1>5, <2>1 DEF Highlighted
<1>7. MenuInv' BY <1>1, <1>2, <1>6, HighlightedIs
<1> QED BY <1>1, <1>7, MenuKeyKeeps

(* Left and Right open the next menu.                                       *)
LEMMA MenuSidewaysKeeps == ASSUME DeskInv, NEW d \in {1, Len(Menus) - 1}, MenuSideways(d) PROVE DeskInv'
<1>1. /\ Typed /\ MenuKey /\ UNCHANGED desc /\ at' # "modal" /\ open # 0
      /\ open' = ((open - 1 + d) % Len(Menus)) + 1 /\ hl' = FirstSelectable(open')
  BY DEF MenuSideways, Typed, MenuKey, Goes
<1>2. open \in 1..6 BY <1>1 DEF DeskInv, MenuInv
<1>3. Len(Menus) = 6 BY MenuSizes
<1>4. d \in {1, 5} BY <1>3
<1>5. open' \in 1..6 BY <1>1, <1>2, <1>3, <1>4
<1>6. Highlighted(open', hl') BY <1>1, <1>5, FirstHighlighted
<1>7. MenuInv' BY <1>1, <1>5, <1>6, HighlightedIs
<1> QED BY <1>1, <1>7, MenuKeyKeeps

(* Enter does the command of the highlighted item.                          *)
LEMMA MenuEnterKeeps == ASSUME DeskInv, MenuEnter PROVE DeskInv'
<1> DEFINE c == CurrentCmd
<1>1. UNCHANGED <<desc, out>> /\ ClosesMenu /\ Do(c, "poll") BY DEF MenuEnter, Typed
<1> HIDE DEF c
<1> QED BY <1>1, DoKeeps

(* A bare letter does the command of the item with that key.                *)
LEMMA LetterKeeps == ASSUME DeskInv, NEW k \in Letters, Letter(k) PROVE DeskInv'
<1> DEFINE c == CmdForKey(k)
<1>1. UNCHANGED <<desc, out>> BY DEF Letter, Typed
<1>2. CASE c = "none"
  <2>1. /\ UNCHANGED <<desc, out, kinds, first, sel, seated, geom, pfirst, fresh, resume, cur, open, hl>>
        /\ dirty' = TRUE /\ at' = "poll"
    BY <1>1, <1>2 DEF Letter, Goes, Touched, list
  <2>2. MenuInv' BY <2>1, MenusKept DEF DeskInv
  <2> QED BY <2>1, <2>2, TouchedKeeps
<1>3. CASE c # "none"
  <2>1. ClosesMenu /\ Do(c, "poll") BY <1>3 DEF Letter
  <2> HIDE DEF c
  <2> QED BY <1>1, <2>1, DoKeeps
<1> QED BY <1>2, <1>3

(* What the keyboard selects is seated at the width it was worked out at,   *)
(* if that is the width rows are laid at.                                   *)
LEMMA SelectsSeats ==
  ASSUME DeskInv, NEW i \in 1..Tests, Selects(i)
  PROVE  seated' => Seats(kinds, first', sel')
<1>1. sel' = i /\ first' = FirstShowing(i) /\ seated' = (fresh \in {"yes", "clipped"}) BY DEF Selects
<1>2. CASE fresh \in {"yes", "clipped"}
  <2>1. geom.w = WidthOf(kinds, first) /\ first \in Nat BY <1>2 DEF DeskInv, DrawnInv, ListInv
  <2>2. Seats(kinds, FirstShowing(i), i) BY <2>1, ShowingSeats
  <2> QED BY <1>1, <2>2
<1>3. CASE fresh \notin {"yes", "clipped"}
  <2>1. ~seated' BY <1>1, <1>3
  <2> QED BY <2>1
<1> QED BY <1>2, <1>3

(* The keys that move the selection.                                        *)
LEMMA ListKeyKeeps == ASSUME DeskInv, ListKey PROVE DeskInv'
<1>1. PICK i \in {Moved(d, n) : d \in BOOLEAN, n \in {1, Shown}} \cup {1, Tests} : Selects(i) BY DEF ListKey
<1>2. first \in Nat /\ sel \in 0..Tests /\ geom.count \in Nat BY DEF DeskInv, ListInv
<1>3. i \in 1..Tests
  <2>1. Shown \in Nat /\ Shown >= 1 BY <1>2 DEF Shown
  <2>2. \A n \in {1, Shown} : n \in Nat /\ n >= 1 BY <2>1
  <2>3. ASSUME NEW d \in BOOLEAN, NEW n \in {1, Shown} PROVE Moved(d, n) \in 1..Tests
    BY <1>2, <2>2, DeskAssumption DEF Moved
  <2>4. 1 \in 1..Tests /\ Tests \in 1..Tests BY DeskAssumption
  <2>5. CASE i \notin {1, Tests}
    <3>1. PICK d \in BOOLEAN, n \in {1, Shown} : i = Moved(d, n) BY <1>1, <2>5
    <3> QED BY <2>3, <3>1
  <2> QED BY <2>4, <2>5
<1>4. /\ UNCHANGED <<desc, out, open, hl, kinds, resume, cur, geom, pfirst>> /\ at' = "poll"
      /\ sel' = i /\ first' = FirstShowing(i) /\ seated' = (fresh \in {"yes", "clipped"})
      /\ fresh' = "no" /\ dirty' = TRUE
  BY <1>1 DEF ListKey, Typed, Selects, Goes, Unpainted
<1>5. first' \in Nat BY <1>2, <1>3, <1>4, ShowingIsNat
<1>6. seated' => Seats(kinds, first', sel') BY <1>1, <1>3, SelectsSeats
<1>7. sel' \in 0..Tests BY <1>3, <1>4, DeskAssumption
<1>8. seated' \in BOOLEAN BY <1>4
<1> QED BY <1>4, <1>5, <1>6, <1>7, <1>8, UnpaintedKeeps

(* Enter runs the selected row.                                             *)
LEMMA ListEnterKeeps == ASSUME DeskInv, ListEnter PROVE DeskInv'
<1>1. UNCHANGED <<desc, out>> /\ ClosesMenu /\ Do("run_selected", "poll") BY DEF ListEnter, Typed
<1> QED BY <1>1, DoKeeps

(* Esc gives up the selection.                                              *)
LEMMA ListEscKeeps == ASSUME DeskInv, ListEsc PROVE DeskInv'
<1>1. /\ UNCHANGED <<desc, out, open, hl, kinds, first, seated, resume, cur, geom, pfirst>> /\ at' = "poll"
      /\ sel' = 0 /\ fresh' = "no" /\ dirty' = TRUE
  BY DEF ListEsc, Typed, Goes, Unpainted
<1>2. first \in Nat /\ seated \in BOOLEAN /\ 0 \in 0..Tests BY DeskAssumption DEF DeskInv, ListInv
<1> QED BY <1>1, <1>2, UnpaintedKeeps

---------------------------------------------------------------------------
(* The poll and the draw, the run and what has the keyboard.                *)
LEMMA BootRunKeeps == ASSUME DeskInv, BootRun \/ Poll PROVE DeskInv'
<1>1. /\ UNCHANGED <<desc, out>> /\ open' = open /\ hl' = hl
      /\ RunAll("pointer") \/ RunAll("draw")
  BY DEF BootRun, Poll
<1> QED BY <1>1, RunAllKeeps

(* The draw at the end of a pass, of everything or of the menus.            *)
LEMMA DrawKeeps == ASSUME DeskInv, DrawIfDirty PROVE DeskInv'
<1>1. /\ UNCHANGED <<desc, out, kinds, first, sel, open, hl, seated, resume, cur>> /\ at' = "pointer"
      /\ at \in {"poll", "draw"}
  BY DEF DrawIfDirty, Goes, list
<1>2. MenuInv' BY <1>1, MenusKept DEF DeskInv
<1>3. RunInv' BY <1>1 DEF DeskInv, RunInv
<1>4. first \in Nat /\ sel \in 0..Tests /\ pfirst \in Nat BY DEF DeskInv, ListInv
<1>5. CASE ~dirty
  <2>1. UNCHANGED <<geom, pfirst, fresh, dirty>> BY <1>5 DEF DrawIfDirty, drawn
  <2>2. ListInv' BY <1>1, <2>1 DEF DeskInv, ListInv
  <2>3. DrawnInv' BY <1>1, <1>5, <2>1 DEF DeskInv, DrawnInv
  <2>4. PageInv' BY <1>1, <1>5, <2>1 DEF DeskInv, PageInv
  <2> QED BY <1>2, <1>3, <2>2, <2>3, <2>4 DEF DeskInv
<1>6. CASE dirty
  <2>1. /\ geom' = Laid(kinds, first) /\ dirty' = FALSE
        /\ fresh' \in {"yes", "clipped", fresh} /\ fresh' # "no"
        /\ pfirst' = IF out = "page" /\ open = 0 THEN PageFirst(sel, pfirst) ELSE pfirst
    <3>1. CASE menuOnly
      <4>1. DrawsMenus BY <1>6, <3>1 DEF DrawIfDirty
      <4> QED BY <4>1 DEF DrawsMenus
    <3>2. CASE ~menuOnly BY <1>6, <3>2 DEF DrawIfDirty
    <3> QED BY <3>1, <3>2
  <2>2. geom' = Laid(kinds', first')
        /\ pfirst' = IF out = "page" /\ open' = 0 THEN PageFirst(sel', pfirst) ELSE pfirst
    BY <1>1, <2>1
  <2>3. geom'.w = WidthOf(kinds', first') /\ geom'.count \in Nat /\ pfirst' \in Nat /\ PageInv'
    BY <1>1, <1>4, <2>2, DrawnWhole
  <2>4. ListInv' BY <1>1, <2>1, <2>3 DEF DeskInv, ListInv
  <2>5. DrawnInv' BY <1>1, <2>1, <2>3 DEF DeskInv, DrawnInv
  <2> QED BY <1>2, <1>3, <2>3, <2>4, <2>5 DEF DeskInv
<1> QED BY <1>5, <1>6

(* A run goes to its next row: it is drawn whole.                           *)
LEMMA FollowKeeps == ASSUME DeskInv, Follow PROVE DeskInv'
<1>1. /\ UNCHANGED <<desc, out, kinds, open, hl, resume, cur>> /\ at = "follow" /\ at' = "result"
      /\ sel' = cur /\ first' = FirstShowing(cur) /\ seated' = TRUE
      /\ geom' = Laid(kinds', first') /\ fresh' = "yes" /\ dirty' = FALSE
      /\ pfirst' = IF out = "page" /\ open' = 0 THEN PageFirst(sel', pfirst) ELSE pfirst
  BY DEF Follow, Goes, Draws
<1>2. /\ first \in Nat /\ sel \in 0..Tests /\ pfirst \in Nat /\ cur \in 1..Tests /\ fresh = "yes"
      /\ geom.w = WidthOf(kinds, first)
  BY <1>1 DEF DeskInv, ListInv, RunInv, DrawnInv
<1>3. first' \in Nat /\ Seats(kinds', first', sel') BY <1>1, <1>2, ShowingSeats
<1>4. sel' \in 0..Tests /\ sel' # 0 BY <1>1, <1>2, DeskAssumption
<1>5. geom'.w = WidthOf(kinds', first') /\ geom'.count \in Nat /\ pfirst' \in Nat /\ PageInv'
  BY <1>1, <1>2, <1>3, <1>4, DrawnWhole
<1>6. MenuInv' BY <1>1, MenusKept DEF DeskInv
<1>7. RunInv' BY <1>1, <1>2, <1>4 DEF DeskInv, RunInv
<1>8. ListInv' BY <1>1, <1>3, <1>4, <1>5 DEF DeskInv, ListInv
<1>9. DrawnInv' BY <1>1, <1>3, <1>5 DEF DrawnInv
<1> QED BY <1>5, <1>6, <1>7, <1>8, <1>9 DEF DeskInv

(* Its result is drawn, and the next row looked for.                        *)
LEMMA ResultKeeps == ASSUME DeskInv, Result PROVE DeskInv'
<1>1. /\ UNCHANGED <<desc, out, first, sel, open, hl, resume>> /\ at = "result"
      /\ seated' = FALSE /\ cur' = Following(cur) /\ at' = (IF cur' = 0 THEN "finish" ELSE "follow")
      /\ geom' = Laid(kinds', first') /\ fresh' = "yes" /\ dirty' = FALSE
      /\ pfirst' = IF out = "page" /\ open' = 0 THEN PageFirst(sel', pfirst) ELSE pfirst
  BY DEF Result, Draws
<1>2. first \in Nat /\ sel \in 0..Tests /\ pfirst \in Nat /\ cur \in 1..Tests
  BY <1>1 DEF DeskInv, ListInv, RunInv
<1>3. geom'.w = WidthOf(kinds', first') /\ geom'.count \in Nat /\ pfirst' \in Nat /\ PageInv'
  BY <1>1, <1>2, DrawnWhole
<1>4. cur' \in 0..Tests
  <2>1. cur \in 0..Tests BY <1>2, DeskAssumption
  <2> QED BY <1>1, <2>1, FollowingIs
<1>5. at' \in {"finish", "follow"} /\ (at' = "follow" => cur' \in 1..Tests) BY <1>1, <1>4, DeskAssumption
<1>6. MenuInv' BY <1>1, <1>5, MenusKept DEF DeskInv
<1>7. RunInv' BY <1>1, <1>5 DEF DeskInv, RunInv
<1>8. ListInv' BY <1>1, <1>3 DEF DeskInv, ListInv
<1>9. DrawnInv' BY <1>1, <1>3 DEF DrawnInv
<1> QED BY <1>3, <1>6, <1>7, <1>8, <1>9 DEF DeskInv

(* What had the keyboard gives it back, and the list is drawn.              *)
LEMMA ReturnedKeeps ==
  ASSUME DeskInv, Returned, DrawsBack, UNCHANGED <<out, open, hl>>, MenuInv',
         first' \in Nat, sel' \in 0..Tests, seated' \in BOOLEAN,
         seated' => (sel' # 0 => Seats(kinds', first', sel'))
  PROVE  DeskInv'
<1>1. /\ geom' = Laid(kinds', first') /\ fresh' = "yes" /\ dirty' = (resume = "wheel")
      /\ pfirst' = IF out = "page" /\ open' = 0 THEN PageFirst(sel', pfirst) ELSE pfirst
      /\ at' = resume /\ resume' = "pointer"
  BY DEF DrawsBack, Returned
<1>2. pfirst \in Nat /\ resume \in {"pointer", "wheel", "poll", "draw"} BY DEF DeskInv, ListInv, RunInv
<1>3. geom'.w = WidthOf(kinds', first') /\ geom'.count \in Nat /\ pfirst' \in Nat /\ PageInv'
  BY <1>1, <1>2, DrawnWhole
<1>4. RunInv' BY <1>1, <1>2 DEF RunInv
<1>5. ListInv' BY <1>1, <1>3 DEF DeskInv, ListInv
<1>6. DrawnInv' BY <1>1, <1>3 DEF DrawnInv
<1> QED BY <1>3, <1>4, <1>5, <1>6 DEF DeskInv

(* A run ends at the top of the list.                                       *)
LEMMA FinishKeeps == ASSUME DeskInv, Finish PROVE DeskInv'
<1>1. /\ Returned /\ DrawsBack /\ UNCHANGED <<desc, out, open, hl, kinds>>
      /\ sel' = 1 /\ first' = 0 /\ seated' = TRUE /\ at' = resume
  BY DEF Finish, Returned
<1>2. MenuInv' BY <1>1, MenusKept DEF DeskInv, RunInv
<1>3. Seats(kinds', first', sel') BY <1>1, TopSeats
<1>4. first' \in Nat /\ sel' \in 0..Tests /\ seated' \in BOOLEAN BY <1>1, DeskAssumption
<1> QED BY <1>1, <1>2, <1>3, <1>4, ReturnedKeeps

(* A dialog closes.                                                         *)
LEMMA CloseModalKeeps == ASSUME DeskInv, CloseModal PROVE DeskInv'
<1>1. /\ Returned /\ DrawsBack /\ UNCHANGED <<desc, out, open, hl, first, sel>> /\ at' = resume
      /\ seated' = FALSE \/ UNCHANGED <<kinds, seated>>
  BY DEF CloseModal, Returned
<1>2. MenuInv' BY <1>1, MenusKept DEF DeskInv, RunInv
<1>3. first' \in Nat /\ sel' \in 0..Tests /\ seated' \in BOOLEAN BY <1>1 DEF DeskInv, ListInv
<1>4. seated' => (sel' # 0 => Seats(kinds', first', sel')) BY <1>1 DEF DeskInv, DrawnInv
<1> QED BY <1>1, <1>2, <1>3, <1>4, ReturnedKeeps

(* The operator names the board.                                            *)
LEMMA PickBoardKeeps == ASSUME DeskInv, NEW d \in Descs, PickBoard(d) PROVE DeskInv'
<1>1. /\ Returned /\ DrawsBack /\ UNCHANGED <<out, open, hl, first, sel, seated>> /\ at = "modal"
      /\ kinds' = [i \in 1..Tests |-> "plain"] /\ at' = resume
  BY DEF PickBoard, Returned
<1>2. MenuInv'
  <2>1. open = 0 /\ open' = 0 BY <1>1 DEF DeskInv, MenuInv
  <2> QED BY <2>1 DEF MenuInv
<1>3. first' \in Nat /\ sel' \in 0..Tests /\ seated' \in BOOLEAN BY <1>1 DEF DeskInv, ListInv
<1>4. seated' => (sel' # 0 => Seats(kinds', first', sel')) BY <1>1, PreparedSeats DEF DeskInv
<1> QED BY <1>1, <1>2, <1>3, <1>4, ReturnedKeeps

---------------------------------------------------------------------------
(* The desktop as it comes up, on any board and either output.             *)
LEMMA DeskStarts == ASSUME Init PROVE DeskInv
<1>1. /\ kinds = [i \in 1..Tests |-> "plain"] /\ first = 0 /\ sel = 0 /\ geom = Laid(kinds, 0) /\ pfirst = 0
      /\ fresh = "yes" /\ dirty = TRUE /\ open = 0 /\ seated = FALSE
      /\ at = "tests" /\ resume = "pointer"
  BY DEF Init, DeskInit
<1>2. out \in Outputs
  <2>1. out \in Outputs \/ out \in One(Outputs) BY DEF Init, DeskInit
  <2>2. CASE out \in One(Outputs)
    <3>1. out = CHOOSE x \in Outputs : TRUE BY <2>2 DEF One
    <3>2. Outputs # {} BY DeskAssumption
    <3> QED BY <3>1, <3>2
  <2> QED BY <2>1, <2>2
<1>3. geom.w = WidthOf(kinds, first) /\ geom.count \in Nat BY <1>1, LaidAt
<1>4. ListInv
  <2>1. 0 \in 0..Tests BY DeskAssumption
  <2> QED BY <1>1, <1>2, <1>3, <2>1, DeskAssumption DEF ListInv
<1>5. DrawnInv BY <1>1, <1>3 DEF DrawnInv
<1>6. RunInv /\ PageInv /\ MenuInv BY <1>1 DEF RunInv, PageInv, MenuInv
<1> QED BY <1>4, <1>5, <1>6 DEF DeskInv

(* Whatever leaves the desktop alone.                                       *)
LEMMA DeskStutter == ASSUME DeskInv, UNCHANGED deskVars PROVE DeskInv'
<1>1. UNCHANGED <<desc, out, kinds, first, sel, geom, pfirst, fresh, dirty, open, hl, at, resume, cur, seated>>
  BY DEF deskVars, list, drawn, flow
<1>2. ListInv' BY <1>1 DEF DeskInv, ListInv
<1>3. DrawnInv' BY <1>1 DEF DeskInv, DrawnInv
<1>4. RunInv' /\ PageInv' BY <1>1 DEF DeskInv, RunInv, PageInv
<1>5. at' = "modal" => open' = 0 BY <1>1 DEF DeskInv, MenuInv
<1>6. MenuInv' BY <1>1, <1>5, MenusKept DEF DeskInv
<1> QED BY <1>2, <1>3, <1>4, <1>6 DEF DeskInv

(* Every step of the desktop.                                               *)
LEMMA DeskStep == ASSUME DeskInv, DeskNext PROVE DeskInv'
<1>1. CASE BootRun BY <1>1, BootRunKeeps
<1>2. CASE NoPress
  <2>1. /\ at = "pointer" /\ at' \in {"wheel", "key"}
        /\ UNCHANGED <<desc, out, list, drawn, open, hl, seated, resume, cur>>
    BY <1>2 DEF NoPress, Goes
  <2> QED BY <2>1, NothingKeeps
<1>3. CASE Hover BY <1>3, HoverKeeps
<1>4. CASE PressAway BY <1>4, PressAwayKeeps
<1>5. CASE Wheel BY <1>5, WheelKeeps
<1>6. CASE \E m \in DOMAIN Menus : PressTitle(m) \/ AltLetter(m) BY <1>6, PressTitleKeeps, AltLetterKeeps
<1>7. CASE \E i \in 1..9 : PressItem(i) BY <1>7, PressItemKeeps
<1>8. CASE \E f \in BarTargets : PressBar(f) \/ Drag(f) BY <1>8, PressBarKeeps
<1>9. CASE \E k \in 1..geom.count : PressRow(k) BY <1>9, PressRowKeeps
<1>10. CASE NoKey
  <2>1. /\ at = "key" /\ at' = "poll"
        /\ UNCHANGED <<desc, out, list, drawn, open, hl, seated, resume, cur>>
    BY <1>10 DEF NoKey, Goes
  <2> QED BY <2>1, NothingKeeps
<1>11. CASE F1 BY <1>11, F1Keeps
<1>12. CASE MenuEsc BY <1>12, MenuEscKeeps
<1>13. CASE MenuEnter BY <1>13, MenuEnterKeeps
<1>14. CASE ListKey BY <1>14, ListKeyKeeps
<1>15. CASE ListEnter BY <1>15, ListEnterKeeps
<1>16. CASE ListEsc BY <1>16, ListEscKeeps
<1>17. CASE \E u \in BOOLEAN : MenuUpDown(u) BY <1>17, MenuUpDownKeeps
<1>18. CASE \E d \in {1, Len(Menus) - 1} : MenuSideways(d) BY <1>18, MenuSidewaysKeeps
<1>19. CASE \E k \in Letters : Letter(k) BY <1>19, LetterKeeps
<1>20. CASE Poll BY <1>20, BootRunKeeps
<1>21. CASE DrawIfDirty BY <1>21, DrawKeeps
<1>22. CASE Follow BY <1>22, FollowKeeps
<1>23. CASE Result BY <1>23, ResultKeeps
<1>24. CASE Finish BY <1>24, FinishKeeps
<1>25. CASE CloseModal BY <1>25, CloseModalKeeps
<1>26. CASE \E d \in Descs : PickBoard(d) BY <1>26, PickBoardKeeps
<1> QED BY <1>1, <1>2, <1>3, <1>4, <1>5, <1>6, <1>7, <1>8, <1>9, <1>10, <1>11, <1>12, <1>13, <1>14,
           <1>15, <1>16, <1>17, <1>18, <1>19, <1>20, <1>21, <1>22, <1>23, <1>24, <1>25, <1>26
        DEF DeskNext

(* What the invariant says of the screen, the page and the menus.           *)
LEMMA DeskTells == ASSUME DeskInv PROVE DesktopIsTrue
<1>1. SelectionIsWhole
  <2> SUFFICES ASSUME (at = "pointer" /\ seated /\ sel # 0) \/ at = "result"
               PROVE  first < sel /\ Height(kinds, (first + 1)..sel, geom.w) <= Window
    BY DEF SelectionIsWhole
  <2>1. seated /\ sel # 0 /\ fresh \in {"yes", "clipped"} BY DEF DeskInv, ListInv, DrawnInv, RunInv
  <2>2. Seats(kinds, first, sel) /\ geom.w = WidthOf(kinds, first) BY <2>1 DEF DeskInv, DrawnInv
  <2> QED BY <2>2 DEF Seats
<1>2. ListIsDrawn BY DEF DeskInv, DrawnInv, ListIsDrawn
<1>3. PageShowsSelection BY DEF DeskInv, PageInv, PageShowsSelection
<1>4. MenusReachAll
  <2> SUFFICES ASSUME at = "pointer", open # 0
               PROVE  /\ hl \in Selectables(open) \cup {0}
                      /\ Selectables(open) # {} => hl # 0 /\ Downs(open, hl) = Selectables(open)
                      /\ \A i \in Selectables(open) : Key(open, i) # "" => CmdForKey(Key(open, i)) = Cmd(open, i)
    BY DEF MenusReachAll
  <2>1. open \in 1..6 /\ Highlighted(open, hl) BY DEF DeskInv, MenuInv
  <2>2. Selectables(open) # {} => hl \in Selectables(open) BY <2>1 DEF Highlighted
  <2>3. Selectables(open) # {} => Downs(open, hl) = Selectables(open) BY <2>1, <2>2, DownsReach
  <2>4. \A i \in Selectables(open) : Key(open, i) # "" => CmdForKey(Key(open, i)) = Cmd(open, i)
    BY <2>1, KeyDoes
  <2> QED BY <2>1, <2>3, <2>4 DEF Highlighted
<1> QED BY <1>1, <1>2, <1>3, <1>4 DEF DesktopIsTrue

(* For any rows, any height of window and page of at least a row or two, and *)
(* any boards: what the keyboard selected is drawn whole, nothing is left    *)
(* undrawn when the loop rests, the page shows the selected row, and every   *)
(* command is reached without a pointer.                                     *)
THEOREM DesktopIsAlwaysTrue == Spec => []DesktopIsTrue
<1>1. Init => DeskInv BY DeskStarts
<1>2. DeskInv /\ [Next]_vars => DeskInv'
  <2> SUFFICES ASSUME DeskInv, [Next]_vars PROVE DeskInv' OBVIOUS
  <2>1. CASE DeskNext BY <2>1, DeskStep
  <2>2. CASE UNCHANGED deskVars BY <2>2, DeskStutter
  <2>3. DeskNext \/ UNCHANGED deskVars BY DEF Next, vars
  <2> QED BY <2>1, <2>2, <2>3
<1>3. DeskInv => DesktopIsTrue BY DeskTells
<1> QED BY <1>1, <1>2, <1>3, PTL DEF Spec
----------------------------------------------------------------------------
(* The PS/2 mouse.  After a packet that came whole, what is left of it in   *)
(* the ring says how far the driver's own packet can have come: it takes no *)
(* movement byte for a first one.                                           *)
WireByte == Heads \cup Moves
MouseState == [pkt : Seq(WireByte), left : BOOLEAN, delta : BOOLEAN,
               since : {"unset", "short", "long"}]
RingInv ==
  /\ ring \in Seq(WireByte)
  /\ ps2 \in MouseState
  /\ Len(ps2.pkt) < 3
  /\ clean /\ Len(ring) >= 2 => ring[Len(ring)] \in Small /\ ring[Len(ring) - 1] \in Small
  /\ clean /\ Len(ring) = 1 => ring[1] \in Small /\ Len(ps2.pkt) # 1
  /\ clean /\ ring = << >> => ps2.pkt = << >>

(* What one byte does to the packet.                                        *)
LEMMA TakePacket ==
  ASSUME NEW s \in MouseState,
         Len(s.pkt) < 3, NEW b \in WireByte
  PROVE  /\ Take(s, b) \in MouseState
         /\ b \in Small /\ s.pkt = << >> => Take(s, b).pkt = << >>
         /\ Len(s.pkt) = 2 => Take(s, b).pkt = << >>
         /\ Len(s.pkt) = 1 => Len(Take(s, b).pkt) = 2
         /\ Len(Take(s, b).pkt) < 3
<1> USE DEF MouseState
<1> DEFINE all == Append(s.pkt, b)
<1>1. all \in Seq(WireByte) /\ Len(all) = Len(s.pkt) + 1 OBVIOUS
<1>2. b \in Small => ~Sync(b) BY DEF Small, Sync
<1>3. CASE s.pkt = << >> /\ ~Sync(b) BY <1>3 DEF Take
<1>4. CASE ~(s.pkt = << >> /\ ~Sync(b)) /\ Len(all) < 3
  <2>1. Take(s, b) = [s EXCEPT !.pkt = all] BY <1>4 DEF Take
  <2>2. Take(s, b) \in MouseState /\ Take(s, b).pkt = all
    <3> HIDE DEF all
    <3> QED BY <1>1, <2>1
  <2> QED BY <1>1, <1>2, <1>4, <2>2
<1>5. CASE ~(s.pkt = << >> /\ ~Sync(b)) /\ ~(Len(all) < 3)
  <2>1. Take(s, b) = [Processed(s, all) EXCEPT !.pkt = << >>] BY <1>5 DEF Take
  <2>2. Len(all) = 3 /\ Len(s.pkt) = 2
    <3> DEFINE n == Len(s.pkt)  m == Len(all)
    <3>1. n \in Nat OBVIOUS
    <3>2. m = n + 1 /\ n < 3 /\ ~(m < 3) BY <1>1, <1>5
    <3> HIDE DEF n, m
    <3>3. m = 3 /\ n = 2 BY <3>1, <3>2
    <3> QED BY <3>3 DEF n, m
  <2>3. Left(all[1]) \in BOOLEAN BY DEF Left
  <2>4. Processed(s, all) \in MouseState
    <3> DEFINE l == Left(all[1])
               t == IF l /\ ~s.left THEN "short" ELSE s.since
               d == s.delta \/ all[2] # 0 \/ all[3] # 0
    <3>1. Processed(s, all) = IF Overflow(all[1]) THEN s
            ELSE [pkt |-> s.pkt, left |-> l, delta |-> d, since |-> t]
      <4>1. s = [pkt |-> s.pkt, left |-> s.left, delta |-> s.delta, since |-> s.since] OBVIOUS
      <4>2. Processed(s, all) = IF Overflow(all[1]) THEN s
              ELSE [s EXCEPT !.left = l, !.since = t, !.delta = d] BY DEF Processed
      <4> HIDE DEF all, l, t, d
      <4> QED BY <4>1, <4>2
    <3>2. l \in BOOLEAN /\ d \in BOOLEAN BY <2>3
    <3>3. t \in {"unset", "short", "long"} OBVIOUS
    <3> HIDE DEF all, l, d, t
    <3> QED BY <3>1, <3>2, <3>3
  <2>5. ASSUME NEW p \in MouseState PROVE [p EXCEPT !.pkt = << >>] \in MouseState /\ [p EXCEPT !.pkt = << >>].pkt = << >>
    <3>1. << >> \in Seq(WireByte) OBVIOUS
    <3>2. p = [pkt |-> p.pkt, left |-> p.left, delta |-> p.delta, since |-> p.since] OBVIOUS
    <3> DEFINE e == << >>
    <3> HIDE DEF e
    <3>3. e \in Seq(WireByte) BY <3>1 DEF e
    <3>4. [p EXCEPT !.pkt = e] \in MouseState /\ [p EXCEPT !.pkt = e].pkt = e BY <3>2, <3>3
    <3> QED BY <3>4 DEF e
  <2> HIDE DEF all
  <2> QED BY <2>1, <2>2, <2>4, <2>5
<1> QED BY <1>3, <1>4, <1>5

(* What a packet leaves in the ring.                                        *)
LEMMA StoredRing ==
  ASSUME ring \in Seq(WireByte), NEW bytes \in Seq(WireByte)
  PROVE  /\ Stored(bytes) \in Seq(WireByte)
         /\ Len(Stored(bytes)) = Len(ring) + Len(bytes) => Stored(bytes) = ring \o bytes
         /\ Len(Stored(bytes)) <= Len(ring) + Len(bytes)
<1> DEFINE all == ring \o bytes
<1>1. all \in Seq(WireByte) /\ Len(all) = Len(ring) + Len(bytes) OBVIOUS
<1>2. Stored(bytes) = SubSeq(all, 1, IF Len(all) < RingSize THEN Len(all) ELSE RingSize - 1)
  BY DEF Stored
<1>3. CASE Len(all) < RingSize
  <2>1. Stored(bytes) = all BY <1>1, <1>2, <1>3, SubSeqFull
  <2> QED BY <1>1, <2>1
<1>4. CASE ~(Len(all) < RingSize)
  <2>1. RingSize - 1 \in 0..Len(all) /\ RingSize - 1 < Len(all) BY <1>1, <1>4, PointerAssumption
  <2>2. Stored(bytes) = SubSeq(all, 1, RingSize - 1) BY <1>2, <1>4
  <2> HIDE DEF all
  <2>3. Stored(bytes) \in Seq(WireByte) /\ Len(Stored(bytes)) = RingSize - 1
    BY <1>1, <2>1, <2>2, PointerAssumption
  <2> QED BY <1>1, <2>1, <2>3
<1> QED BY <1>3, <1>4

(* The parts of a packet.                                                   *)
LEMMA PartOfThree ==
  ASSUME NEW three \in Seq(WireByte), Len(three) = 3, NEW k \in 1..3
  PROVE  /\ SubSeq(three, 1, k - 1) \in Seq(WireByte) /\ Len(SubSeq(three, 1, k - 1)) = k - 1
         /\ SubSeq(three, k + 1, 3) \in Seq(WireByte) /\ Len(SubSeq(three, k + 1, 3)) = 3 - k
<1>1. \A m \in 1..4, n \in 0..3 : /\ SubSeq(three, m, n) \in Seq(WireByte)
        /\ Len(SubSeq(three, m, n)) = IF m <= n THEN n - m + 1 ELSE 0
  <2> SUFFICES ASSUME NEW m \in 1..4, NEW n \in 0..3
               PROVE  /\ SubSeq(three, m, n) \in Seq(WireByte)
                      /\ Len(SubSeq(three, m, n)) = IF m <= n THEN n - m + 1 ELSE 0
    OBVIOUS
  <2>2. CASE m > n BY <2>2, SubSeqEmpty
  <2>3. CASE m <= n BY <2>3, SubSeqProperties
  <2> QED BY <2>2, <2>3
<1>2. k - 1 \in 0..3 /\ k + 1 \in 1..4 OBVIOUS
<1> QED BY <1>1, <1>2

(* The wire: a packet that came whole ends in two movement bytes.           *)
LEMMA PacketKeepsRing ==
  ASSUME RingInv, NEW b \in Heads, NEW xy \in Motions \cup {<<x, 0>> : x \in Small},
         NEW damaged \in 0..3, Ps2Packet(b, xy, damaged)
  PROVE  RingInv'
<1> DEFINE sent == <<b>> \o xy
           got == IF damaged = 0 THEN sent ELSE RemoveAt(sent, damaged)
<1>1. PICK x \in Moves, y \in Moves : xy = <<x, y>> BY DEF Motions, Moves, Small
<1>2. sent = <<b, x, y>>
  <2>1. <<b>> \in Seq(WireByte) /\ <<x, y>> \in Seq(WireByte) BY DEF WireByte
  <2>2. sent = <<b>> \o <<x, y>> BY <1>1
  <2>3. sent \in Seq(WireByte) /\ Len(sent) = 3 /\ sent[1] = b /\ sent[2] = x /\ sent[3] = y
    <3>1. \A u, v \in Seq(WireByte) : /\ u \o v \in Seq(WireByte) /\ Len(u \o v) = Len(u) + Len(v)
            /\ \A n \in 1..Len(u) + Len(v) : (u \o v)[n] = IF n <= Len(u) THEN u[n] ELSE v[n - Len(u)]
      OBVIOUS
    <3>2. Len(<<b>>) = 1 /\ Len(<<x, y>>) = 2 /\ <<b>>[1] = b /\ <<x, y>>[1] = x /\ <<x, y>>[2] = y OBVIOUS
    <3> HIDE DEF sent
    <3>3. Len(sent) = 3 /\ sent \in Seq(WireByte) BY <2>1, <2>2, <3>1, <3>2
    <3>4. \A n \in 1..3 : sent[n] = IF n <= 1 THEN <<b>>[n] ELSE <<x, y>>[n - 1] BY <2>1, <2>2, <3>1, <3>2
    <3> QED BY <3>2, <3>3, <3>4
  <2>4. <<b, x, y>> \in Seq(WireByte) BY DEF WireByte
  <2>5. Len(<<b, x, y>>) = 3 OBVIOUS
  <2> HIDE DEF sent
  <2> QED BY <2>3, <2>4, <2>5, SeqEqual
<1>3. sent \in Seq(WireByte) /\ Len(sent) = 3
  <2>1. <<b, x, y>> \in Seq(WireByte) /\ Len(<<b, x, y>>) = 3 BY DEF WireByte
  <2> HIDE DEF sent
  <2> QED BY <1>2, <2>1
<1>4. got \in Seq(WireByte) /\ Len(got) <= 3 /\ (Len(got) = 3 => got = sent)
  <2>1. CASE damaged = 0 BY <1>3, <2>1
  <2>2. CASE damaged \in 1..3
    <3>1. got = SubSeq(sent, 1, damaged - 1) \o SubSeq(sent, damaged + 1, 3)
      <4>1. damaged # 0 /\ got = RemoveAt(sent, damaged) BY <2>2
      <4>2. RemoveAt(sent, damaged) = SubSeq(sent, 1, damaged - 1) \o SubSeq(sent, damaged + 1, Len(sent))
        BY DEF RemoveAt
      <4> HIDE DEF sent, got
      <4> QED BY ONLY <1>3, <4>1, <4>2
    <3>2. SubSeq(sent, 1, damaged - 1) \in Seq(WireByte) /\ Len(SubSeq(sent, 1, damaged - 1)) = damaged - 1
      BY <1>3, <2>2, PartOfThree
    <3>3. SubSeq(sent, damaged + 1, 3) \in Seq(WireByte) /\ Len(SubSeq(sent, damaged + 1, 3)) = 3 - damaged
      BY <1>3, <2>2, PartOfThree
    <3> HIDE DEF sent, got
    <3> QED BY <1>3, <2>2, <3>1, <3>2, <3>3
  <2> QED BY <2>1, <2>2
<1>5. ring' = Stored(got) /\ ps2' = ps2 /\ clean' = (Len(ring') = Len(ring) + 3 /\ ToSet(xy) \subseteq Small)
  BY DEF Ps2Packet
<1> HIDE DEF sent, got
<1>6. ring' \in Seq(WireByte) BY <1>4, <1>5, StoredRing DEF RingInv
<1>7. ASSUME clean' PROVE ring' = ring \o <<b, x, y>> /\ x \in Small /\ y \in Small
  <2>1. Len(ring) + Len(got) \in Nat /\ Len(ring') <= Len(ring) + Len(got) /\ Len(ring') = Len(ring) + 3
    <3>1. ring \in Seq(WireByte) /\ Len(ring) \in Nat /\ Len(got) \in Nat BY <1>4 DEF RingInv
    <3>2. Len(ring') <= Len(ring) + Len(got) BY <1>4, <1>5, <3>1, StoredRing
    <3>3. Len(ring') = Len(ring) + 3 BY <1>5, <1>7
    <3> QED BY <3>1, <3>2, <3>3
  <2>2. Len(got) = 3
    <3>1. Len(ring) \in Nat /\ Len(got) \in Nat BY <1>4 DEF RingInv
    <3>2. Len(got) <= 3 BY <1>4
    <3> DEFINE n == Len(ring)  m == Len(got)  k == Len(ring')
    <3>3. n \in Nat /\ m \in Nat /\ m <= 3 /\ k <= n + m /\ k = n + 3 BY <2>1, <3>1, <3>2
    <3> HIDE DEF n, m, k
    <3>4. m = 3 BY <3>3
    <3> QED BY <3>4 DEF m
  <2>3. ring' = ring \o got BY <1>4, <1>5, <2>1, <2>2, StoredRing DEF RingInv
  <2>4. x \in ToSet(xy) /\ y \in ToSet(xy) BY <1>1 DEF ToSet
  <2> QED BY <1>2, <1>4, <1>5, <1>7, <2>2, <2>3, <2>4
<1>8. clean' => Len(ring') >= 3 /\ ring'[Len(ring')] \in Small /\ ring'[Len(ring') - 1] \in Small
  <2> SUFFICES ASSUME clean' PROVE Len(ring') >= 3 /\ ring'[Len(ring')] \in Small /\ ring'[Len(ring') - 1] \in Small
    OBVIOUS
  <2>1. ring' = ring \o <<b, x, y>> /\ x \in Small /\ y \in Small BY <1>7
  <2>2. ring \in Seq(WireByte) BY DEF RingInv
  <2> QED BY <2>1, <2>2
<1> QED BY <1>5, <1>6, <1>8 DEF RingInv

(* The driver takes a byte.                                                 *)
LEMMA PollKeepsRing ==
  ASSUME RingInv, PollByte
  PROVE  RingInv'
<1> USE DEF RingInv
<1>1. /\ ring # << >> /\ ps2' = Take(ps2, Head(ring)) /\ ring' = Tail(ring) /\ clean' = clean
  BY DEF PollByte
<1>2. Head(ring) \in WireByte /\ Len(ring) >= 1 /\ Head(ring) = ring[1] BY <1>1
<1>3. ring' \in Seq(WireByte) /\ Len(ring') = Len(ring) - 1
      /\ \A n \in 1..Len(ring') : ring'[n] = ring[n + 1] BY <1>1, <1>2
<1>4. /\ ps2' \in MouseState
      /\ ring[1] \in Small /\ ps2.pkt = << >> => ps2'.pkt = << >>
      /\ Len(ps2.pkt) = 2 => ps2'.pkt = << >>
      /\ Len(ps2.pkt) = 1 => Len(ps2'.pkt) = 2
      /\ Len(ps2'.pkt) < 3
  BY <1>1, <1>2, TakePacket
<1>5. clean' /\ Len(ring') >= 2 => ring'[Len(ring')] \in Small /\ ring'[Len(ring') - 1] \in Small
  BY <1>1, <1>2, <1>3
<1>6. Len(ps2.pkt) \in {0, 1, 2} /\ (Len(ps2.pkt) = 0 <=> ps2.pkt = << >>)
  <2>1. ps2.pkt \in Seq(WireByte) BY DEF MouseState
  <2>2. Len(ps2.pkt) \in Nat /\ (Len(ps2.pkt) = 0 <=> ps2.pkt = << >>) BY <2>1, EmptySeq
  <2>3. Len(ps2.pkt) < 3 OBVIOUS
  <2> DEFINE n == Len(ps2.pkt)
  <2>4. n \in Nat /\ n < 3 BY ONLY <2>2, <2>3
  <2> HIDE DEF n
  <2>5. n \in {0, 1, 2} BY ONLY <2>4
  <2> QED BY <2>2, <2>5 DEF n
<1>7. clean' /\ Len(ring') = 1 => ring'[1] \in Small /\ Len(ps2'.pkt) # 1
  <2> SUFFICES ASSUME clean', Len(ring') = 1 PROVE ring'[1] \in Small /\ Len(ps2'.pkt) # 1 OBVIOUS
  <2>0. Len(ring) \in Nat OBVIOUS
  <2>1. Len(ring) = 2
    <3> DEFINE n == Len(ring)  k == Len(ring')
    <3>1. n \in Nat /\ k = n - 1 /\ k = 1 BY <1>3, <2>0
    <3> HIDE DEF n, k
    <3>2. n = 2 BY <3>1
    <3> QED BY <3>2 DEF n
  <2>2. ring[1] \in Small /\ ring'[1] = ring[2] /\ ring[2] \in Small
    <3>1. ring[Len(ring)] \in Small /\ ring[Len(ring) - 1] \in Small BY <1>1, <2>1
    <3>2. Len(ring) - 1 = 1 BY <2>1
    <3>3. ring'[1] = ring[1 + 1] BY <1>3
    <3> QED BY ONLY <2>1, <3>1, <3>2, <3>3
  <2>3. Len(ps2'.pkt) = 0 \/ Len(ps2'.pkt) = 2
    <3>1. Len(<< >>) = 0 OBVIOUS
    <3> QED BY ONLY <1>4, <1>6, <2>2, <3>1
  <2> DEFINE k == Len(ps2'.pkt)
  <2>4. k = 0 \/ k = 2 BY <2>3
  <2> HIDE DEF k
  <2>5. k # 1 BY ONLY <2>4
  <2>6. ring'[1] \in Small BY <2>2
  <2> QED BY <2>5, <2>6 DEF k
<1>8. clean' /\ ring' = << >> => ps2'.pkt = << >>
  <2>1. ring' = << >> => Len(ring) = 1 BY <1>2, <1>3
  <2> QED BY <2>1, <1>1, <1>2, <1>3, <1>4, <1>6
<1> QED BY <1>3, <1>4, <1>5, <1>7, <1>8

(* Nothing else touches the packet.                                         *)
LEMMA RestKeepsRing ==
  ASSUME RingInv, Deliver \/ ReadPanel \/ TwoSeconds \/ UsbNext
  PROVE  RingInv'
<1>1. ps2 \in MouseState BY DEF RingInv
<1>2. Failsafe(ps2) \in MouseState /\ Failsafe(ps2).pkt = ps2.pkt BY <1>1 DEF Failsafe, MouseState
<1>3. ASSUME NEW s \in MouseState PROVE [s EXCEPT !.delta = FALSE] \in MouseState /\ [s EXCEPT !.delta = FALSE].pkt = s.pkt
  BY DEF MouseState
<1>4. clean' = clean /\ ring' = ring BY DEF Deliver, ReadPanel, TwoSeconds, UsbNext, UsbMouseMount, UsbMouseUnmount, UsbMouseReport
<1>5. ps2' \in MouseState /\ ps2'.pkt = ps2.pkt
  <2>1. CASE Deliver \/ ReadPanel
    <3>1. ps2' = [Failsafe(ps2) EXCEPT !.delta = FALSE] BY <2>1 DEF Deliver, ReadPanel
    <3> QED BY <1>2, <1>3, <3>1
  <2>2. CASE TwoSeconds BY SMTT(30), <1>1, <2>2 DEF TwoSeconds, MouseState
  <2>3. CASE UsbNext BY <1>1, <2>3 DEF UsbNext, UsbMouseMount, UsbMouseUnmount, UsbMouseReport
  <2> QED BY <2>1, <2>2, <2>3
<1> QED BY <1>4, <1>5 DEF RingInv

(* However many bytes noise, a damaged frame or a full ring has taken, a     *)
(* whole packet of small movement puts the driver back in step: for a ring  *)
(* and a poll of any size.                                                  *)
THEOREM MouseAlwaysResyncs == InputSpec => []OnePacketResyncs
<1>1. InputInit => RingInv
  <2> SUFFICES ASSUME PointerInit PROVE RingInv BY DEF InputInit
  <2>1. ring = << >> /\ ~clean /\ ps2 = [pkt |-> << >>, left |-> FALSE, delta |-> FALSE, since |-> "unset"]
    BY DEF PointerInit
  <2> QED BY <2>1 DEF RingInv, MouseState
<1>2. RingInv /\ [InputNext]_inputVars => RingInv'
  <2> SUFFICES ASSUME RingInv, [InputNext]_inputVars PROVE RingInv' OBVIOUS
  <2>1. CASE UNCHANGED pointerVars BY <2>1 DEF RingInv, pointerVars
  <2>2. CASE Ps2Next BY <2>2, PacketKeepsRing DEF Ps2Next, Heads
  <2>3. CASE WholePs2Next
    <3>1. PICK b \in Heads, x \in Small : Ps2Packet(b, <<x, 0>>, 0) BY <2>3 DEF WholePs2Next
    <3> QED BY <3>1, PacketKeepsRing
  <2>4. CASE UsbNext BY <2>4, RestKeepsRing
  <2>5. CASE LoopNext BY <2>5, PollKeepsRing, RestKeepsRing DEF LoopNext
  <2> QED BY <2>1, <2>2, <2>3, <2>4, <2>5 DEF InputNext, inputVars
<1>3. RingInv => OnePacketResyncs BY DEF RingInv, OnePacketResyncs
<1> QED BY <1>1, <1>2, <1>3, PTL DEF InputSpec
(* The USB keyboards.  The shape of what the code keeps, and of the history *)
(* the properties compare it with.                                          *)
KeyShape ==
  /\ hand \in [UsbKeyboards -> Seq(Codes)]
  /\ kbd \in [report : Seq(Codes), connected : BOOLEAN]
  /\ poll = [prev |-> poll.prev, kc |-> poll.kc, key |-> poll.key,
             due |-> poll.due, events |-> poll.events]
  /\ poll.prev \in Seq(Codes) /\ poll.events \in Nat
  /\ seen \in [presses : Nat, unread : BOOLEAN, missed : BOOLEAN, shared : BOOLEAN,
               yanked : BOOLEAN, lost : BOOLEAN, ghost : BOOLEAN]

(* The report is some keyboard's, a repeat had a hand, and while one keyboard *)
(* is used at a time, it is the report of each that has keys down; what was  *)
(* counted and what the next poll will count are all the presses.            *)
HandsInv ==
  /\ ~seen.yanked =>
       /\ kbd.report = << >> \/ \E b \in plugged : hand[b] = kbd.report
       /\ ~seen.ghost
  /\ ~seen.yanked /\ ~seen.shared =>
       \A b \in UsbKeyboards : hand[b] = << >> \/ hand[b] = kbd.report
CountInv ==
  ~(seen.missed \/ seen.shared \/ seen.yanked) =>
    /\ poll.events + Noted(poll.prev) = seen.presses
    /\ ~seen.unread => poll.prev = kbd.report
UsbKeyInv == KeyShape /\ plugged \subseteq UsbKeyboards /\ HandsInv /\ CountInv

(* What a poll has seen before is not counted again.                        *)
LEMMA NothingNew ==
  ASSUME NEW r \in Seq(Codes), NEW p \in Seq(Codes), \A n \in DOMAIN r : r[n] \in ToSet(p)
  PROVE  Cardinality({n \in DOMAIN r : r[n] \notin ToSet(p)}) = 0
<1>1. {n \in DOMAIN r : r[n] \notin ToSet(p)} = {} OBVIOUS
<1> QED BY <1>1, FS_EmptySet

(* A key that goes down is counted once.                                    *)
LEMMA OneIsNew ==
  ASSUME NEW r \in Seq(Codes), NEW kc \in Codes \ ToSet(r)
  PROVE  /\ Append(r, kc) \in Seq(Codes)
         /\ Cardinality({n \in DOMAIN Append(r, kc) : Append(r, kc)[n] \notin ToSet(r)}) = 1
<1> DEFINE all == Append(r, kc)  new == {n \in DOMAIN all : all[n] \notin ToSet(r)}  l == Len(r) + 1
<1>1. all \in Seq(Codes) /\ DOMAIN all = 1..l /\ l \in Nat \ {0} /\ all[l] = kc
      /\ \A n \in 1..l : n # l => n \in DOMAIN r /\ all[n] = r[n]
  OBVIOUS
<1>2. \A n \in DOMAIN r : r[n] \in ToSet(r) BY DEF ToSet
<1> HIDE DEF all, l
<1>3. new = {l} BY <1>1, <1>2
<1> HIDE DEF new
<1>4. Cardinality(new) = 1 BY <1>3, FS_Singleton
<1> QED BY <1>1, <1>4 DEF new, all

(* A key that comes up leaves the others.                                   *)
LEMMA OthersStay ==
  ASSUME NEW r \in Seq(Codes), NEW n \in DOMAIN r
  PROVE  /\ RemoveAt(r, n) \in Seq(Codes)
         /\ \A m \in DOMAIN RemoveAt(r, n) : RemoveAt(r, n)[m] \in ToSet(r)
<1> DEFINE p == SubSeq(r, 1, n - 1)  q == SubSeq(r, n + 1, Len(r))
<1>0. ToSet(r) \subseteq Codes /\ \A m \in 1..Len(r) : r[m] \in ToSet(r) BY DEF ToSet
<1>1. n \in 1..Len(r) /\ n \in Int /\ Len(r) \in Nat /\ n - 1 \in Int /\ n + 1 \in Int OBVIOUS
<1>2. \A m \in 1..n - 1 : r[m] \in ToSet(r) BY <1>0, <1>1
<1>3. \A m \in n + 1..Len(r) : r[m] \in ToSet(r) BY <1>0, <1>1
<1>4. p \in Seq(ToSet(r)) BY <1>1, <1>2, SubSeqProperties
<1>5. q \in Seq(ToSet(r)) BY <1>1, <1>3, SubSeqProperties
<1>6. RemoveAt(r, n) = p \o q BY DEF RemoveAt
<1> HIDE DEF p, q
<1>7. RemoveAt(r, n) \in Seq(ToSet(r)) BY <1>4, <1>5, <1>6
<1>8. Seq(ToSet(r)) \subseteq Seq(Codes) BY <1>0, SeqMonotonic
<1> QED BY <1>7, <1>8

(* A keyboard reports, if one is used at a time and polls keep up: what it   *)
(* held is what the driver had.                                             *)
LEMMA ReportIsTheHand ==
  ASSUME UsbKeyInv, NEW b \in UsbKeyboards, ~seen.yanked, ~seen.shared,
         \A c \in UsbKeyboards \ {b} : hand[c] = << >>
  PROVE  hand[b] = kbd.report
BY DEF UsbKeyInv, HandsInv

(* The driver hears a keyboard whose keys, of which some are new, become     *)
(* the report.                                                              *)
Heard(b, keys, count) ==
  /\ hand' = [hand EXCEPT ![b] = keys]
  /\ kbd' = [kbd EXCEPT !.report = keys]
  /\ seen' = [seen EXCEPT !.presses = count, !.unread = TRUE, !.missed = @ \/ seen.unread,
                          !.shared = @ \/ \E c \in UsbKeyboards \ {b} : hand[c] # << >>]
  /\ plugged' = plugged /\ poll' = poll

LEMMA HearingKeepsKeys ==
  ASSUME UsbKeyInv, NEW b \in plugged, NEW keys \in Seq(Codes), NEW count \in Nat, Heard(b, keys, count),
         Cardinality({n \in DOMAIN keys : keys[n] \notin ToSet(hand[b])}) + seen.presses = count
  PROVE  UsbKeyInv'
<1> DEFINE full == \E c \in UsbKeyboards \ {b} : hand[c] # << >>
<1>1. KeyShape /\ plugged \subseteq UsbKeyboards /\ HandsInv /\ CountInv BY DEF UsbKeyInv
<1>2. /\ hand' \in [UsbKeyboards -> Seq(Codes)] /\ hand'[b] = keys
      /\ \A c \in UsbKeyboards \ {b} : hand'[c] = hand[c]
  BY <1>1 DEF Heard, KeyShape
<1>3. kbd' \in [report : Seq(Codes), connected : BOOLEAN] /\ kbd'.report = keys
  BY <1>1 DEF Heard, KeyShape
<1>4. full \in BOOLEAN OBVIOUS
<1>5. /\ seen' \in [presses : Nat, unread : BOOLEAN, missed : BOOLEAN, shared : BOOLEAN,
                    yanked : BOOLEAN, lost : BOOLEAN, ghost : BOOLEAN]
      /\ seen'.presses = count /\ seen'.unread = TRUE /\ seen'.missed = (seen.missed \/ seen.unread)
      /\ seen'.shared = (seen.shared \/ full) /\ seen'.yanked = seen.yanked /\ seen'.ghost = seen.ghost
  <2>1. seen' = [seen EXCEPT !.presses = count, !.unread = TRUE, !.missed = @ \/ seen.unread,
                          !.shared = @ \/ full] BY DEF Heard
  <2>2. seen = [presses |-> seen.presses, unread |-> seen.unread, missed |-> seen.missed,
                shared |-> seen.shared, yanked |-> seen.yanked, lost |-> seen.lost, ghost |-> seen.ghost]
    BY <1>1 DEF KeyShape
  <2>3. seen.unread \in BOOLEAN /\ seen.missed \in BOOLEAN /\ seen.shared \in BOOLEAN
        /\ seen.yanked \in BOOLEAN /\ seen.lost \in BOOLEAN /\ seen.ghost \in BOOLEAN
    BY <1>1 DEF KeyShape
  <2> HIDE DEF full
  <2>4. seen' = [presses |-> count, unread |-> TRUE, missed |-> (seen.missed \/ seen.unread),
                shared |-> (seen.shared \/ full), yanked |-> seen.yanked, lost |-> seen.lost, ghost |-> seen.ghost]
    BY <2>1, <2>2
  <2> QED BY <1>4, <2>3, <2>4
<1>6. KeyShape' /\ plugged' = plugged /\ poll' = poll BY <1>1, <1>2, <1>3, <1>5 DEF Heard, KeyShape
<1>7. HandsInv'
  <2>1. \E d \in plugged : hand'[d] = kbd'.report BY <1>2, <1>3
  <2>2. ~seen'.yanked => ~seen'.ghost BY <1>1, <1>5 DEF HandsInv
  <2>3. ~seen'.shared => \A d \in UsbKeyboards : hand'[d] = << >> \/ hand'[d] = kbd'.report
    BY <1>2, <1>3, <1>5
  <2> QED BY <1>6, <2>1, <2>2, <2>3 DEF HandsInv
<1>8. CountInv'
  <2> SUFFICES ASSUME ~seen'.missed, ~seen'.shared, ~seen'.yanked
               PROVE  poll.events + Noted(poll.prev)' = count
    BY <1>5, <1>6 DEF CountInv
  <2>1. ~seen.missed /\ ~seen.unread /\ ~seen.shared /\ ~full /\ ~seen.yanked BY <1>5
  <2>2. hand[b] = kbd.report BY <1>1, <2>1, ReportIsTheHand
  <2>3. poll.prev = kbd.report /\ poll.events + Noted(poll.prev) = seen.presses
    BY <1>1, <2>1 DEF CountInv
  <2>4. Noted(poll.prev) = 0
    <3>1. kbd.report \in Seq(Codes) BY <1>1 DEF KeyShape
    <3>2. \A n \in DOMAIN kbd.report : kbd.report[n] \in ToSet(poll.prev) BY <2>3 DEF ToSet
    <3> QED BY <2>3, <3>1, <3>2, NothingNew DEF Noted
  <2>5. Noted(poll.prev)' = Cardinality({n \in DOMAIN keys : keys[n] \notin ToSet(hand[b])})
    BY <1>3, <1>6, <2>2, <2>3 DEF Noted
  <2>6. poll.events \in Nat /\ seen.presses \in Nat BY <1>1 DEF KeyShape
  <2> DEFINE new == Cardinality({n \in DOMAIN keys : keys[n] \notin ToSet(hand[b])})
  <2>7. new + seen.presses = count /\ Noted(poll.prev)' = new /\ poll.events = seen.presses
    BY <2>3, <2>4, <2>5, <2>6
  <2>8. new \in Nat
    <3>1. IsFiniteSet(1..Len(keys)) /\ {n \in DOMAIN keys : keys[n] \notin ToSet(hand[b])} \subseteq 1..Len(keys)
      BY SMTT(30), FS_Interval
    <3> QED BY <3>1, FS_Subset, FS_CardinalityType
  <2> HIDE DEF new
  <2> QED BY <2>6, <2>7, <2>8
<1> QED BY <1>1, <1>6, <1>7, <1>8 DEF UsbKeyInv

(* A key goes down or comes up on a keyboard.                               *)
LEMMA ReportKeepsKeys ==
  ASSUME UsbKeyInv, NEW b \in UsbKeyboards, Report(b)
  PROVE  UsbKeyInv'
<1> DEFINE full == \E c \in UsbKeyboards \ {b} : hand[c] # << >>
<1>1. hand \in [UsbKeyboards -> Seq(Codes)] /\ hand[b] \in Seq(Codes) /\ seen.presses \in Nat
      /\ "presses" \in DOMAIN seen
  BY DEF UsbKeyInv, KeyShape
<1>2. b \in plugged /\ plugged' = plugged /\ poll' = poll /\ kbd' = [kbd EXCEPT !.report = hand'[b]]
  BY DEF Report
<1>3. ASSUME NEW kc \in Codes \ ToSet(hand[b]), hand' = [hand EXCEPT ![b] = Append(@, kc)],
             seen' = [seen EXCEPT !.presses = @ + 1, !.unread = TRUE,
                                  !.missed = @ \/ seen.unread, !.shared = @ \/ full]
      PROVE  UsbKeyInv'
  <2> DEFINE keys == Append(hand[b], kc)  count == seen.presses + 1
  <2>1. keys \in Seq(Codes) /\ Cardinality({n \in DOMAIN keys : keys[n] \notin ToSet(hand[b])}) = 1
    BY <1>1, OneIsNew
  <2>2. Heard(b, keys, count) BY <1>1, <1>2, <1>3 DEF Heard
  <2>3. count \in Nat /\ 1 + seen.presses = count BY <1>1
  <2> HIDE DEF keys, count
  <2> QED BY <1>2, <2>1, <2>2, <2>3, HearingKeepsKeys
<1>4. ASSUME NEW n \in DOMAIN hand[b], hand' = [hand EXCEPT ![b] = RemoveAt(@, n)],
             seen' = [seen EXCEPT !.unread = TRUE, !.missed = @ \/ seen.unread, !.shared = @ \/ full]
      PROVE  UsbKeyInv'
  <2> DEFINE keys == RemoveAt(hand[b], n)  count == seen.presses
  <2>1. keys \in Seq(Codes) /\ Cardinality({m \in DOMAIN keys : keys[m] \notin ToSet(hand[b])}) = 0
    <3>1. keys \in Seq(Codes) /\ \A m \in DOMAIN keys : keys[m] \in ToSet(hand[b]) BY <1>1, OthersStay
    <3> HIDE DEF keys
    <3> QED BY <1>1, <3>1, NothingNew
  <2>2. Heard(b, keys, count) 
    <3>1. seen = [presses |-> seen.presses, unread |-> seen.unread, missed |-> seen.missed,
                shared |-> seen.shared, yanked |-> seen.yanked, lost |-> seen.lost, ghost |-> seen.ghost]
      BY DEF UsbKeyInv, KeyShape
    <3>2. seen' = [seen EXCEPT !.presses = seen.presses, !.unread = TRUE, !.missed = @ \/ seen.unread, !.shared = @ \/ full]
      <4> HIDE DEF full
      <4> QED BY <1>4, <3>1
    <3> QED BY <1>1, <1>2, <1>4, <3>2 DEF Heard
  <2>3. count \in Nat /\ 0 + seen.presses = count BY <1>1
  <2> HIDE DEF keys, count
  <2> QED BY <1>2, <2>1, <2>2, <2>3, HearingKeepsKeys
<1> QED BY <1>3, <1>4 DEF Report

(* A keyboard is plugged in, or pulled out.                                 *)
LEMMA PluggingKeepsKeys ==
  ASSUME UsbKeyInv, NEW b \in UsbKeyboards, Mount(b) \/ Unmount(b)
  PROVE  UsbKeyInv'
<1>1. KeyShape /\ plugged \subseteq UsbKeyboards /\ HandsInv /\ CountInv BY DEF UsbKeyInv
<1>2. CASE Mount(b)
  <2>1. /\ plugged' = plugged \cup {b} /\ hand' = hand /\ poll' = poll /\ seen' = seen
        /\ kbd' = [kbd EXCEPT !.connected = TRUE]
    BY <1>2 DEF Mount
  <2>2. kbd' \in [report : Seq(Codes), connected : BOOLEAN] /\ kbd'.report = kbd.report
    BY <1>1, <2>1 DEF KeyShape
  <2>3. KeyShape' BY <1>1, <2>1, <2>2 DEF KeyShape
  <2>4. HandsInv' BY <1>1, <2>1, <2>2 DEF HandsInv
  <2>5. CountInv' BY <1>1, <2>1, <2>2 DEF CountInv, Noted
  <2> QED BY <1>1, <2>1, <2>3, <2>4, <2>5 DEF UsbKeyInv
<1>3. CASE Unmount(b)
  <2>1. /\ plugged' = plugged \ {b} /\ hand' = [hand EXCEPT ![b] = << >>] /\ poll' = poll
        /\ kbd' = [kbd EXCEPT !.connected = FALSE]
        /\ seen' = [seen EXCEPT !.yanked = @ \/ hand[b] # << >>]
    BY <1>3 DEF Unmount
  <2>2. kbd' \in [report : Seq(Codes), connected : BOOLEAN] /\ kbd'.report = kbd.report
    BY <1>1, <2>1 DEF KeyShape
  <2>3. hand' \in [UsbKeyboards -> Seq(Codes)] /\ (hand[b] = << >> => hand' = hand)
    <3>1. << >> \in Seq(Codes) OBVIOUS
    <3> QED BY <1>1, <2>1, <3>1 DEF KeyShape
  <2>4. /\ seen' \in [presses : Nat, unread : BOOLEAN, missed : BOOLEAN, shared : BOOLEAN,
                      yanked : BOOLEAN, lost : BOOLEAN, ghost : BOOLEAN]
        /\ seen'.yanked = (seen.yanked \/ hand[b] # << >>) /\ seen'.ghost = seen.ghost
        /\ seen'.missed = seen.missed /\ seen'.shared = seen.shared /\ seen'.presses = seen.presses
        /\ seen'.unread = seen.unread
    <3> DEFINE y == seen.yanked \/ hand[b] # << >>
    <3>1. y \in BOOLEAN /\ seen' = [seen EXCEPT !.yanked = y] BY <2>1
    <3> HIDE DEF y
    <3>2. seen' \in [presses : Nat, unread : BOOLEAN, missed : BOOLEAN, shared : BOOLEAN,
                      yanked : BOOLEAN, lost : BOOLEAN, ghost : BOOLEAN]
          /\ seen'.yanked = y /\ seen'.ghost = seen.ghost
          /\ seen'.missed = seen.missed /\ seen'.shared = seen.shared /\ seen'.presses = seen.presses
          /\ seen'.unread = seen.unread
      BY <1>1, <3>1 DEF KeyShape
    <3> QED BY <3>2 DEF y
  <2>5. KeyShape' BY <1>1, <2>1, <2>2, <2>3, <2>4 DEF KeyShape
  <2>6. ~seen'.yanked => ~seen.yanked /\ hand[b] = << >> /\ hand' = hand BY <2>3, <2>4
  <2>7. ~seen'.yanked => kbd'.report = << >> \/ \E c \in plugged' : hand'[c] = kbd'.report
    BY <1>1, <2>1, <2>2, <2>6 DEF HandsInv
  <2>8. HandsInv' BY <1>1, <2>2, <2>4, <2>6, <2>7 DEF HandsInv
  <2>9. CountInv' BY <1>1, <2>1, <2>2, <2>4 DEF CountInv, Noted
  <2> QED BY <1>1, <2>1, <2>5, <2>8, <2>9 DEF UsbKeyInv
<1> QED BY <1>2, <1>3

(* The delay of a repeat, then its rate, passes.                            *)
LEMMA DelayKeepsKeys ==
  ASSUME UsbKeyInv, RepeatDue
  PROVE  UsbKeyInv'
<1>1. KeyShape /\ plugged \subseteq UsbKeyboards /\ HandsInv /\ CountInv BY DEF UsbKeyInv
<1>2. plugged' = plugged /\ hand' = hand /\ kbd' = kbd /\ seen' = seen /\ poll' = [poll EXCEPT !.due = TRUE]
  BY DEF RepeatDue
<1>3. /\ poll' = [prev |-> poll'.prev, kc |-> poll'.kc, key |-> poll'.key,
                  due |-> poll'.due, events |-> poll'.events]
      /\ poll'.prev = poll.prev /\ poll'.events = poll.events
  BY <1>1, <1>2 DEF KeyShape
<1>4. KeyShape' BY <1>1, <1>2, <1>3 DEF KeyShape
<1>5. HandsInv' BY <1>1, <1>2 DEF HandsInv
<1>6. CountInv' BY <1>1, <1>2, <1>3 DEF CountInv, Noted
<1> QED BY <1>1, <1>2, <1>4, <1>5, <1>6 DEF UsbKeyInv

(* What a poll leaves, whichever way it goes: the new presses counted, the   *)
(* report kept; it repeats only a code that is in the report.               *)
LEMMA PollCounts ==
  ASSUME KeyShape
  PROVE  /\ HidGetkey.to = [prev |-> kbd.report, kc |-> HidGetkey.to.kc, key |-> HidGetkey.to.key,
                            due |-> HidGetkey.to.due, events |-> poll.events + Noted(poll.prev)]
         /\ HidGetkey.repeat => poll.kc \in ToSet(kbd.report)
<1> DEFINE e == poll.events + Noted(poll.prev)
           r == kbd.report
           noted == [poll EXCEPT !.events = @ + Noted(poll.prev), !.prev = kbd.report]
           news == Fresh(poll.prev)
           key == Chosen(news)
           idle == IF StillDown(poll.kc) THEN noted
                   ELSE [noted EXCEPT !.kc = None, !.key = None, !.due = FALSE]
           again == poll.due /\ StillDown(poll.kc)
           head == Head(news)
           V == {poll.kc, poll.key, poll.due, None, key, head, FALSE}
           S == [prev : {r}, kc : V, key : V, due : V, events : {e}]
<1>1. poll = [prev |-> poll.prev, kc |-> poll.kc, key |-> poll.key, due |-> poll.due, events |-> poll.events]
  BY DEF KeyShape
<1>2. noted = [prev |-> r, kc |-> poll.kc, key |-> poll.key, due |-> poll.due, events |-> e]
  <2> HIDE DEF e, r
  <2>1. noted = [poll EXCEPT !.events = e, !.prev = r] BY DEF e, r
  <2> HIDE DEF noted
  <2> QED BY <1>1, <2>1
<1>3. HidGetkey = IF again THEN [key |-> poll.key, repeat |-> TRUE, to |-> [noted EXCEPT !.due = FALSE]]
        ELSE [key |-> key, repeat |-> FALSE,
              to |-> IF Repeatable(key) THEN [idle EXCEPT !.kc = head, !.key = key, !.due = FALSE] ELSE idle]
  BY DEF HidGetkey
<1>v. poll.kc \in V /\ poll.key \in V /\ poll.due \in V /\ None \in V /\ key \in V /\ head \in V /\ FALSE \in V
  OBVIOUS
<1> HIDE DEF e, r, news, key, head, V
<1>4. noted \in S
  <2> HIDE DEF noted
  <2> QED BY <1>2, <1>v
<1>5. [noted EXCEPT !.due = FALSE] \in S /\ idle \in S
  <2> HIDE DEF noted
  <2> QED BY <1>4, <1>v
<1>6. [idle EXCEPT !.kc = head, !.key = key, !.due = FALSE] \in S
  <2> HIDE DEF idle
  <2> QED BY <1>5, <1>v
<1> HIDE DEF noted, idle
<1>7. HidGetkey.to \in S
  <2>1. CASE again
    <3> HIDE DEF S
    <3> QED BY <1>3, <1>5, <2>1
  <2>2. CASE ~again
    <3>1. HidGetkey.to = IF Repeatable(key) THEN [idle EXCEPT !.kc = head, !.key = key, !.due = FALSE] ELSE idle
      BY <1>3, <2>2
    <3> HIDE DEF S
    <3> QED BY <1>5, <1>6, <3>1
  <2> QED BY <2>1, <2>2
<1>8. HidGetkey.repeat => again BY <1>3
<1>9. again => poll.kc \in ToSet(kbd.report) BY DEF StillDown
<1> QED BY <1>7, <1>8, <1>9 DEF e, r

(* The interface polls.                                                     *)
LEMMA GetkeyKeepsKeys ==
  ASSUME UsbKeyInv, Getkey
  PROVE  UsbKeyInv'
<1>1. KeyShape /\ plugged \subseteq UsbKeyboards /\ HandsInv /\ CountInv BY DEF UsbKeyInv
<1> DEFINE g == HidGetkey.repeat /\ \A b \in plugged : poll.kc \notin ToSet(hand[b])
<1>2. /\ poll' = HidGetkey.to /\ hand' = hand /\ plugged' = plugged /\ kbd' = kbd
      /\ seen' = [seen EXCEPT !.unread = FALSE, !.ghost = @ \/ g]
  BY DEF Getkey
<1>3. /\ poll' = [prev |-> poll'.prev, kc |-> poll'.kc, key |-> poll'.key,
                  due |-> poll'.due, events |-> poll'.events]
      /\ poll'.prev = kbd.report /\ poll'.events = poll.events + Noted(poll.prev)
  BY <1>1, <1>2, PollCounts
<1>4. Noted(poll.prev) \in Nat
  <2>1. kbd.report \in Seq(Codes) BY <1>1 DEF KeyShape
  <2>2. IsFiniteSet(1..Len(kbd.report))
        /\ {n \in DOMAIN kbd.report : kbd.report[n] \notin ToSet(poll.prev)} \subseteq 1..Len(kbd.report)
    BY <2>1, FS_Interval
  <2> QED BY <2>2, FS_Subset, FS_CardinalityType DEF Noted
<1>5. g \in BOOLEAN BY <1>1, PollCounts
<1>6. /\ seen' \in [presses : Nat, unread : BOOLEAN, missed : BOOLEAN, shared : BOOLEAN,
                    yanked : BOOLEAN, lost : BOOLEAN, ghost : BOOLEAN]
      /\ seen'.yanked = seen.yanked /\ seen'.ghost = (seen.ghost \/ g)
      /\ seen'.missed = seen.missed /\ seen'.shared = seen.shared /\ seen'.presses = seen.presses
  <2> HIDE DEF g
  <2> QED BY <1>1, <1>2, <1>5 DEF KeyShape
<1>7. KeyShape' BY <1>1, <1>2, <1>3, <1>4, <1>6 DEF KeyShape
<1>8. ~seen.yanked => ~g
  <2> SUFFICES ASSUME ~seen.yanked, HidGetkey.repeat PROVE \E b \in plugged : poll.kc \in ToSet(hand[b])
    OBVIOUS
  <2>1. poll.kc \in ToSet(kbd.report) BY <1>1, PollCounts
  <2>2. kbd.report # << >> BY <2>1 DEF ToSet
  <2> QED BY <1>1, <2>1, <2>2 DEF HandsInv
<1>9. HandsInv'
  <2> HIDE DEF g
  <2> QED BY <1>1, <1>2, <1>6, <1>8 DEF HandsInv
<1>10. CountInv'
  <2>1. kbd.report \in Seq(Codes) BY <1>1 DEF KeyShape
  <2>2. Noted(kbd.report) = 0
    <3>1. \A n \in DOMAIN kbd.report : kbd.report[n] \in ToSet(kbd.report) BY DEF ToSet
    <3> QED BY <2>1, <3>1, NothingNew DEF Noted
  <2>3. Noted(poll.prev)' = 0 BY <1>2, <1>3, <2>2 DEF Noted
  <2>4. poll'.events \in Nat BY <1>7 DEF KeyShape
  <2>5. poll'.events + Noted(poll.prev)' = poll.events + Noted(poll.prev) BY <1>3, <2>3, <2>4
  <2> QED BY <1>1, <1>2, <1>3, <1>6, <2>5 DEF CountInv
<1> QED BY <1>1, <1>2, <1>7, <1>9, <1>10 DEF UsbKeyInv

(* The PS/2 keyboard is nothing to them.                                    *)
LEMMA Ps2KeepsKeys ==
  ASSUME UsbKeyInv, NEW k \in Ps2Keys, Ps2Make(k) \/ Ps2Break(k)
  PROVE  UsbKeyInv'
<1>1. KeyShape /\ plugged \subseteq UsbKeyboards /\ HandsInv /\ CountInv BY DEF UsbKeyInv
<1>2. PICK bytes : Received(bytes) BY DEF Ps2Make, Ps2Break
<1>3. hand' = hand /\ plugged' = plugged /\ kbd' = kbd /\ poll' = poll BY DEF Ps2Make, Ps2Break
<1>4. PICK l \in BOOLEAN : seen' = [seen EXCEPT !.lost = l] 
  <2> DEFINE got == IF Len(bytes) <= FifoDepth - Len(fifo) THEN bytes ELSE SubSeq(bytes, 1, FifoDepth - Len(fifo))
             l == seen.lost \/ got # bytes
  <2>1. seen' = [seen EXCEPT !.lost = l] BY <1>2 DEF Received
  <2>2. l \in BOOLEAN OBVIOUS
  <2> QED BY <2>1, <2>2
<1>5. /\ seen' \in [presses : Nat, unread : BOOLEAN, missed : BOOLEAN, shared : BOOLEAN,
                    yanked : BOOLEAN, lost : BOOLEAN, ghost : BOOLEAN]
      /\ seen'.yanked = seen.yanked /\ seen'.ghost = seen.ghost /\ seen'.unread = seen.unread
      /\ seen'.missed = seen.missed /\ seen'.shared = seen.shared /\ seen'.presses = seen.presses
  BY <1>1, <1>4 DEF KeyShape
<1>6. KeyShape' BY <1>1, <1>3, <1>5 DEF KeyShape
<1>7. HandsInv' BY <1>1, <1>3, <1>5 DEF HandsInv
<1>8. CountInv' BY <1>1, <1>3, <1>5 DEF CountInv, Noted
<1> QED BY <1>1, <1>3, <1>6, <1>7, <1>8 DEF UsbKeyInv

(* The PS/2 keyboard.  What the decoder makes of a FIFO, byte by byte.      *)
Scan == {"E0", "F0", "75", "1C", "11"}
DecState == [brk : BOOLEAN, ext : BOOLEAN, alt : BOOLEAN, down : SUBSET (BOOLEAN \X {"75", "1C", "11"})]
Reading(d, bytes, run) ==
  /\ run \in [0..Len(bytes) -> DecState] /\ run[0] = d
  /\ \A n \in 1..Len(bytes) : run[n] = DecoderStep(run[n - 1], bytes[n])
ReadTo(d, bytes, e) == \E run : Reading(d, bytes, run) /\ run[Len(bytes)] = e

(* The decoder agrees with the hand.                                        *)
Agrees(d, keys) == d.down = keys /\ ~d.brk /\ ~d.ext /\ (d.alt => keys \cap Alts # {})

(* As long as no byte was lost, the bytes in the FIFO lead the decoder to    *)
(* the keys that are down.                                                  *)
Ps2Inv ==
  /\ held \subseteq Ps2Keys
  /\ ~seen.lost => /\ fifo \in Seq(Scan) /\ dec \in DecState
                   /\ \E e \in DecState : ReadTo(dec, fifo, e) /\ Agrees(e, held)

(* A byte more.                                                             *)
LEMMA StepStays ==
  ASSUME NEW d \in DecState, NEW b \in Scan
  PROVE  /\ DecoderStep(d, b) \in DecState
         /\ b = "F0" => DecoderStep(d, b) = [brk |-> TRUE, ext |-> d.ext, alt |-> d.alt, down |-> d.down]
         /\ b = "E0" => DecoderStep(d, b) = [brk |-> d.brk, ext |-> TRUE, alt |-> d.alt, down |-> d.down]
         /\ b \notin {"F0", "E0"} => DecoderStep(d, b) =
              [brk |-> FALSE, ext |-> FALSE, alt |-> IF b = "11" THEN ~d.brk ELSE d.alt,
               down |-> IF d.brk THEN d.down \ {<<d.ext, b>>} ELSE d.down \cup {<<d.ext, b>>}]
<1>1. CASE b = "F0"
  <2>1. DecoderStep(d, b) = [d EXCEPT !.brk = TRUE] BY <1>1 DEF DecoderStep
  <2> QED BY <1>1, <2>1 DEF DecState
<1>2. CASE b = "E0"
  <2>1. DecoderStep(d, b) = [d EXCEPT !.ext = TRUE] BY <1>2 DEF DecoderStep
  <2> QED BY <1>2, <2>1 DEF DecState
<1>3. CASE b \notin {"F0", "E0"}
  <2>1. DecoderStep(d, b) =
              [brk |-> FALSE, ext |-> FALSE, alt |-> IF b = "11" THEN ~d.brk ELSE d.alt,
               down |-> IF d.brk THEN d.down \ {<<d.ext, b>>} ELSE d.down \cup {<<d.ext, b>>}]
    BY <1>3 DEF DecoderStep
  <2>2. b \in {"75", "1C", "11"} /\ d.ext \in BOOLEAN /\ d.alt \in BOOLEAN /\ d.brk \in BOOLEAN
        /\ d.down \in SUBSET (BOOLEAN \X {"75", "1C", "11"}) BY <1>3 DEF DecState, Scan
  <2>3. <<d.ext, b>> \in BOOLEAN \X {"75", "1C", "11"} BY <2>2
  <2> DEFINE a == IF b = "11" THEN ~d.brk ELSE d.alt
             w == IF d.brk THEN d.down \ {<<d.ext, b>>} ELSE d.down \cup {<<d.ext, b>>}
  <2>4. a \in BOOLEAN /\ w \in SUBSET (BOOLEAN \X {"75", "1C", "11"}) BY <2>2, <2>3
  <2>5. DecoderStep(d, b) = [brk |-> FALSE, ext |-> FALSE, alt |-> a, down |-> w] BY <2>1
  <2> HIDE DEF a, w
  <2>6. DecoderStep(d, b) \in DecState BY <2>4, <2>5 DEF DecState
  <2> QED BY <1>3, <2>1, <2>6
<1> QED BY <1>1, <1>2, <1>3

LEMMA ReadOne ==
  ASSUME NEW d, NEW bytes \in Seq(Scan), NEW e \in DecState, ReadTo(d, bytes, e), NEW b \in Scan
  PROVE  Append(bytes, b) \in Seq(Scan) /\ ReadTo(d, Append(bytes, b), DecoderStep(e, b))
<1> DEFINE all == Append(bytes, b)  l == Len(bytes)
<1>1. PICK run : Reading(d, bytes, run) /\ run[l] = e BY DEF ReadTo
<1>2. all \in Seq(Scan) /\ Len(all) = l + 1 /\ l \in Nat /\ all[l + 1] = b /\ \A n \in 1..l : all[n] = bytes[n]
  OBVIOUS
<1>3. run \in [0..l -> DecState] /\ run[0] = d /\ \A n \in 1..l : run[n] = DecoderStep(run[n - 1], bytes[n])
  BY <1>1 DEF Reading
<1> DEFINE z == DecoderStep(e, b)
           more == [n \in 0..l + 1 |-> IF n <= l THEN run[n] ELSE z]
<1>4. z \in DecState BY StepStays
<1> HIDE DEF l, z, all
<1>5. more \in [0..l + 1 -> DecState] /\ more[0] = d /\ more[l + 1] = z BY <1>2, <1>3, <1>4
<1>6. ASSUME NEW n \in 1..l + 1 PROVE more[n] = DecoderStep(more[n - 1], all[n])
  <2>1. CASE n = l + 1
    <3>1. more[n] = z /\ more[n - 1] = run[l] /\ all[n] = b BY <1>2, <2>1
    <3> QED BY <1>1, <3>1 DEF z, l
  <2>2. CASE n \in 1..l
    <3>1. more[n] = run[n] /\ more[n - 1] = run[n - 1] /\ all[n] = bytes[n] BY <1>2, <2>2
    <3> QED BY <1>3, <2>2, <3>1
  <2> QED BY <1>2, <2>1, <2>2
<1> HIDE DEF more
<1>7. Reading(d, all, more) BY <1>2, <1>5, <1>6 DEF Reading
<1> QED BY <1>2, <1>5, <1>7 DEF ReadTo, all, z

(* A key's make code ends with the key down, its break code with it up.     *)
LEMMA CodesAgree ==
  ASSUME NEW d, NEW bytes \in Seq(Scan), NEW e \in DecState, ReadTo(d, bytes, e),
         NEW keys \in SUBSET Ps2Keys, Agrees(e, keys), NEW k \in Ps2Keys
  PROVE  /\ bytes \o Make(k) \in Seq(Scan)
         /\ \E t \in DecState : ReadTo(d, bytes \o Make(k), t) /\ Agrees(t, keys \cup {k})
         /\ bytes \o Break(k) \in Seq(Scan)
         /\ \E t \in DecState : ReadTo(d, bytes \o Break(k), t) /\ Agrees(t, keys \ {k})
<1>1. PICK x \in BOOLEAN, c \in {"75", "1C", "11"} : k = <<x, c>> BY DEF Ps2Keys
<1>2. k[1] = x /\ k[2] = c /\ c \in Scan /\ "E0" \in Scan /\ "F0" \in Scan /\ c \notin {"E0", "F0"}
  BY <1>1 DEF Scan
<1> DEFINE sofar == IF x THEN Append(bytes, "E0") ELSE bytes
           e1 == IF x THEN DecoderStep(e, "E0") ELSE e
           e2 == DecoderStep(e1, c)
           f1 == DecoderStep(e1, "F0")
           f2 == DecoderStep(f1, c)
<1>3. e1 \in DecState /\ e2 \in DecState /\ f1 \in DecState /\ f2 \in DecState
  <2>1. e1 \in DecState BY <1>2, StepStays
  <2> HIDE DEF e1
  <2>2. e2 \in DecState /\ f1 \in DecState BY <1>2, <2>1, StepStays
  <2> HIDE DEF f1
  <2> QED BY <1>2, <2>1, <2>2, StepStays
<1>4. sofar \in Seq(Scan) /\ ReadTo(d, sofar, e1) BY <1>2, ReadOne
<1>5. Append(sofar, c) \in Seq(Scan) /\ ReadTo(d, Append(sofar, c), e2)
  <2> HIDE DEF sofar, e1
  <2> QED BY <1>2, <1>3, <1>4, ReadOne
<1>6. Append(sofar, "F0") \in Seq(Scan) /\ ReadTo(d, Append(sofar, "F0"), f1)
  <2> HIDE DEF sofar, e1
  <2> QED BY <1>2, <1>3, <1>4, ReadOne
<1>7. Append(Append(sofar, "F0"), c) \in Seq(Scan) /\ ReadTo(d, Append(Append(sofar, "F0"), c), f2)
  <2> HIDE DEF sofar, e1, f1
  <2> QED BY <1>2, <1>3, <1>6, ReadOne
<1>8. bytes \o Make(k) = Append(sofar, c)
  <2>1. CASE x
    <3>1. Make(k) = <<"E0">> \o <<c>> BY <1>2, <2>1 DEF Make
    <3> QED BY <2>1, <3>1
  <2>2. CASE ~x
    <3>1. Make(k) = << >> \o <<c>> BY <1>2, <2>2 DEF Make
    <3> QED BY <2>2, <3>1
  <2> QED BY <2>1, <2>2
<1>9. bytes \o Break(k) = Append(Append(sofar, "F0"), c)
  <2>1. CASE x
    <3>1. Break(k) = <<"E0">> \o <<"F0", c>> BY <1>2, <2>1 DEF Break
    <3> QED BY <2>1, <3>1
  <2>2. CASE ~x
    <3>1. Break(k) = << >> \o <<"F0", c>> BY <1>2, <2>2 DEF Break
    <3> QED BY <2>2, <3>1
  <2> QED BY <2>1, <2>2
<1>10. e.brk = FALSE /\ e.ext = FALSE /\ e.alt \in BOOLEAN /\ e.down = keys /\ (e.alt => keys \cap Alts # {})
  BY DEF Agrees, DecState
<1>11. e1 = [brk |-> FALSE, ext |-> x, alt |-> e.alt, down |-> keys]
  <2>1. e = [brk |-> e.brk, ext |-> e.ext, alt |-> e.alt, down |-> e.down] BY DEF DecState
  <2>2. CASE x BY <1>2, <1>10, <2>2, StepStays
  <2>3. CASE ~x BY <1>10, <2>1, <2>3
  <2> QED BY <2>2, <2>3
<1>12. e2 = [brk |-> FALSE, ext |-> FALSE, alt |-> IF c = "11" THEN TRUE ELSE e.alt, down |-> keys \cup {k}]
  <2> HIDE DEF e1
  <2>1. e2 = [brk |-> FALSE, ext |-> FALSE, alt |-> IF c = "11" THEN ~e1.brk ELSE e1.alt,
              down |-> IF e1.brk THEN e1.down \ {<<e1.ext, c>>} ELSE e1.down \cup {<<e1.ext, c>>}]
    BY <1>2, <1>3, StepStays
  <2> HIDE DEF e2
  <2> QED BY <1>1, <1>11, <2>1
<1>13. f1 = [brk |-> TRUE, ext |-> x, alt |-> e.alt, down |-> keys]
  <2> HIDE DEF e1
  <2>1. f1 = [brk |-> TRUE, ext |-> e1.ext, alt |-> e1.alt, down |-> e1.down] BY <1>2, <1>3, StepStays
  <2> HIDE DEF f1
  <2> QED BY <1>11, <2>1
<1>14. f2 = [brk |-> FALSE, ext |-> FALSE, alt |-> IF c = "11" THEN FALSE ELSE e.alt, down |-> keys \ {k}]
  <2> HIDE DEF f1
  <2>1. f2 = [brk |-> FALSE, ext |-> FALSE, alt |-> IF c = "11" THEN ~f1.brk ELSE f1.alt,
              down |-> IF f1.brk THEN f1.down \ {<<f1.ext, c>>} ELSE f1.down \cup {<<f1.ext, c>>}]
    BY <1>2, <1>3, StepStays
  <2> HIDE DEF f2
  <2> QED BY <1>1, <1>13, <2>1
<1> HIDE DEF e2, f2
<1>15. k \in Alts <=> c = "11" BY <1>2 DEF Alts
<1>16. Agrees(e2, keys \cup {k}) BY <1>10, <1>12, <1>15 DEF Agrees
<1>17. Agrees(f2, keys \ {k})
  <2>1. f2.alt => c # "11" /\ e.alt BY <1>14
  <2>2. f2.alt => (keys \ {k}) \cap Alts # {} BY <1>10, <1>15, <2>1
  <2> QED BY <1>14, <2>2 DEF Agrees
<1> QED BY <1>3, <1>5, <1>7, <1>8, <1>9, <1>16, <1>17

(* The keyboard sends.                                                      *)
LEMMA SendingKeepsPs2 ==
  ASSUME Ps2Inv, KeyShape, NEW k \in Ps2Keys, Ps2Make(k) \/ Ps2Break(k)
  PROVE  Ps2Inv'
<1>1. PICK bytes : /\ Received(bytes) /\ dec' = dec
                   /\ \/ bytes = Make(k) /\ held' = held \cup {k}
                      \/ bytes = Break(k) /\ held' = held \ {k}
  BY DEF Ps2Make, Ps2Break
<1> DEFINE room == FifoDepth - Len(fifo)
           got == IF Len(bytes) <= room THEN bytes ELSE SubSeq(bytes, 1, room)
<1>2. fifo' = fifo \o got /\ seen' = [seen EXCEPT !.lost = @ \/ got # bytes] BY <1>1 DEF Received
<1> HIDE DEF got
<1>3. seen'.lost = (seen.lost \/ got # bytes) BY <1>2 DEF KeyShape
<1>4. held' \subseteq Ps2Keys BY <1>1 DEF Ps2Inv
<1>5. ASSUME ~seen'.lost
      PROVE  fifo' \in Seq(Scan) /\ dec' \in DecState /\ \E t \in DecState : ReadTo(dec', fifo', t) /\ Agrees(t, held')
  <2>1. ~seen.lost /\ fifo' = fifo \o bytes BY <1>2, <1>3, <1>5
  <2>2. PICK e \in DecState : ReadTo(dec, fifo, e) /\ Agrees(e, held) BY <2>1 DEF Ps2Inv
  <2>3. fifo \in Seq(Scan) /\ dec \in DecState /\ held \in SUBSET Ps2Keys BY <2>1 DEF Ps2Inv
  <2>4. /\ fifo \o Make(k) \in Seq(Scan)
        /\ \E t \in DecState : ReadTo(dec, fifo \o Make(k), t) /\ Agrees(t, held \cup {k})
        /\ fifo \o Break(k) \in Seq(Scan)
        /\ \E t \in DecState : ReadTo(dec, fifo \o Break(k), t) /\ Agrees(t, held \ {k})
    BY <2>2, <2>3, CodesAgree
  <2>5. CASE bytes = Make(k) /\ held' = held \cup {k} BY <1>1, <2>1, <2>3, <2>4, <2>5
  <2>6. CASE bytes = Break(k) /\ held' = held \ {k} BY <1>1, <2>1, <2>3, <2>4, <2>6
  <2> QED BY <1>1, <2>5, <2>6
<1> QED BY <1>4, <1>5 DEF Ps2Inv

(* What the interface reads of the FIFO: up to the byte that makes a key, or *)
(* all of it, one byte of the decoder at a time.                            *)
ReadOn(g, n) ==
  IF g.key # None THEN g
  ELSE [key |-> Emits(g.to, fifo[n]), to |-> DecoderStep(g.to, fifo[n]), used |-> n]
LEMMA GetkeyReads ==
  ASSUME fifo \in Seq(Scan), NEW run, Reading(dec, fifo, run)
  PROVE  \E u \in 0..Len(fifo) : Ps2Getkey.used = u /\ Ps2Getkey.to = run[u]
<1> DEFINE l == Len(fifo)
           hits == {n \in 1..l : Emits(run[n - 1], fifo[n]) # None}
           h == IF hits = {} THEN l + 1 ELSE Min(hits)
           s(n) == IF n < h THEN n ELSE h
           e(n) == [key |-> IF n < h THEN None ELSE Emits(run[h - 1], fifo[h]), to |-> run[s(n)], used |-> s(n)]
           start == [key |-> None, to |-> dec, used |-> 0]
           Body(f) == [n \in 0..l |-> IF n = 0 THEN start ELSE ReadOn(f[n - 1], n)]
           read == CHOOSE f : f = Body(f)
<1>1. l \in Nat /\ run \in [0..l -> DecState] /\ run[0] = dec
      /\ \A n \in 1..l : run[n] = DecoderStep(run[n - 1], fifo[n])
  BY DEF Reading
<1>2. h \in 1..l + 1 /\ (h \in 1..l => h \in hits) /\ \A n \in 1..l : n < h => n \notin hits
  <2>1. CASE hits = {} BY <1>1, <2>1
  <2>2. CASE hits # {}
    <3>1. hits \in SUBSET Nat /\ hits \in SUBSET (1..l) BY <1>1
    <3>2. h = Min(hits) BY <2>2
    <3> HIDE DEF hits, h
    <3>3. h \in hits /\ \A y \in hits : h <= y BY <2>2, <3>1, <3>2, LeastOf
    <3> QED BY <1>1, <3>1, <3>3
  <2> QED BY <2>1, <2>2
<1> HIDE DEF h, l
<1>3. ASSUME NEW n \in 1..l PROVE e(n) = ReadOn(e(n - 1), n)
  <2>1. CASE n - 1 < h
    <3>1. e(n - 1) = [key |-> None, to |-> run[n - 1], used |-> n - 1] BY <2>1
    <3>2. ReadOn(e(n - 1), n) = [key |-> Emits(run[n - 1], fifo[n]), to |-> run[n], used |-> n]
      <4>1. e(n - 1).key = None /\ e(n - 1).to = run[n - 1] BY <3>1
      <4> HIDE DEF e
      <4> QED BY <1>1, <4>1 DEF ReadOn
    <3>3. n = h \/ n < h BY <1>1, <1>2, <2>1
    <3>4. CASE n = h
      <4>1. ~(n < h) /\ s(n) = n BY <1>1, <1>2, <3>4
      <4> QED BY <3>2, <3>4, <4>1
    <3>5. CASE n < h
      <4>1. Emits(run[n - 1], fifo[n]) = None BY <1>2, <3>5
      <4>2. s(n) = n BY <3>5
      <4> QED BY <3>2, <3>5, <4>1, <4>2
    <3> QED BY <3>3, <3>4, <3>5
  <2>2. CASE ~(n - 1 < h)
    <3>1. ~(n < h) /\ h \in 1..l BY <1>1, <1>2, <2>2
    <3>2. Emits(run[h - 1], fifo[h]) # None BY <1>2, <3>1
    <3>3. e(n - 1) = e(n) BY <2>2, <3>1
    <3>4. e(n - 1).key # None BY <2>2, <3>2
    <3> HIDE DEF e
    <3> QED BY <3>3, <3>4 DEF ReadOn
  <2> QED BY <2>1, <2>2
<1>4. e(0) = start
  <2>1. 0 < h /\ s(0) = 0 BY <1>1, <1>2
  <2> QED BY <1>1, <2>1
<1>5. ASSUME NEW n \in 0..l PROVE s(n) \in 0..l BY <1>1, <1>2
<1> HIDE DEF e
<1> DEFINE all == [n \in 0..l |-> e(n)]
<1>6. all = Body(all)
  <2>1. ASSUME NEW n \in 0..l PROVE all[n] = Body(all)[n]
    <3>1. CASE n = 0 BY <1>4, <3>1
    <3>2. CASE n \in 1..l
      <4>1. n - 1 \in 0..l /\ n # 0 BY <1>1, <3>2
      <4>2. all[n] = e(n) /\ all[n - 1] = e(n - 1) BY <4>1
      <4>3. Body(all)[n] = ReadOn(all[n - 1], n) BY <4>1
      <4> HIDE DEF all, Body
      <4> QED BY <1>3, <3>2, <4>2, <4>3
    <3> QED BY <1>1, <3>1, <3>2
  <2>2. DOMAIN all = 0..l /\ DOMAIN Body(all) = 0..l OBVIOUS
  <2>3. all = [n \in 0..l |-> all[n]] /\ Body(all) = [n \in 0..l |-> Body(all)[n]] OBVIOUS
  <2> HIDE DEF all, Body
  <2> QED BY <2>1, <2>3
<1>7. read = Body(read)
  <2> HIDE DEF Body, all
  <2> QED BY <1>6, Zenon
<1>8. \A n \in 0..l : read[n] = IF n = 0 THEN start ELSE ReadOn(read[n - 1], n)
  <2> HIDE DEF read
  <2> QED BY <1>7
<1> HIDE DEF read, Body, all
<1>9. \A n \in 0..l : read[n] = e(n)
  <2> DEFINE bad == {n \in 0..l : read[n] # e(n)}
  <2> SUFFICES ASSUME bad # {} PROVE FALSE OBVIOUS
  <2> DEFINE n == Min(bad)
  <2>1. bad \in SUBSET Nat BY <1>1
  <2>2. n \in bad /\ \A y \in bad : n <= y
    <3> HIDE DEF bad
    <3> QED BY <2>1, LeastOf
  <2> HIDE DEF n
  <2>3. n \in 0..l /\ read[n] # e(n) BY <2>2
  <2>4. CASE n = 0 BY <1>4, <1>8, <2>3, <2>4
  <2>5. CASE n \in 1..l
    <3>1. n - 1 \in 0..l /\ n # 0 /\ ~(n <= n - 1) BY <1>1, <2>5
    <3>2. read[n - 1] = e(n - 1) BY <2>2, <3>1
    <3>3. read[n] = ReadOn(read[n - 1], n) BY <1>8, <2>3, <3>1
    <3> QED BY <1>3, <2>3, <2>5, <3>2, <3>3
  <2> QED BY <1>1, <2>3, <2>4, <2>5
<1>10. Ps2Getkey = read[l] BY Zenon DEF Ps2Getkey, ReadOn, read, Body, l
<1>11. Ps2Getkey = e(l) BY <1>1, <1>9, <1>10
<1>12. Ps2Getkey.used = s(l) /\ Ps2Getkey.to = run[s(l)] BY <1>11 DEF e
<1>13. s(l) \in 0..l BY <1>1, <1>5
<1> HIDE DEF s
<1> QED BY <1>12, <1>13 DEF l

(* The interface reads, and what is left leads where it led before.         *)
LEMMA ReadingKeepsPs2 ==
  ASSUME Ps2Inv, KeyShape, Getkey
  PROVE  Ps2Inv'
<1>1. /\ held' = held
      /\ \/ dec' = dec /\ fifo' = fifo
         \/ dec' = Ps2Getkey.to /\ fifo' = SubSeq(fifo, Ps2Getkey.used + 1, Len(fifo))
  BY DEF Getkey
<1>2. seen'.lost = seen.lost
  <2> DEFINE g == seen.ghost \/ (HidGetkey.repeat /\ \A b \in plugged : poll.kc \notin ToSet(hand[b]))
  <2>1. seen' = [seen EXCEPT !.unread = FALSE, !.ghost = g] BY DEF Getkey
  <2> HIDE DEF g
  <2> QED BY <2>1 DEF KeyShape
<1>3. CASE dec' = dec /\ fifo' = fifo BY <1>1, <1>2, <1>3 DEF Ps2Inv
<1>4. CASE dec' = Ps2Getkey.to /\ fifo' = SubSeq(fifo, Ps2Getkey.used + 1, Len(fifo))
  <2> SUFFICES ASSUME ~seen.lost
               PROVE  /\ fifo' \in Seq(Scan) /\ dec' \in DecState
                      /\ \E t \in DecState : ReadTo(dec', fifo', t) /\ Agrees(t, held)
    BY <1>1, <1>2 DEF Ps2Inv
  <2>1. fifo \in Seq(Scan) BY DEF Ps2Inv
  <2>2. PICK e \in DecState : ReadTo(dec, fifo, e) /\ Agrees(e, held) BY DEF Ps2Inv
  <2> DEFINE l == Len(fifo)
  <2>3. PICK run : Reading(dec, fifo, run) /\ run[l] = e BY <2>2 DEF ReadTo
  <2>4. PICK u \in 0..l : Ps2Getkey.used = u /\ Ps2Getkey.to = run[u] BY <2>1, <2>3, GetkeyReads
  <2>5. l \in Nat /\ run \in [0..l -> DecState] /\ \A n \in 1..l : run[n] = DecoderStep(run[n - 1], fifo[n])
    BY <2>1, <2>3 DEF Reading
  <2>6. \A n \in 1..l : fifo[n] \in Scan BY <2>1
  <2>7. /\ fifo' \in Seq(Scan) /\ Len(fifo') = l - u
        /\ \A n \in 1..l - u : fifo'[n] = fifo[u + n]
    <3> HIDE DEF l
    <3>1. u + 1 \in Int /\ l \in Int /\ \A n \in u + 1..l : fifo[n] \in Scan BY <2>4, <2>5, <2>6
    <3>2. fifo' = SubSeq(fifo, u + 1, l) BY <1>4, <2>4 DEF l
    <3>3. /\ SubSeq(fifo, u + 1, l) \in Seq(Scan)
          /\ Len(SubSeq(fifo, u + 1, l)) = IF u + 1 <= l THEN l - (u + 1) + 1 ELSE 0
          /\ \A n \in 1..l - (u + 1) + 1 : SubSeq(fifo, u + 1, l)[n] = fifo[u + 1 + n - 1]
      BY <3>1, SubSeqProperties
    <3>4. u \in Nat /\ u <= l /\ l - (u + 1) + 1 = l - u BY <2>4, <2>5
    <3>5. Len(fifo') = l - u BY <3>2, <3>3, <3>4, <2>5
    <3>6. ASSUME NEW n \in 1..l - u PROVE fifo'[n] = fifo[u + n]
      <4>1. u + 1 + n - 1 = u + n BY <3>4
      <4> QED BY <3>2, <3>3, <3>4, <3>6, <4>1
    <3> QED BY <3>2, <3>3, <3>5, <3>6
  <2> DEFINE rest == [n \in 0..l - u |-> run[u + n]]
  <2> HIDE DEF l
  <2>8. rest \in [0..l - u -> DecState] /\ rest[0] = run[u] /\ rest[l - u] = run[l]
    <3>1. \A n \in 0..l - u : u + n \in 0..l BY <2>4, <2>5
    <3>2. u + 0 = u /\ u + (l - u) = l /\ 0 \in 0..l - u /\ l - u \in 0..l - u BY <2>4, <2>5
    <3> QED BY <2>5, <3>1, <3>2
  <2>9. ASSUME NEW n \in 1..l - u PROVE rest[n] = DecoderStep(rest[n - 1], fifo'[n])
    <3>1. n \in 0..l - u /\ n - 1 \in 0..l - u /\ u + n \in 1..l /\ u + (n - 1) = u + n - 1 BY <2>4, <2>5
    <3>2. rest[n] = run[u + n] /\ rest[n - 1] = run[u + n - 1] BY <3>1
    <3>3. run[u + n] = DecoderStep(run[u + n - 1], fifo[u + n]) BY <2>5, <3>1
    <3> HIDE DEF rest
    <3> QED BY <2>7, <3>2, <3>3
  <2>10. dec' = run[u] /\ run[u] \in DecState /\ run[l] = e BY <1>4, <2>3, <2>4, <2>5 DEF l
  <2> HIDE DEF rest
  <2>11. Reading(dec', fifo', rest) /\ rest[Len(fifo')] = e BY <2>7, <2>8, <2>9, <2>10 DEF Reading
  <2> QED BY <2>2, <2>7, <2>10, <2>11 DEF ReadTo
<1> QED BY <1>1, <1>3, <1>4

(* What the keyboards give the interface is what hands did to them: every   *)
(* press is counted, a repeat has a hand behind it, and the maps the key     *)
(* test lights its keys from are the keys that are down.                    *)
THEOREM KeysAreAlwaysTrue == InputSpec => []KeysAreTrue
<1> DEFINE I == UsbKeyInv /\ Ps2Inv
<1>1. InputInit => I
  <2> SUFFICES ASSUME KeyInit PROVE I BY DEF InputInit
  <2>0. << >> \in Seq(Codes) /\ << >> \in Seq(Scan) /\ Len(<< >>) = 0 OBVIOUS
  <2> DEFINE e == << >>
  <2>1. /\ hand = [b \in UsbKeyboards |-> e] /\ plugged = {} /\ kbd = [report |-> e, connected |-> FALSE]
        /\ poll = [prev |-> e, kc |-> None, key |-> None, due |-> FALSE, events |-> 0]
        /\ held = {} /\ fifo = e /\ dec = [brk |-> FALSE, ext |-> FALSE, alt |-> FALSE, down |-> {}]
        /\ seen = [presses |-> 0, unread |-> FALSE, missed |-> FALSE, shared |-> FALSE,
                   yanked |-> FALSE, lost |-> FALSE, ghost |-> FALSE]
    BY DEF KeyInit, UsbInit, Ps2Init, SeenInit
  <2>2. e \in Seq(Codes) /\ e \in Seq(Scan) /\ Len(e) = 0 /\ e = << >> BY <2>0
  <2>3. Noted(e) = 0
    <3>1. \A n \in DOMAIN kbd.report : kbd.report[n] \in ToSet(e) BY <2>1
    <3>2. kbd.report = e BY <2>1
    <3> QED BY <2>2, <3>1, <3>2, NothingNew DEF Noted
  <2> HIDE DEF e
  <2>4. KeyShape
    <3>1. poll = [prev |-> poll.prev, kc |-> poll.kc, key |-> poll.key, due |-> poll.due, events |-> poll.events]
          /\ poll.prev = e /\ poll.events = 0
      BY <2>1
    <3> QED BY <2>1, <2>2, <3>1 DEF KeyShape
  <2>5. HandsInv BY <2>1, <2>2 DEF HandsInv
  <2>6. CountInv BY <2>1, <2>3 DEF CountInv
  <2>7. Ps2Inv
    <3>1. dec \in DecState BY <2>1 DEF DecState
    <3>2. Agrees(dec, held) BY <2>1 DEF Agrees
    <3> DEFINE run == [n \in 0..0 |-> dec]
    <3>3. run \in [0..0 -> DecState] /\ run[0] = dec BY <3>1
    <3> HIDE DEF run
    <3>4. Reading(dec, fifo, run) BY <2>1, <2>2, <3>3 DEF Reading
    <3>5. ReadTo(dec, fifo, dec) BY <2>1, <2>2, <3>3, <3>4 DEF ReadTo
    <3> QED BY <2>1, <2>2, <3>1, <3>2, <3>5 DEF Ps2Inv
  <2> QED BY <2>1, <2>4, <2>5, <2>6, <2>7 DEF UsbKeyInv
<1>2. I /\ [InputNext]_inputVars => I'
  <2> SUFFICES ASSUME UsbKeyInv, Ps2Inv, [InputNext]_inputVars PROVE UsbKeyInv' /\ Ps2Inv' OBVIOUS
  <2>0. KeyShape BY DEF UsbKeyInv
  <2>1. CASE UNCHANGED keyVars
    <3> USE <2>1 DEF keyVars
    <3>1. UsbKeyInv' BY DEF UsbKeyInv, KeyShape, HandsInv, CountInv, Noted
    <3>2. Ps2Inv' BY DEF Ps2Inv
    <3> QED BY <3>1, <3>2
  <2>2. ASSUME NEW b \in UsbKeyboards, Mount(b) \/ Unmount(b) \/ Report(b)
        PROVE  UsbKeyInv' /\ Ps2Inv'
    <3>1. UsbKeyInv' BY SMTT(30), <2>2, PluggingKeepsKeys, ReportKeepsKeys
    <3>2. held' = held /\ fifo' = fifo /\ dec' = dec BY <2>2 DEF Mount, Unmount, Report
    <3>3. seen'.lost = seen.lost
      <4>1. CASE Mount(b) BY <4>1 DEF Mount
      <4>2. CASE Unmount(b)
        <5>1. seen' = [seen EXCEPT !.yanked = @ \/ hand[b] # << >>] BY <4>2 DEF Unmount
        <5> QED BY <2>0, <5>1 DEF KeyShape
      <4>3. CASE Report(b)
        <5> DEFINE full == \E c \in UsbKeyboards \ {b} : hand[c] # << >>
        <5>1. \/ seen' = [seen EXCEPT !.presses = @ + 1, !.unread = TRUE,
                                  !.missed = @ \/ seen.unread, !.shared = @ \/ full]
              \/ seen' = [seen EXCEPT !.unread = TRUE, !.missed = @ \/ seen.unread, !.shared = @ \/ full]
          BY <4>3 DEF Report
        <5> HIDE DEF full
        <5> QED BY <2>0, <5>1 DEF KeyShape
      <4> QED BY <2>2, <4>1, <4>2, <4>3
    <3>4. Ps2Inv' BY <3>2, <3>3 DEF Ps2Inv
    <3> QED BY <3>1, <3>4
  <2>3. ASSUME RepeatDue PROVE UsbKeyInv' /\ Ps2Inv'
    <3>1. held' = held /\ fifo' = fifo /\ dec' = dec /\ seen' = seen BY <2>3 DEF RepeatDue
    <3>2. Ps2Inv' BY <3>1 DEF Ps2Inv
    <3> QED BY <2>3, <3>2, DelayKeepsKeys
  <2>4. ASSUME NEW k \in Ps2Keys, Ps2Make(k) \/ Ps2Break(k) PROVE UsbKeyInv' /\ Ps2Inv'
    BY <2>0, <2>4, Ps2KeepsKeys, SendingKeepsPs2
  <2>5. CASE SlowPs2KeyNext BY <2>4, <2>5 DEF SlowPs2KeyNext, Ps2Keys
  <2>6. CASE Ps2KeyNext BY <2>4, <2>6 DEF Ps2KeyNext
  <2>7. CASE UsbKeyNext BY <2>2, <2>3, <2>7 DEF UsbKeyNext
  <2>8. CASE Getkey BY <2>0, <2>8, GetkeyKeepsKeys, ReadingKeepsPs2
  <2> QED BY <2>1, <2>5, <2>6, <2>7, <2>8 DEF InputNext, inputVars
<1>3. I => KeysAreTrue
  <2> SUFFICES ASSUME UsbKeyInv, Ps2Inv PROVE EveryPressIsCounted /\ RepeatsNeedAHand /\ Ps2MapsAgree
    BY DEF KeysAreTrue
  <2>1. KeyShape /\ HandsInv /\ CountInv BY DEF UsbKeyInv
  <2>2. EveryPressIsCounted
    <3>1. Noted(kbd.report) = 0
      <4>1. kbd.report \in Seq(Codes) BY <2>1 DEF KeyShape
      <4>2. \A n \in DOMAIN kbd.report : kbd.report[n] \in ToSet(kbd.report) BY DEF ToSet
      <4> QED BY <4>1, <4>2, NothingNew DEF Noted
    <3>2. poll.events \in Nat BY <2>1 DEF KeyShape
    <3> QED BY <2>1, <3>1, <3>2 DEF CountInv, EveryPressIsCounted
  <2>3. RepeatsNeedAHand BY <2>1 DEF HandsInv, RepeatsNeedAHand
  <2>4. Ps2MapsAgree
    <3> SUFFICES ASSUME fifo = << >>, ~seen.lost PROVE Agrees(dec, held) BY DEF Ps2MapsAgree, Agrees
    <3>1. PICK e \in DecState : ReadTo(dec, fifo, e) /\ Agrees(e, held) BY DEF Ps2Inv
    <3>2. e = dec BY <3>1 DEF ReadTo, Reading
    <3> QED BY <3>1, <3>2
  <2> QED BY <2>2, <2>3, <2>4
<1> QED BY <1>1, <1>2, <1>3, PTL DEF InputSpec
---------------------------------------------------------------------------
(* The bus.  A device's interfaces are mounted in their order, an instance    *)
(* is one interface's, and what is being enumerated is there, unless it went  *)
(* while its set_config waited.                                              *)
BusInv ==
  /\ shelf \subseteq UNION Shelves
  /\ bus \in [Addresses -> [kind : (UNION Shelves) \cup {NoDevice.kind}, next : Nat]]
  /\ \A a \in Addresses : bus[a] # NoDevice =>
       bus[a].kind \in UNION Shelves /\ bus[a].next \in 1..Len(bus[a].kind.itfs) + 1
HidsInv ==
  /\ hids \in [1..Instances -> [addr : Nat, itf : Nat]]
  /\ \A i \in 1..Instances : hids[i] # NoItf =>
       /\ hids[i].addr \in Addresses /\ bus[hids[i].addr] # NoDevice
       /\ bus[hids[i].addr].kind.driver = "hid"
       /\ hids[i].itf \in 1..Len(bus[hids[i].addr].kind.itfs)
  /\ \A i, j \in 1..Instances : hids[i] = hids[j] /\ hids[i] # NoItf => i = j
OpeningInv ==
  /\ opening \in Addresses \cup {0} /\ waiting \in BOOLEAN
  /\ waiting =>
       /\ opening # 0
       /\ bus[opening] = NoDevice \/ (bus[opening].kind.driver # "hid" /\ bus[opening].next = 1)
  /\ opening # 0 /\ ~waiting =>
       bus[opening] # NoDevice /\ bus[opening].next <= Len(bus[opening].kind.itfs)
Wiring == BusInv /\ HidsInv /\ OpeningInv

(* What the assumption says of a device.                                    *)
LEMMA Devices ==
  ASSUME NEW k \in UNION Shelves
  PROVE  /\ k \in Device /\ Len(k.itfs) \in Nat \ {0} /\ (k.driver # "hid" => Len(k.itfs) = 1)
         /\ DOMAIN k.itfs = 1..Len(k.itfs)
         /\ \A n \in 1..Len(k.itfs) : k.itfs[n] \in [protocol : {"none", "keyboard", "mouse", "xinput"},
               reports : Seq([usage : {"keyboard", "mouse", "gamepad", "consumer"}, id : Nat])]
<1> DEFINE Itfs == [protocol : {"none", "keyboard", "mouse", "xinput"},
               reports : Seq([usage : {"keyboard", "mouse", "gamepad", "consumer"}, id : Nat])]
<1>1. k \in Device /\ IF k.driver = "hid" THEN k.itfs # << >> ELSE Len(k.itfs) = 1 BY UsbAssumption
<1>2. k.itfs \in Seq(Itfs) BY <1>1 DEF Device
<1> HIDE DEF Itfs
<1>3. Len(k.itfs) \in Nat /\ DOMAIN k.itfs = 1..Len(k.itfs) /\ (k.itfs # << >> => Len(k.itfs) # 0)
      /\ \A n \in 1..Len(k.itfs) : k.itfs[n] \in Itfs
  BY <1>2, EmptySeq
<1> QED BY <1>1, <1>3 DEF Itfs

(* Addresses and instances are numbers from one up.                         *)
LEMMA Places ==
  /\ Addresses \subseteq Nat \ {0} /\ Instances \in Nat \ {0} /\ IsFiniteSet(Addresses)
<1>1. Cardinality(Addresses) \in Nat BY UsbAssumption, FS_CardinalityType
<1> QED BY <1>1, UsbAssumption

(* One more interface is mounted.                                           *)
LEMMA OpenedBus ==
  ASSUME BusInv, NEW a \in Addresses, bus[a] # NoDevice, bus' = [bus EXCEPT ![a].next = @ + 1]
  PROVE  /\ bus' \in [Addresses -> [kind : (UNION Shelves) \cup {NoDevice.kind}, next : Nat]]
         /\ \A b \in Addresses \ {a} : bus'[b] = bus[b]
         /\ bus'[a].kind = bus[a].kind /\ bus'[a].next = bus[a].next + 1 /\ bus'[a] # NoDevice
         /\ \A b \in Addresses : bus'[b].kind = bus[b].kind /\ (bus'[b] = NoDevice <=> bus[b] = NoDevice)
<1>1. bus[a] \in [kind : (UNION Shelves) \cup {NoDevice.kind}, next : Nat] /\ bus[a].next \in Nat BY DEF BusInv
<1>2. bus' = [bus EXCEPT ![a] = [kind |-> bus[a].kind, next |-> bus[a].next + 1]]
  <2>1. [bus[a] EXCEPT !.next = bus[a].next + 1] = [kind |-> bus[a].kind, next |-> bus[a].next + 1] BY <1>1
  <2>2. bus' = [bus EXCEPT ![a] = [bus[a] EXCEPT !.next = bus[a].next + 1]] BY Zenon
  <2> QED BY <2>1, <2>2
<1> DEFINE d == [kind |-> bus[a].kind, next |-> bus[a].next + 1]
<1>3. d \in [kind : (UNION Shelves) \cup {NoDevice.kind}, next : Nat] /\ d.kind = bus[a].kind /\ d.next = bus[a].next + 1
  BY <1>1
<1>4. d # NoDevice
  <2>1. NoDevice.next = 0 BY DEF NoDevice
  <2>2. d.next # 0 BY <1>1, <1>3
  <2> HIDE DEF d
  <2> QED BY <2>1, <2>2
<1> HIDE DEF d
<1>5. bus' = [bus EXCEPT ![a] = d] BY <1>2 DEF d
<1> QED BY <1>3, <1>4, <1>5 DEF BusInv

(* HidMount, step by step of the wiring.                                    *)
HidMounted(i) ==
  /\ i \in (1..Instances) \ Mounted /\ opening \in Addresses /\ ~waiting
  /\ hids[i] = [addr |-> opening, itf |-> bus[opening].next] /\ bus[opening].kind.driver = "hid"
  /\ bus[opening] # NoDevice /\ bus'[opening].next = bus[opening].next + 1 /\ bus'[opening] # NoDevice
  /\ hids' = hids /\ \A b \in Addresses : bus'[b].kind = bus[b].kind /\ (b # opening => bus'[b] = bus[b])
  /\ Mounted' = Mounted \cup {i} /\ MountedPads' = MountedPads
(* Mounting an interface keeps the wiring, and mounts that one.             *)
LEMMA MountWires ==
  ASSUME Wiring, HidMount
  PROVE  Wiring' /\ \A i \in InstancesOf(opening) : hids[i].itf = bus[opening].next => HidMounted(i)
<1>1. BusInv /\ HidsInv /\ OpeningInv BY DEF Wiring
<1>3. /\ bus' = [bus EXCEPT ![opening].next = @ + 1] /\ hids' = hids /\ shelf' = shelf /\ waiting' = waiting
      /\ opening' = IF bus[opening].next = Len(bus[opening].kind.itfs) THEN 0 ELSE opening
  BY DEF HidMount, Opened
<1> DEFINE o == opening
<1> SUFFICES ASSUME NEW i \in InstancesOf(opening), hids[i].itf = bus[opening].next PROVE Wiring' /\ HidMounted(i)
  <2>1. PICK i \in InstancesOf(opening) : hids[i].itf = bus[opening].next BY DEF HidMount
  <2> QED BY <2>1
<1>2. i \in InstancesOf(o) /\ hids[i].itf = bus[o].next OBVIOUS
<1>4. i \in 1..Instances /\ hids[i] # NoItf /\ hids[i].addr = o BY <1>2 DEF InstancesOf
<1>5. o \in Addresses /\ o # 0 /\ bus[o] # NoDevice /\ bus[o].kind.driver = "hid" /\ ~waiting
  BY <1>1, <1>4, Places DEF HidsInv, OpeningInv
<1>6. /\ bus' \in [Addresses -> [kind : (UNION Shelves) \cup {NoDevice.kind}, next : Nat]]
      /\ \A b \in Addresses \ {o} : bus'[b] = bus[b]
      /\ bus'[o].kind = bus[o].kind /\ bus'[o].next = bus[o].next + 1 /\ bus'[o] # NoDevice
      /\ \A b \in Addresses : bus'[b].kind = bus[b].kind /\ (bus'[b] = NoDevice <=> bus[b] = NoDevice)
  BY <1>1, <1>3, <1>5, OpenedBus
<1>7. bus[o].kind \in UNION Shelves /\ bus[o].next \in Nat /\ Len(bus[o].kind.itfs) \in Nat
      /\ bus[o].next >= 1 /\ bus[o].next <= Len(bus[o].kind.itfs)
  BY <1>1, <1>5, Devices DEF BusInv, OpeningInv
<1>8. BusInv'
  <2>1. bus'[o].next \in 1..Len(bus'[o].kind.itfs) + 1 BY <1>6, <1>7
  <2> QED BY <1>1, <1>3, <1>6, <1>7, <2>1 DEF BusInv
<1>9. HidsInv' BY <1>1, <1>3, <1>6 DEF HidsInv
<1>10. OpeningInv'
  <2>1. opening' = o => bus'[o].next <= Len(bus'[o].kind.itfs) BY <1>3, <1>5, <1>6, <1>7
  <2>2. opening' = 0 \/ opening' = o BY <1>3
  <2>3. waiting' = FALSE BY <1>1, <1>3, <1>5 DEF OpeningInv
  <2>4. bus'[o] # NoDevice' BY <1>6 DEF NoDevice
  <2> HIDE DEF o
  <2> QED BY <1>5, <2>1, <2>2, <2>3, <2>4 DEF OpeningInv
<1>11. hids[i] = [addr |-> o, itf |-> bus[o].next] BY <1>1, <1>2, <1>4 DEF HidsInv
<1>12. ASSUME NEW j \in 1..Instances PROVE j \in Mounted' <=> j \in Mounted \cup {i}
  <2>1. CASE hids[j] = NoItf BY <1>3, <1>4, <2>1 DEF Mounted
  <2>2. CASE hids[j] # NoItf /\ hids[j].addr # o
    <3>1. hids[j].addr \in Addresses \ {o} BY <1>1, <2>2 DEF HidsInv
    <3> QED BY <1>3, <1>4, <1>6, <2>2, <3>1 DEF Mounted
  <2>3. CASE hids[j] # NoItf /\ hids[j].addr = o
    <3>1. hids[j].itf \in Nat /\ hids[j] = [addr |-> o, itf |-> hids[j].itf] BY <1>1, <2>3 DEF HidsInv
    <3>2. hids[j].itf = bus[o].next <=> j = i BY <1>1, <1>4, <1>11, <3>1 DEF HidsInv
    <3>3. hids[j].itf < bus[o].next + 1 <=> hids[j].itf < bus[o].next \/ hids[j].itf = bus[o].next BY <1>7, <3>1
    <3>4. j \in Mounted <=> hids[j].itf < bus[o].next BY <2>3 DEF Mounted
    <3>5. j \in Mounted' <=> hids[j].itf < bus[o].next + 1 BY <1>3, <1>6, <2>3 DEF Mounted
    <3> QED BY <3>2, <3>3, <3>4, <3>5
  <2> QED BY <2>1, <2>2, <2>3
<1>13. Mounted' = Mounted \cup {i} BY <1>3, <1>4, <1>12 DEF Mounted
<1>14. i \notin Mounted BY <1>2, <1>4, <1>7 DEF Mounted
<1>15. MountedPads' = MountedPads BY <1>5, <1>6 DEF MountedPads
<1> QED BY <1>2, <1>3, <1>4, <1>5, <1>6, <1>8, <1>9, <1>10, <1>11, <1>13, <1>14, <1>15 DEF Wiring, HidMounted

(* The members of a finite set, in their order.                             *)
LEMMA Ranks ==
  ASSUME NEW S \in SUBSET Nat, IsFiniteSet(S)
  PROVE  /\ Cardinality(S) \in Nat
         /\ \A i \in S : Rank(S, i) \in 1..Cardinality(S) /\ Nth(S, Rank(S, i)) = i
         /\ \A n \in 1..Cardinality(S) : Nth(S, n) \in S /\ Rank(S, Nth(S, n)) = n
<1> DEFINE c == Cardinality(S)  T == 1..c  f == [i \in S |-> Rank(S, i)]
<1>1. c \in Nat BY FS_CardinalityType
<1>2. ASSUME NEW i \in S PROVE Rank(S, i) \in T
  <2> DEFINE B == {j \in S : j <= i}
  <2>1. IsFiniteSet(B) /\ Cardinality(B) <= c /\ Cardinality(B) \in Nat BY FS_Subset, FS_CardinalityType
  <2>2. i \in B BY <1>2
  <2>3. Cardinality(B) # 0 BY <2>1, <2>2, FS_EmptySet
  <2> HIDE DEF c
  <2> QED BY <1>1, <2>1, <2>3 DEF Rank
<1>3. ASSUME NEW i \in S, NEW j \in S, i < j PROVE Rank(S, i) # Rank(S, j)
  <2> DEFINE B == {m \in S : m <= i}  D == {m \in S : m <= j}
  <2>0. i \in Nat /\ j \in Nat /\ \A m \in S : m \in Nat OBVIOUS
  <2>1. B \in SUBSET D /\ j \in D /\ j \notin B
    <3>1. \A m \in S : m <= i => m <= j BY <1>3, <2>0
    <3>2. ~(j <= i) /\ j <= j BY <1>3, <2>0
    <3> QED BY <3>1, <3>2
  <2>2. IsFiniteSet(D) BY FS_Subset
  <2>3. Cardinality(D) = Cardinality(B) => D = B BY <2>1, <2>2, FS_Subset
  <2> QED BY <2>1, <2>3 DEF Rank
<1>4. f \in [S -> T] BY <1>2
<1>5. \A i, j \in S : Rank(S, i) = Rank(S, j) => i = j
  <2> SUFFICES ASSUME NEW i \in S, NEW j \in S, i # j PROVE Rank(S, i) # Rank(S, j) OBVIOUS
  <2>1. i < j \/ j < i OBVIOUS
  <2> QED BY <1>3, <2>1
<1>6. f \in Injection(S, T)
  <2>1. \A i, j \in S : f[i] = f[j] => i = j BY <1>5
  <2> HIDE DEF f
  <2> QED BY <1>4, <2>1 DEF Injection, IsInjective
<1>7. IsFiniteSet(T) /\ Cardinality(T) = c
  <2>1. IsFiniteSet(T) /\ Cardinality(T) = IF 1 > c THEN 0 ELSE c - 1 + 1 BY <1>1, FS_Interval
  <2> HIDE DEF c
  <2> QED BY <1>1, <2>1
<1>8. f \in Surjection(S, T)
  <2>1. f \in Injection(S, T) => (Cardinality(S) = Cardinality(T) <=> f \in Surjection(S, T)) BY <1>7, FS_Injection
  <2> QED BY <1>6, <1>7, <2>1 DEF c
<1>9. \A n \in T : \E i \in S : Rank(S, i) = n
  <2>1. \A n \in T : \E i \in S : f[i] = n
    <3> HIDE DEF f
    <3> QED BY <1>8 DEF Surjection
  <2> QED BY <2>1
<1>10. ASSUME NEW n \in T PROVE Nth(S, n) \in S /\ Rank(S, Nth(S, n)) = n BY <1>9 DEF Nth
<1>11. ASSUME NEW i \in S PROVE Nth(S, Rank(S, i)) = i
  <2>1. Nth(S, Rank(S, i)) \in S /\ Rank(S, Nth(S, Rank(S, i))) = Rank(S, i) BY <1>2, <1>10
  <2> QED BY <1>5, <2>1
<1> QED BY <1>1, <1>2, <1>10, <1>11 DEF c, T

(* A pad's set_config begins to wait, or mounts it at once.                  *)
PadMounted ==
  /\ opening \in Addresses \ MountedPads /\ bus[opening] # NoDevice /\ bus[opening].kind.driver # "hid"
  /\ bus[opening].next = 1 /\ bus'[opening].kind = bus[opening].kind /\ bus'[opening].next = 2
  /\ bus'[opening] # NoDevice
  /\ \A b \in Addresses \ {opening} : bus'[b] = bus[b]
  /\ hids' = hids /\ Mounted' = Mounted /\ MountedPads' = MountedPads \cup {opening}
(* Mounting an XInput pad keeps the wiring, and mounts that one.            *)
LEMMA PadWires ==
  ASSUME Wiring, opening # 0, bus[opening] # NoDevice, bus[opening].kind.driver # "hid", bus[opening].next = 1,
         Opened(opening), shelf' = shelf, hids' = hids, waiting' = FALSE
  PROVE  Wiring' /\ PadMounted
<1>1. BusInv /\ HidsInv /\ OpeningInv BY DEF Wiring
<1> DEFINE o == opening
<1>2. o \in Addresses /\ o # 0 BY <1>1 DEF OpeningInv
<1>3. bus' = [bus EXCEPT ![o].next = @ + 1] /\ opening' = IF bus[o].next = Len(bus[o].kind.itfs) THEN 0 ELSE o
  BY DEF Opened
<1>4. /\ bus' \in [Addresses -> [kind : (UNION Shelves) \cup {NoDevice.kind}, next : Nat]]
      /\ \A b \in Addresses \ {o} : bus'[b] = bus[b]
      /\ bus'[o].kind = bus[o].kind /\ bus'[o].next = bus[o].next + 1 /\ bus'[o] # NoDevice
      /\ \A b \in Addresses : bus'[b].kind = bus[b].kind /\ (bus'[b] = NoDevice <=> bus[b] = NoDevice)
  BY <1>1, <1>2, <1>3, OpenedBus
<1>5. bus[o].kind \in UNION Shelves /\ Len(bus[o].kind.itfs) = 1 BY <1>1, <1>2, Devices DEF BusInv
<1>6. opening' = 0 BY <1>3, <1>5
<1>7. BusInv'
  <2>1. bus'[o].next \in 1..Len(bus'[o].kind.itfs) + 1 BY <1>4, <1>5
  <2> QED BY <1>1, <1>4, <1>5, <2>1 DEF BusInv
<1>8. HidsInv' BY <1>1, <1>4 DEF HidsInv
<1>9. OpeningInv' BY <1>6 DEF OpeningInv
<1>10. Mounted' = Mounted
  <2> SUFFICES ASSUME NEW j \in 1..Instances, hids[j] # NoItf PROVE bus'[hids[j].addr] = bus[hids[j].addr]
    BY DEF Mounted, NoItf
  <2>1. hids[j].addr \in Addresses /\ bus[hids[j].addr].kind.driver = "hid" BY <1>1 DEF HidsInv
  <2> QED BY <1>4, <2>1
<1>11. o \notin MountedPads BY DEF MountedPads
<1>12. ASSUME NEW b \in Addresses PROVE b \in MountedPads' <=> b \in MountedPads \cup {o}
  <2>1. CASE b = o BY <1>2, <1>4, <2>1 DEF MountedPads, NoDevice
  <2>2. CASE b # o BY <1>4, <2>2 DEF MountedPads, NoDevice
  <2> QED BY <2>1, <2>2
<1>13. MountedPads' = MountedPads \cup {o} BY <1>2, <1>12 DEF MountedPads
<1> QED BY <1>2, <1>4, <1>7, <1>8, <1>9, <1>10, <1>11, <1>13 DEF Wiring, PadMounted

(* A pad's set_config keeps the wiring, whether it waits or mounts.         *)
LEMMA ConfigWires ==
  ASSUME Wiring, SetConfig
  PROVE  /\ Wiring'
         /\ \/ /\ UNCHANGED <<bus, slots, armed, opening>> /\ bus[opening] # NoDevice
               /\ Mounted' = Mounted /\ MountedPads' = MountedPads
            \/ XinputMount(opening) /\ PadMounted
<1>1. BusInv /\ HidsInv /\ OpeningInv BY DEF Wiring
<1>2. opening # 0 /\ ~waiting /\ bus[opening].kind.driver # "hid" /\ shelf' = shelf /\ hids' = hids BY DEF SetConfig
<1>3. opening \in Addresses /\ bus[opening] # NoDevice /\ bus[opening].next <= Len(bus[opening].kind.itfs)
  BY <1>1, <1>2 DEF OpeningInv
<1>4. bus[opening].next = 1
  <2>1. bus[opening].kind \in UNION Shelves /\ bus[opening].next \in 1..Len(bus[opening].kind.itfs) + 1
    BY <1>1, <1>3 DEF BusInv
  <2>2. Len(bus[opening].kind.itfs) = 1 BY <1>2, <2>1, Devices
  <2> QED BY <1>3, <2>1, <2>2
<1>5. CASE Initialised(bus[opening].kind)
  <2>1. waiting' = TRUE /\ UNCHANGED <<bus, slots, armed, opening>> BY <1>5 DEF SetConfig
  <2>2. BusInv' BY <1>1, <1>2, <2>1 DEF BusInv
  <2>3. HidsInv' BY <1>1, <1>2, <2>1 DEF HidsInv
  <2>4. OpeningInv' BY <1>2, <1>3, <1>4, <2>1 DEF OpeningInv, NoDevice
  <2>5. Mounted' = Mounted /\ MountedPads' = MountedPads BY <1>2, <2>1 DEF Mounted, MountedPads
  <2> QED BY <1>3, <2>1, <2>2, <2>3, <2>4, <2>5 DEF Wiring
<1>6. CASE ~Initialised(bus[opening].kind)
  <2>1. XinputMount(opening) /\ Opened(opening) /\ waiting' = waiting BY <1>6 DEF SetConfig
  <2>2. waiting' = FALSE BY <1>1, <1>2, <2>1 DEF OpeningInv
  <2> QED BY <1>2, <1>3, <1>4, <2>1, <2>2, PadWires
<1> QED BY <1>5, <1>6

(* The wait is over.                                                        *)
LEMMA SentWires ==
  ASSUME Wiring, Sent
  PROVE  /\ Wiring'
         /\ \/ /\ bus' = bus /\ bus[opening] = NoDevice /\ opening \in Addresses
               /\ Mounted' = Mounted /\ MountedPads' = MountedPads
            \/ PadMounted
<1>1. BusInv /\ HidsInv /\ OpeningInv BY DEF Wiring
<1>2. waiting /\ waiting' = FALSE /\ shelf' = shelf /\ hids' = hids BY DEF Sent
<1>3. opening \in Addresses /\ opening # 0 BY <1>1, <1>2 DEF OpeningInv
<1>4. CASE bus[opening] = NoDevice
  <2>1. opening' = 0 /\ bus' = bus BY <1>4 DEF Sent
  <2>2. BusInv' BY <1>1, <1>2, <2>1 DEF BusInv
  <2>3. HidsInv' BY <1>1, <1>2, <2>1 DEF HidsInv
  <2>4. OpeningInv' BY <1>2, <2>1 DEF OpeningInv
  <2>5. Mounted' = Mounted /\ MountedPads' = MountedPads BY <1>2, <2>1 DEF Mounted, MountedPads
  <2> QED BY <1>3, <1>4, <2>1, <2>2, <2>3, <2>4, <2>5 DEF Wiring
<1>5. CASE bus[opening] # NoDevice
  <2>1. Opened(opening) BY <1>5 DEF Sent
  <2>2. bus[opening].kind.driver # "hid" /\ bus[opening].next = 1 BY <1>1, <1>2, <1>5 DEF OpeningInv
  <2> QED BY <1>2, <1>3, <1>5, <2>1, <2>2, PadWires
<1> QED BY <1>4, <1>5

(* A device comes to the lowest free address, and its interfaces to the      *)
(* lowest free instances.  None is mounted yet.                              *)
Attached(k, a) ==
  /\ a \in Addresses /\ bus[a] = NoDevice /\ k \in UNION Shelves /\ ~waiting
  /\ bus'[a] = [kind |-> k, next |-> 1] /\ bus'[a] # NoDevice /\ bus'[a].kind = k /\ bus'[a].next = 1
  /\ \A b \in Addresses \ {a} : bus'[b] = bus[b]
  /\ \A i \in 1..Instances : hids[i] # NoItf => hids'[i] = hids[i] /\ hids[i].addr # a
  /\ Mounted' = Mounted /\ MountedPads' = MountedPads
(* Attaching a device keeps the wiring.                                     *)
LEMMA AttachWires ==
  ASSUME Wiring, NEW k \in shelf, Attach(k)
  PROVE  Wiring' /\ Attached(k, Min({a \in Addresses : bus[a] = NoDevice}))
<1>1. BusInv /\ HidsInv /\ OpeningInv BY DEF Wiring
<1> DEFINE spare == {b \in Addresses : bus[b] = NoDevice}
           a == Min(spare)
           idle == {i \in 1..Instances : hids[i] = NoItf}
           new == [kind |-> k, next |-> 1]
           given(i) == IF \E n \in DOMAIN k.itfs : Nth(idle, n) = i
                         THEN [addr |-> a, itf |-> CHOOSE n \in DOMAIN k.itfs : Nth(idle, n) = i]
                         ELSE hids[i]
<1>2. a \in Addresses /\ bus[a] = NoDevice
  <2>1. spare \in SUBSET Nat /\ spare # {} BY Places DEF Attach
  <2>2. a \in spare BY <2>1, LeastOf
  <2> QED BY <2>2
<1>3. k \in UNION Shelves /\ Len(k.itfs) \in Nat \ {0} /\ DOMAIN k.itfs = 1..Len(k.itfs) BY <1>1, Devices DEF BusInv
<1>4. /\ opening = 0 /\ opening' = a /\ waiting' = waiting /\ shelf' = shelf
      /\ bus' = [bus EXCEPT ![a] = new]
      /\ k.driver = "hid" => Cardinality(idle) >= Len(k.itfs)
      /\ k.driver = "hid" => hids' = [i \in 1..Instances |-> given(i)]
      /\ k.driver # "hid" => hids' = hids
  BY DEF Attach
<1>5. new \in [kind : (UNION Shelves) \cup {NoDevice.kind}, next : Nat] /\ new.kind = k /\ new.next = 1 /\ new # NoDevice
  <2>1. new.next # NoDevice.next BY DEF NoDevice
  <2> QED BY <1>3, <2>1
<1>6. ~waiting BY <1>1, <1>4 DEF OpeningInv
<1>7. /\ bus'[a] = new /\ \A b \in Addresses \ {a} : bus'[b] = bus[b]
      /\ bus' \in [Addresses -> [kind : (UNION Shelves) \cup {NoDevice.kind}, next : Nat]]
  <2> HIDE DEF new, a
  <2> QED BY <1>1, <1>2, <1>4, <1>5 DEF BusInv
<1> HIDE DEF new, a, idle
<1>8. BusInv'
  <2>1. bus'[a].kind \in UNION Shelves /\ bus'[a].next \in 1..Len(bus'[a].kind.itfs) + 1 BY <1>3, <1>5, <1>7
  <2> QED BY <1>1, <1>3, <1>4, <1>7, <2>1 DEF BusInv
<1>9. ASSUME NEW i \in 1..Instances, hids[i] # NoItf PROVE hids'[i] = hids[i] /\ hids[i].addr # a
  <2>1. hids[i].addr # a BY <1>1, <1>2, <1>9 DEF HidsInv
  <2>2. CASE k.driver = "hid"
    <3>1. idle \in SUBSET Nat /\ IsFiniteSet(idle)
      <4>1. idle \subseteq 1..Instances BY DEF idle
      <4>2. IsFiniteSet(1..Instances) BY Places, FS_Interval
      <4>3. idle \in SUBSET (1..Instances) /\ idle \in SUBSET Nat BY <4>1
      <4> QED BY <4>2, <4>3, FS_Subset
    <3>2. i \notin idle BY <1>9 DEF idle
    <3>3. ASSUME NEW n \in DOMAIN k.itfs PROVE Nth(idle, n) \in idle
      <4>1. n \in 1..Cardinality(idle) BY <1>3, <1>4, <2>2, <3>1, Ranks
      <4> QED BY <3>1, <4>1, Ranks
    <3>4. given(i) = hids[i] BY <3>2, <3>3
    <3> QED BY <1>4, <2>1, <2>2, <3>4
  <2>3. CASE k.driver # "hid" BY <1>4, <2>1, <2>3
  <2> QED BY <2>2, <2>3
<1>10. ASSUME NEW i \in 1..Instances, hids[i] = NoItf, hids'[i] # NoItf
       PROVE  /\ k.driver = "hid" /\ hids'[i] \in [addr : Nat, itf : Nat] /\ hids'[i].addr = a
              /\ hids'[i].itf \in DOMAIN k.itfs /\ Nth(idle, hids'[i].itf) = i
  <2>1. k.driver = "hid" /\ hids'[i] = given(i) BY <1>4, <1>10
  <2>2. \E n \in DOMAIN k.itfs : Nth(idle, n) = i BY <1>10, <2>1
  <2> DEFINE m == CHOOSE n \in DOMAIN k.itfs : Nth(idle, n) = i
  <2>3. m \in DOMAIN k.itfs /\ Nth(idle, m) = i BY <2>2
  <2>4. given(i) = [addr |-> a, itf |-> m] BY <2>2
  <2> HIDE DEF m
  <2> QED BY <1>2, <1>3, <2>1, <2>3, <2>4, Places
<1>11. HidsInv'
  <2>1. ASSUME NEW i \in 1..Instances PROVE hids'[i] \in [addr : Nat, itf : Nat]
    <3>1. hids[i] \in [addr : Nat, itf : Nat] BY <1>1 DEF HidsInv
    <3>2. NoItf \in [addr : Nat, itf : Nat] BY DEF NoItf
    <3> QED BY <1>9, <1>10, <3>1, <3>2
  <2>2. \E f : hids' = [i \in 1..Instances |-> f[i]] BY <1>1, <1>4 DEF HidsInv
  <2>3. hids' \in [1..Instances -> [addr : Nat, itf : Nat]] BY <2>1, <2>2
  <2>4. ASSUME NEW i \in 1..Instances, hids'[i] # NoItf
        PROVE  /\ hids'[i].addr \in Addresses /\ bus'[hids'[i].addr] # NoDevice
               /\ bus'[hids'[i].addr].kind.driver = "hid"
               /\ hids'[i].itf \in 1..Len(bus'[hids'[i].addr].kind.itfs)
    <3>1. CASE hids[i] = NoItf BY <1>2, <1>3, <1>5, <1>7, <1>10, <2>4, <3>1
    <3>2. CASE hids[i] # NoItf
      <4>1. hids'[i] = hids[i] /\ hids[i].addr # a BY <1>9, <3>2
      <4> QED BY <1>1, <1>7, <3>2, <4>1 DEF HidsInv
    <3> QED BY <3>1, <3>2
  <2>5. ASSUME NEW i \in 1..Instances, NEW j \in 1..Instances, hids'[i] = hids'[j], hids'[i] # NoItf PROVE i = j
    <3>1. CASE hids[i] = NoItf /\ hids[j] = NoItf BY <1>10, <2>5, <3>1
    <3>2. CASE hids[i] = NoItf /\ hids[j] # NoItf BY <1>9, <1>10, <2>5, <3>2
    <3>3. CASE hids[i] # NoItf /\ hids[j] = NoItf BY <1>9, <1>10, <2>5, <3>3
    <3>4. CASE hids[i] # NoItf /\ hids[j] # NoItf BY <1>1, <1>9, <2>5, <3>4 DEF HidsInv
    <3> QED BY <3>1, <3>2, <3>3, <3>4
  <2> QED BY <2>3, <2>4, <2>5 DEF HidsInv, NoDevice, NoItf
<1>12. OpeningInv'
  <2>1. bus'[a] # NoDevice /\ bus'[a].next <= Len(bus'[a].kind.itfs) BY <1>3, <1>5, <1>7
  <2>2. opening' = a /\ waiting' = FALSE BY <1>1, <1>4, <1>6 DEF OpeningInv
  <2>3. bus'[a] # NoDevice' BY <2>1 DEF NoDevice
  <2> QED BY <1>2, <2>1, <2>2, <2>3 DEF OpeningInv
<1>13. ASSUME NEW i \in 1..Instances PROVE i \in Mounted' <=> i \in Mounted
  <2>1. CASE hids[i] = NoItf /\ hids'[i] = NoItf BY <2>1 DEF Mounted, NoItf
  <2>2. CASE hids[i] = NoItf /\ hids'[i] # NoItf
    <3>1. hids'[i].addr = a /\ hids'[i].itf \in Nat \ {0} BY <1>3, <1>10, <2>2
    <3>2. ~(hids'[i].itf < bus'[hids'[i].addr].next) BY <1>5, <1>7, <3>1
    <3> QED BY <2>2, <3>2 DEF Mounted
  <2>3. CASE hids[i] # NoItf
    <3>1. hids'[i] = hids[i] /\ bus'[hids[i].addr] = bus[hids[i].addr] BY <1>1, <1>7, <1>9, <2>3 DEF HidsInv
    <3> QED BY <2>3, <3>1 DEF Mounted, NoItf
  <2> QED BY <2>1, <2>2, <2>3
<1>14. Mounted' = Mounted BY <1>13 DEF Mounted
<1>15. MountedPads' = MountedPads
  <2> SUFFICES ASSUME NEW b \in Addresses PROVE b \in MountedPads' <=> b \in MountedPads BY DEF MountedPads
  <2>1. CASE b = a BY <1>2, <1>5, <1>7, <2>1 DEF MountedPads
  <2>2. CASE b # a BY <1>7, <2>2 DEF MountedPads, NoDevice
  <2> QED BY <2>1, <2>2
<1>16. Attached(k, a) BY <1>2, <1>3, <1>5, <1>6, <1>7, <1>9, <1>14, <1>15 DEF Attached, new
<1> QED BY <1>8, <1>11, <1>12, <1>16 DEF Wiring, a

(* A device leaves, and its instances with it.                              *)
Detached(a) ==
  /\ bus[a] # NoDevice /\ bus'[a] = NoDevice /\ \A b \in Addresses \ {a} : bus'[b] = bus[b]
  /\ \A i \in InstancesOf(a) : i \in 1..Instances /\ hids[i].addr = a /\ hids'[i] = NoItf
  /\ \A i \in (1..Instances) \ InstancesOf(a) : hids'[i] = hids[i] /\ (hids[i] # NoItf => hids[i].addr # a)
  /\ Mounted' = Mounted \ InstancesOf(a) /\ MountedPads' = MountedPads \ {a}
(* Detaching one keeps the wiring.                                          *)
LEMMA DetachWires ==
  ASSUME Wiring, NEW a \in Addresses, Detach(a)
  PROVE  Wiring' /\ Detached(a)
<1>1. BusInv /\ HidsInv /\ OpeningInv BY DEF Wiring
<1> DEFINE gone == InstancesOf(a)
<1>2. /\ bus[a] # NoDevice /\ bus' = [bus EXCEPT ![a] = NoDevice]
      /\ hids' = [i \in 1..Instances |-> IF i \in gone THEN NoItf ELSE hids[i]]
      /\ opening' = (IF opening = a /\ ~waiting THEN 0 ELSE opening) /\ waiting' = waiting /\ shelf' = shelf
  BY DEF Detach
<1>3. NoDevice \in [kind : (UNION Shelves) \cup {NoDevice.kind}, next : Nat]
  <2> DEFINE n == [name |-> "none", driver |-> "none", itfs |-> << >>]
  <2>1. NoDevice = [kind |-> n, next |-> 0] BY DEF NoDevice
  <2> HIDE DEF n
  <2>2. NoDevice.kind = n BY <2>1
  <2>3. [kind |-> n, next |-> 0] \in [kind : (UNION Shelves) \cup {n}, next : Nat]
    <3>1. n \in (UNION Shelves) \cup {n} BY Zenon
    <3>2. 0 \in Nat OBVIOUS
    <3> QED BY <3>1, <3>2, Zenon
  <2> QED BY <2>1, <2>2, <2>3, Zenon
<1>4. /\ bus'[a] = NoDevice /\ \A b \in Addresses \ {a} : bus'[b] = bus[b]
      /\ bus' \in [Addresses -> [kind : (UNION Shelves) \cup {NoDevice.kind}, next : Nat]]
  BY <1>1, <1>2, <1>3 DEF BusInv
<1>5. BusInv' BY <1>1, <1>2, <1>4 DEF BusInv, NoDevice
<1>6. \A i \in gone : i \in 1..Instances /\ hids[i].addr = a /\ hids'[i] = NoItf BY <1>2 DEF InstancesOf
<1>7. \A i \in (1..Instances) \ gone : hids'[i] = hids[i] /\ (hids[i] # NoItf => hids[i].addr # a)
  BY <1>2 DEF InstancesOf
<1>8. ASSUME NEW i \in 1..Instances, hids'[i] # NoItf
      PROVE  hids'[i] = hids[i] /\ hids[i] # NoItf /\ hids[i].addr \in Addresses \ {a} /\ bus'[hids[i].addr] = bus[hids[i].addr]
  <2>1. i \notin gone BY <1>6, <1>8
  <2>2. hids'[i] = hids[i] /\ hids[i].addr # a BY <1>7, <1>8, <2>1
  <2> QED BY <1>1, <1>4, <1>8, <2>2 DEF HidsInv
<1>9. HidsInv'
  <2>1. NoItf \in [addr : Nat, itf : Nat] BY DEF NoItf
  <2>2. hids' \in [1..Instances -> [addr : Nat, itf : Nat]]
    <3> HIDE DEF gone
    <3> QED BY <1>1, <1>2, <2>1 DEF HidsInv
  <2>3. ASSUME NEW i \in 1..Instances, hids'[i] # NoItf
        PROVE  /\ hids'[i].addr \in Addresses /\ bus'[hids'[i].addr] # NoDevice
               /\ bus'[hids'[i].addr].kind.driver = "hid"
               /\ hids'[i].itf \in 1..Len(bus'[hids'[i].addr].kind.itfs)
    BY <1>1, <1>8, <2>3 DEF HidsInv
  <2>4. ASSUME NEW i \in 1..Instances, NEW j \in 1..Instances, hids'[i] = hids'[j], hids'[i] # NoItf PROVE i = j
    BY <1>1, <1>8, <2>4 DEF HidsInv
  <2> QED BY <2>2, <2>3, <2>4 DEF HidsInv, NoDevice, NoItf
<1>10. OpeningInv'
  <2>1. CASE opening = a BY <1>1, <1>2, <1>4, <2>1 DEF OpeningInv, NoDevice
  <2>2. CASE opening # a
    <3>1. opening' = opening /\ (opening # 0 => bus'[opening] = bus[opening]) BY <1>1, <1>2, <1>4, <2>2 DEF OpeningInv
    <3> QED BY <1>1, <1>2, <3>1 DEF OpeningInv, NoDevice
  <2> QED BY <2>1, <2>2
<1>11. ASSUME NEW i \in 1..Instances PROVE i \in Mounted' <=> i \in Mounted \ gone
  <2>1. CASE hids'[i] # NoItf
    <3>1. i \notin gone BY <1>6, <2>1
    <3> QED BY <1>8, <2>1, <3>1 DEF Mounted, NoItf
  <2>2. CASE hids'[i] = NoItf BY <1>7, <2>2 DEF Mounted, NoItf
  <2> QED BY <2>1, <2>2
<1>12. Mounted' = Mounted \ gone BY <1>11 DEF Mounted
<1>13. MountedPads' = MountedPads \ {a}
  <2> SUFFICES ASSUME NEW b \in Addresses PROVE b \in MountedPads' <=> b \in MountedPads \ {a} BY DEF MountedPads
  <2> QED BY <1>4 DEF MountedPads, NoDevice
<1> QED BY <1>2, <1>4, <1>5, <1>6, <1>7, <1>9, <1>10, <1>12, <1>13 DEF Wiring, Detached

(* A report changes nothing of it.                                          *)
LEMMA ReportWires ==
  ASSUME Wiring, UNCHANGED <<shelf, bus, hids, opening, waiting>>
  PROVE  Wiring' /\ Mounted' = Mounted /\ MountedPads' = MountedPads
<1>1. BusInv' BY DEF Wiring, BusInv
<1>2. HidsInv' BY DEF Wiring, HidsInv
<1>3. OpeningInv' BY DEF Wiring, OpeningInv
<1>4. Mounted' = Mounted /\ MountedPads' = MountedPads BY DEF Mounted, MountedPads
<1> QED BY <1>1, <1>2, <1>3, <1>4 DEF Wiring

(* Whatever happens, an interface that stays mounted stays what it was.      *)
SameItf(i) ==
  /\ hids'[i] = hids[i] /\ hids[i].addr \in Addresses
  /\ bus'[hids[i].addr].kind = bus[hids[i].addr].kind /\ Itf(i)' = Itf(i)
(* No step moves an interface that stays mounted.                           *)
LEMMA MountedStay ==
  ASSUME Wiring, UsbDevNext
  PROVE  Wiring' /\ \A i \in Mounted \cap Mounted' : SameItf(i)
<1>1. HidsInv BY DEF Wiring
<1> DEFINE Stays == \A i \in Mounted \cap Mounted' :
                      hids'[i] = hids[i] /\ bus'[hids[i].addr].kind = bus[hids[i].addr].kind
<1>2. ASSUME NEW i \in Mounted PROVE i \in 1..Instances /\ hids[i] # NoItf /\ hids[i].addr \in Addresses
  BY <1>1 DEF Mounted, HidsInv
<1>3. ASSUME NEW k \in shelf, Attach(k) PROVE Wiring' /\ Stays
  <2>1. Wiring' /\ Attached(k, Min({a \in Addresses : bus[a] = NoDevice})) BY <1>3, AttachWires
  <2> QED BY <1>2, <2>1 DEF Attached
<1>4. ASSUME NEW a \in Addresses, Detach(a) PROVE Wiring' /\ Stays
  <2>1. Wiring' /\ Detached(a) BY <1>4, DetachWires
  <2>2. ASSUME NEW i \in Mounted \cap Mounted' PROVE hids'[i] = hids[i] /\ bus'[hids[i].addr].kind = bus[hids[i].addr].kind
    <3>1. i \notin InstancesOf(a) BY <2>1 DEF Detached
    <3> QED BY <1>2, <2>1, <3>1 DEF Detached
  <2> QED BY <2>1, <2>2
<1>5. ASSUME HidMount PROVE Wiring' /\ Stays
  <2>1. PICK i \in InstancesOf(opening) : hids[i].itf = bus[opening].next BY <1>5 DEF HidMount
  <2>2. Wiring' /\ HidMounted(i) BY <1>5, <2>1, MountWires
  <2> QED BY <1>2, <2>2 DEF HidMounted
<1>6. ASSUME SetConfig PROVE Wiring' /\ Stays
  <2>1. hids' = hids BY <1>6 DEF SetConfig
  <2>2. Wiring' /\ (bus' = bus \/ PadMounted) BY <1>6, ConfigWires
  <2>3. CASE bus' = bus BY <2>1, <2>2, <2>3
  <2>4. CASE PadMounted
    <3>1. \A b \in Addresses : bus'[b].kind = bus[b].kind BY <2>4 DEF PadMounted
    <3> QED BY <1>2, <2>1, <2>2, <3>1
  <2> QED BY <2>2, <2>3, <2>4
<1>7. ASSUME Sent PROVE Wiring' /\ Stays
  <2>1. hids' = hids BY <1>7 DEF Sent
  <2>2. Wiring' /\ (bus' = bus \/ PadMounted) BY <1>7, SentWires
  <2>3. CASE bus' = bus BY <2>1, <2>2, <2>3
  <2>4. CASE PadMounted
    <3>1. \A b \in Addresses : bus'[b].kind = bus[b].kind BY <2>4 DEF PadMounted
    <3> QED BY <1>2, <2>1, <2>2, <3>1
  <2> QED BY <2>2, <2>3, <2>4
<1>8. ASSUME NEW x, HidReport(x) \/ XinputReport(x) PROVE Wiring' /\ Stays
  <2>1. UNCHANGED <<shelf, bus, hids, opening, waiting>> BY <1>8 DEF HidReport, XinputReport
  <2> QED BY <2>1, ReportWires
<1>9. Wiring' /\ Stays BY <1>3, <1>4, <1>5, <1>6, <1>7, <1>8 DEF UsbDevNext
<1> QED BY <1>2, <1>9 DEF SameItf, Itf

(* Who is listened to.                                                      *)
ArmedInv == armed = {<<"hid", i>> : i \in Mounted} \cup {<<"xinput", a>> : a \in MountedPads}
(* Every callback asks for the next transfer of what is mounted.            *)
LEMMA ArmedStays ==
  ASSUME Wiring, ArmedInv, UsbDevNext
  PROVE  ArmedInv'
<1>1. ASSUME NEW k \in shelf, Attach(k) PROVE ArmedInv'
  <2>1. Attached(k, Min({a \in Addresses : bus[a] = NoDevice})) BY <1>1, AttachWires
  <2>2. armed' = armed BY <1>1 DEF Attach
  <2> QED BY <2>1, <2>2 DEF Attached, ArmedInv
<1>2. ASSUME NEW a \in Addresses, Detach(a) PROVE ArmedInv'
  <2>1. Mounted' = Mounted \ InstancesOf(a) /\ MountedPads' = MountedPads \ {a} BY <1>2, DetachWires DEF Detached
  <2>2. armed' = armed \ ({<<"hid", i>> : i \in InstancesOf(a)} \cup {<<"xinput", a>>}) BY <1>2 DEF Detach
  <2>3. \A i : i \in InstancesOf(a) <=> <<"hid", i>> \in {<<"hid", j>> : j \in InstancesOf(a)} OBVIOUS
  <2> QED BY <2>1, <2>2, <2>3 DEF ArmedInv
<1>3. ASSUME HidMount PROVE ArmedInv'
  <2>1. PICK i \in InstancesOf(opening) : hids[i].itf = bus[opening].next /\ armed' = armed \cup {<<"hid", i>>}
    BY <1>3 DEF HidMount
  <2>2. HidMounted(i) BY <1>3, <2>1, MountWires
  <2> QED BY <2>1, <2>2 DEF HidMounted, ArmedInv
<1>4. ASSUME SetConfig PROVE ArmedInv'
  <2>1. CASE armed' = armed /\ Mounted' = Mounted /\ MountedPads' = MountedPads BY <2>1 DEF ArmedInv
  <2>2. CASE XinputMount(opening) /\ PadMounted
    <3>1. armed' = armed \cup {<<"xinput", opening>>} BY <2>2 DEF XinputMount, Listens, PadMounted
    <3> QED BY <2>2, <3>1 DEF PadMounted, ArmedInv
  <2> QED BY <1>4, <2>1, <2>2, ConfigWires
<1>5. ASSUME Sent PROVE ArmedInv'
  <2>0. XinputMount(opening) BY <1>5 DEF Sent
  <2>1. CASE bus[opening] = NoDevice /\ Mounted' = Mounted /\ MountedPads' = MountedPads
    <3>1. armed' = armed BY <2>0, <2>1 DEF XinputMount
    <3> QED BY <2>1, <3>1 DEF ArmedInv
  <2>2. CASE PadMounted
    <3>1. armed' = armed \cup {<<"xinput", opening>>} BY <2>0, <2>2 DEF XinputMount, Listens, PadMounted
    <3> QED BY <2>2, <3>1 DEF PadMounted, ArmedInv
  <2> QED BY <1>5, <2>1, <2>2, SentWires
<1>6. ASSUME NEW x, HidReport(x) \/ XinputReport(x) PROVE ArmedInv'
  <2>1. UNCHANGED <<shelf, bus, hids, opening, waiting>> /\ armed' = armed BY <1>6 DEF HidReport, XinputReport
  <2> QED BY <2>1, ReportWires DEF ArmedInv
<1> QED BY <1>1, <1>2, <1>3, <1>4, <1>5, <1>6 DEF UsbDevNext

(* hid_info has the reports of the interface that is there.                 *)
InfoInv ==
  /\ info = [i \in 1..Instances |-> info[i]]
  /\ \A i \in Mounted : info[i] = Itf(i).reports
(* hid_info follows the mounts, and no stale entry is of a mounted one.     *)
LEMMA InfoStays ==
  ASSUME Wiring, InfoInv, UsbDevNext
  PROVE  InfoInv'
<1>1. CASE HidMount
  <2>1. PICK i \in InstancesOf(opening) :
          hids[i].itf = bus[opening].next /\ info' = [info EXCEPT ![i] = Parsed(i, Itf(i))]
    BY <1>1 DEF HidMount
  <2>2. HidMounted(i) BY <1>1, <2>1, MountWires
  <2>3. Itf(i)' = Itf(i) BY <2>2 DEF HidMounted, Itf
  <2>4. i \in 1..Instances BY <2>2 DEF HidMounted
  <2>5. info' = [j \in 1..Instances |-> IF j = i THEN Itf(i).reports ELSE info[j]] BY <2>1, <2>4 DEF InfoInv, Parsed
  <2>6. ASSUME NEW j \in Mounted' PROVE info'[j] = Itf(j)'.reports
    <3>1. CASE j = i BY <2>3, <2>4, <2>5, <3>1
    <3>2. CASE j # i
      <4>1. j \in Mounted /\ j \in 1..Instances BY <2>2, <2>6, <3>2 DEF HidMounted, Mounted
      <4>2. Itf(j)' = Itf(j) BY <2>6, <4>1, MountedStay DEF SameItf
      <4> QED BY <2>5, <3>2, <4>1, <4>2 DEF InfoInv
    <3> QED BY <3>1, <3>2
  <2>7. info' = [j \in 1..Instances |-> info'[j]] BY <2>5
  <2> QED BY <2>6, <2>7 DEF InfoInv, Itf
<1>2. CASE ~HidMount
  <2>1. info' = info /\ Mounted' \subseteq Mounted
    <3>1. ASSUME NEW k \in shelf, Attach(k) PROVE info' = info /\ Mounted' = Mounted BY <3>1, AttachWires DEF Attach, Attached
    <3>2. ASSUME NEW a \in Addresses, Detach(a) PROVE info' = info /\ Mounted' \subseteq Mounted
      BY <3>2, DetachWires DEF Detach, Detached
    <3>3. ASSUME SetConfig PROVE info' = info /\ Mounted' = Mounted BY <3>3, ConfigWires DEF SetConfig, PadMounted
    <3>4. ASSUME Sent PROVE info' = info /\ Mounted' = Mounted BY <3>4, SentWires DEF Sent, PadMounted
    <3>5. ASSUME NEW x, HidReport(x) \/ XinputReport(x) PROVE info' = info /\ Mounted' = Mounted
      <4>1. UNCHANGED <<shelf, bus, hids, opening, waiting>> /\ info' = info BY <3>5 DEF HidReport, XinputReport
      <4> QED BY <4>1, ReportWires
    <3> QED BY <1>2, <3>1, <3>2, <3>3, <3>4, <3>5 DEF UsbDevNext
  <2>2. \A i \in Mounted' : Itf(i)' = Itf(i) BY <2>1, MountedStay DEF SameItf
  <2> QED BY <2>1, <2>2 DEF InfoInv
<1> QED BY <1>1, <1>2

(* The inventory has each mounted interface once, and nothing else.         *)
Entry(i) == [addr |-> hids[i].addr, inst |-> i, kind |-> Itf(i).protocol, name |-> bus[hids[i].addr].kind.name]
Entries == [addr : Addresses, inst : 1..Instances, kind : {"none", "keyboard", "mouse", "xinput"}, name : STRING]
InventoryInv ==
  /\ inv \in Seq(Entries)
  /\ \A m, n \in DOMAIN inv : inv[m].inst = inv[n].inst => m = n
  /\ \A n \in DOMAIN inv : \E i \in Mounted : inv[n] = Entry(i)
  /\ \A i \in Mounted : \E n \in DOMAIN inv : inv[n] = Entry(i)

(* What the inventory says of an interface is an entry.                     *)
LEMMA EntryIs ==
  ASSUME Wiring, NEW i \in 1..Instances, hids[i] # NoItf
  PROVE  Entry(i) \in Entries
<1> DEFINE k == bus[hids[i].addr].kind
<1>1. k \in UNION Shelves /\ hids[i].addr \in Addresses /\ hids[i].itf \in 1..Len(k.itfs)
  BY DEF Wiring, BusInv, HidsInv
<1>2. Itf(i) = k.itfs[hids[i].itf] BY DEF Itf
<1>3. Itf(i).protocol \in {"none", "keyboard", "mouse", "xinput"} BY <1>1, <1>2, Devices
<1>4. k.name \in STRING BY <1>1, Devices DEF Device
<1> QED BY <1>1, <1>3, <1>4 DEF Entry, Entries

(* The mounted interfaces are finitely many.                                *)
LEMMA MountedAre ==
  /\ Mounted \subseteq 1..Instances /\ IsFiniteSet(Mounted) /\ Cardinality(Mounted) \in Nat
  /\ \A i \in Mounted : hids[i] # NoItf
<1>1. Mounted \in SUBSET (1..Instances) BY DEF Mounted
<1>2. IsFiniteSet(1..Instances) BY Places, FS_Interval
<1> QED BY <1>1, <1>2, FS_Subset, FS_CardinalityType DEF Mounted

(* An entry is known by its instance.                                       *)
LEMMA ByInstance ==
  ASSUME InventoryInv
  PROVE  /\ \A n \in DOMAIN inv : inv[n].inst \in Mounted /\ inv[n] = Entry(inv[n].inst)
         /\ \A i \in Mounted : \E n \in DOMAIN inv : inv[n].inst = i
<1>1. \A i : Entry(i).inst = i BY DEF Entry
<1> QED BY <1>1 DEF InventoryInv

(* The inventory is as long as there are mounted interfaces.                *)
LEMMA ListCounts ==
  ASSUME InventoryInv
  PROVE  Len(inv) = Cardinality(Mounted)
<1> DEFINE l == Len(inv)  f == [n \in 1..l |-> inv[n].inst]
<1>1. l \in Nat /\ DOMAIN inv = 1..l BY DEF InventoryInv
<1>2. f \in [1..l -> Mounted] BY <1>1, ByInstance
<1>3. \A m, n \in 1..l : f[m] = f[n] => m = n BY <1>1 DEF InventoryInv
<1>4. \A i \in Mounted : \E n \in 1..l : f[n] = i BY <1>1, ByInstance
<1> HIDE DEF f
<1>5. f \in Bijection(1..l, Mounted) BY <1>2, <1>3, <1>4 DEF Bijection, Injection, IsInjective, Surjection
<1>6. IsFiniteSet(1..l) /\ Cardinality(1..l) = IF 1 > l THEN 0 ELSE l - 1 + 1 BY <1>1, FS_Interval
<1>7. ExistsBijection(1..l, Mounted) BY <1>5 DEF ExistsBijection
<1>8. Cardinality(Mounted) = Cardinality(1..l) BY <1>6, <1>7, FS_Bijection
<1> HIDE DEF l
<1>9. Cardinality(1..l) = l BY <1>1, <1>6
<1> QED BY <1>8, <1>9 DEF l

(* The inventory is the bus.                                                *)
LEMMA ListTells ==
  ASSUME InventoryInv
  PROVE  InventoryIsTheBus
<1>1. Len(inv) = Cardinality(Mounted) BY ListCounts
<1>2. {Entry(i) : i \in Mounted} = ToSet(inv)
  <2>1. ASSUME NEW i \in Mounted PROVE Entry(i) \in ToSet(inv)
    <3>1. PICK n \in DOMAIN inv : inv[n] = Entry(i) BY DEF InventoryInv
    <3> QED BY <3>1 DEF ToSet
  <2>2. ASSUME NEW n \in DOMAIN inv PROVE inv[n] \in {Entry(i) : i \in Mounted} BY DEF InventoryInv
  <2> QED BY <2>1, <2>2 DEF ToSet
<1>3. inv = << >> <=> Mounted = {}
  <2>1. inv = << >> <=> Len(inv) = 0 BY EmptySeq DEF InventoryInv
  <2> QED BY <1>1, <2>1, MountedAre, FS_EmptySet
<1> QED BY <1>1, <1>2, <1>3 DEF InventoryIsTheBus, HostRow, HubRow, Entry

(* An entry of an interface that stays is still right.                      *)
LEMMA EntriesStay ==
  ASSUME Wiring, UsbDevNext, NEW i \in Mounted, i \in Mounted'
  PROVE  Entry(i)' = Entry(i)
<1>1. SameItf(i) BY MountedStay
<1> QED BY <1>1 DEF SameItf, Entry

(* inv_add and inv_remove keep the inventory true.                          *)
LEMMA ListStays ==
  ASSUME Wiring, InventoryInv, UsbDevNext
  PROVE  InventoryInv'
<1>1. CASE inv' = inv /\ Mounted' = Mounted
  <2>1. \A i \in Mounted : Entry(i)' = Entry(i) BY <1>1, EntriesStay
  <2> QED BY <1>1, <2>1 DEF InventoryInv
<1>2. ASSUME NEW k \in shelf, Attach(k) PROVE InventoryInv'
  BY <1>1, <1>2, AttachWires DEF Attach, Attached
<1>3. ASSUME SetConfig \/ Sent PROVE InventoryInv'
  BY <1>1, <1>3, ConfigWires, SentWires DEF SetConfig, Sent, PadMounted
<1>4. ASSUME NEW x, HidReport(x) \/ XinputReport(x) PROVE InventoryInv'
  <2>1. UNCHANGED <<shelf, bus, hids, opening, waiting, inv>> BY <1>4 DEF HidReport, XinputReport
  <2> QED BY <1>1, <2>1, ReportWires
<1>5. ASSUME HidMount PROVE InventoryInv'
  <2>1. PICK i \in InstancesOf(opening) :
          /\ hids[i].itf = bus[opening].next
          /\ inv' = InvAdd([addr |-> opening, inst |-> i, kind |-> Itf(i).protocol, name |-> bus[opening].kind.name])
    BY <1>5 DEF HidMount
  <2>2. HidMounted(i) BY <1>5, <2>1, MountWires
  <2>3. i \in 1..Instances /\ hids[i].addr = opening /\ hids[i] # NoItf BY <2>1 DEF InstancesOf
  <2>4. inv' = InvAdd(Entry(i)) /\ Entry(i).inst = i /\ Entry(i) \in Entries BY <2>1, <2>3, EntryIs DEF Entry
  <2>5. Entry(i)' = Entry(i) BY <2>2, <2>3 DEF HidMounted, Entry, Itf
  <2> DEFINE e == Entry(i)
  <2>6. ~\E n \in DOMAIN inv : inv[n].inst = i BY <2>2, ByInstance DEF HidMounted
  <2>7. Len(inv) < Instances
    <3>1. IsFiniteSet(1..Instances) /\ Cardinality(1..Instances) = Instances
      <4>1. IsFiniteSet(1..Instances) /\ Cardinality(1..Instances) = IF 1 > Instances THEN 0 ELSE Instances - 1 + 1
        BY Places, FS_Interval
      <4> QED BY <4>1, Places
    <3>2. Mounted \in SUBSET (1..Instances) /\ Mounted # 1..Instances BY <2>2, <2>3, MountedAre DEF HidMounted
    <3>3. Cardinality(Mounted) <= Instances /\ Cardinality(Mounted) # Instances BY <3>1, <3>2, FS_Subset
    <3> QED BY <3>3, ListCounts, MountedAre, Places
  <2>8. inv' = Append(inv, e)
    <3>1. ~(Len(inv) >= Instances) BY <2>7, Places DEF InventoryInv
    <3> QED BY <2>4, <2>6, <3>1 DEF InvAdd
  <2> HIDE DEF e
  <2>9. e \in Entries /\ e.inst = i /\ Entry(i)' = e BY <2>4, <2>5 DEF e
  <2>10. /\ inv' \in Seq(Entries) /\ Len(inv') = Len(inv) + 1 /\ inv'[Len(inv) + 1] = e
         /\ \A n \in 1..Len(inv) : inv'[n] = inv[n]
    BY <2>8, <2>9, AppendProperties DEF InventoryInv
  <2> DEFINE l == Len(inv)
  <2>11. l \in Nat /\ DOMAIN inv = 1..l /\ DOMAIN inv' = 1..l + 1 BY <2>10 DEF InventoryInv
  <2>12. \A n \in 1..l : inv'[n] = inv[n] /\ inv[n].inst # i BY <2>6, <2>10, <2>11
  <2>13. inv'[l + 1] = e BY <2>10
  <2>14. \A n \in 1..l : \E j \in Mounted : inv'[n] = Entry(j) BY <2>11, <2>12 DEF InventoryInv
  <2>15. \A j \in Mounted : \E n \in 1..l : inv'[n] = Entry(j) BY <2>11, <2>12 DEF InventoryInv
  <2>16. \A m, n \in 1..l : inv'[m].inst = inv'[n].inst => m = n BY <2>11, <2>12 DEF InventoryInv
  <2>17. Mounted' = Mounted \cup {i} /\ \A j \in Mounted : Entry(j)' = Entry(j)
    <3>1. UsbDevNext BY <1>5 DEF UsbDevNext
    <3> QED BY <2>2, <3>1, EntriesStay DEF HidMounted
  <2> HIDE DEF l
  <2>18. \A n : n \in 1..l + 1 <=> n \in 1..l \/ n = l + 1 BY <2>11
  <2>19. \A m, n \in DOMAIN inv' : inv'[m].inst = inv'[n].inst => m = n
    BY <2>9, <2>11, <2>12, <2>13, <2>16, <2>18
  <2>20. \A n \in DOMAIN inv' : \E j \in Mounted' : inv'[n] = Entry(j)'
    BY <2>9, <2>11, <2>13, <2>14, <2>17, <2>18
  <2>21. \A j \in Mounted' : \E n \in DOMAIN inv' : inv'[n] = Entry(j)'
    BY <2>9, <2>11, <2>13, <2>15, <2>17, <2>18
  <2> QED BY <2>10, <2>19, <2>20, <2>21 DEF InventoryInv
<1>6. ASSUME NEW a \in Addresses, Detach(a) PROVE InventoryInv'
  <2> DEFINE gone == InstancesOf(a)
             stay == {n \in DOMAIN inv : ~(inv[n].addr = a /\ inv[n].inst \in gone)}
             c == Cardinality(stay)
             seat(n) == Nth(stay, n)
  <2>1. Mounted' = Mounted \ gone BY <1>6, DetachWires DEF Detached
  <2>2. inv' = [n \in 1..c |-> inv[seat(n)]] BY <1>6 DEF Detach, InvRemove
  <2>3. stay \in SUBSET Nat /\ IsFiniteSet(stay)
    <3>1. DOMAIN inv = 1..Len(inv) /\ Len(inv) \in Nat BY DEF InventoryInv
    <3>2. stay \subseteq 1..Len(inv) BY <3>1
    <3>3. IsFiniteSet(1..Len(inv)) BY <3>1, FS_Interval
    <3>4. stay \in SUBSET (1..Len(inv)) BY <3>2
    <3>5. stay \in SUBSET Nat BY <3>1, <3>2
    <3> HIDE DEF stay
    <3> QED BY <3>3, <3>4, <3>5, FS_Subset
  <2>4. ASSUME NEW n \in stay PROVE n \in DOMAIN inv /\ inv[n].inst \in Mounted'
    <3>1. n \in DOMAIN inv /\ inv[n].inst \in Mounted /\ inv[n] = Entry(inv[n].inst) BY ByInstance
    <3>2. inv[n].addr = hids[inv[n].inst].addr BY <3>1 DEF Entry
    <3>3. inv[n].inst \in gone => inv[n].addr = a BY <3>2 DEF InstancesOf
    <3> QED BY <2>1, <3>1, <3>3
  <2>5. ASSUME NEW i \in Mounted' PROVE \E n \in stay : inv[n].inst = i
    <3>1. PICK n \in DOMAIN inv : inv[n].inst = i BY <2>1, ByInstance
    <3> QED BY <2>1, <3>1
  <2> HIDE DEF stay, gone
  <2>6. /\ c \in Nat
        /\ \A n \in stay : Rank(stay, n) \in 1..c /\ seat(Rank(stay, n)) = n
        /\ \A n \in 1..c : seat(n) \in stay /\ Rank(stay, seat(n)) = n
    BY <2>3, Ranks
  <2> HIDE DEF c, seat
  <2>7. DOMAIN inv' = 1..c /\ \A n \in 1..c : inv'[n] = inv[seat(n)] BY <2>2
  <2>8. inv' \in Seq(Entries)
    <3>1. \A n \in DOMAIN inv : inv[n] \in Entries BY DEF InventoryInv
    <3>2. \A n \in 1..c : inv[seat(n)] \in Entries BY <2>4, <2>6, <3>1
    <3>3. inv' \in [1..c -> Entries] BY <2>2, <3>2
    <3> QED BY <2>6, <3>3, SeqDef
  <2>9. \A m, n \in 1..c : inv'[m].inst = inv'[n].inst => m = n
    <3> SUFFICES ASSUME NEW m \in 1..c, NEW n \in 1..c, inv'[m].inst = inv'[n].inst PROVE m = n OBVIOUS
    <3>1. seat(m) = seat(n) BY <2>4, <2>6, <2>7 DEF InventoryInv
    <3> QED BY <2>6, <3>1
  <2>10. \A i \in Mounted' : Entry(i)' = Entry(i)
    <3>1. UsbDevNext BY <1>6 DEF UsbDevNext
    <3> QED BY <2>1, <3>1, EntriesStay
  <2>11. ASSUME NEW n \in 1..c PROVE \E i \in Mounted' : inv'[n] = Entry(i)'
    <3>1. seat(n) \in DOMAIN inv /\ inv'[n] = inv[seat(n)] /\ inv[seat(n)].inst \in Mounted' BY <2>4, <2>6, <2>7
    <3>2. PICK i \in Mounted : inv[seat(n)] = Entry(i) BY <3>1 DEF InventoryInv
    <3>3. i \in Mounted' BY <3>1, <3>2 DEF Entry
    <3> QED BY <2>10, <3>1, <3>2, <3>3
  <2>12. ASSUME NEW i \in Mounted' PROVE \E n \in 1..c : inv'[n] = Entry(i)'
    <3>1. PICK n \in stay : inv[n].inst = i BY <2>5
    <3>2. inv[n] = Entry(i) BY <2>4, <3>1, ByInstance
    <3> QED BY <2>6, <2>7, <2>10, <3>2
  <2> QED BY <2>7, <2>8, <2>9, <2>11, <2>12 DEF InventoryInv
<1> QED BY <1>2, <1>3, <1>4, <1>5, <1>6 DEF UsbDevNext

(* Everybody is listened to.                                                *)
LEMMA ArmedTells ==
  ASSUME ArmedInv
  PROVE  EverybodyIsListenedTo
BY DEF ArmedInv, EverybodyIsListenedTo

(* Who reports is mounted.                                                  *)
LEMMA ReportersAre ==
  ASSUME Wiring, ArmedInv
  PROVE  /\ \A i : <<"hid", i>> \in armed =>
              /\ i \in Mounted /\ i \in 1..Instances /\ hids[i].addr \in Addresses /\ bus[hids[i].addr] # NoDevice
              /\ bus[hids[i].addr].kind.driver = "hid" /\ bus[hids[i].addr].next # 1
         /\ \A a : <<"xinput", a>> \in armed =>
              /\ a \in MountedPads /\ a \in Addresses /\ bus[a] # NoDevice /\ bus[a].kind.driver # "hid"
              /\ bus[a].next = 2
<1>1. ASSUME NEW i \in Mounted
      PROVE  /\ i \in 1..Instances /\ hids[i].addr \in Addresses /\ bus[hids[i].addr] # NoDevice
             /\ bus[hids[i].addr].kind.driver = "hid" /\ bus[hids[i].addr].next # 1
  <2>1. i \in 1..Instances /\ hids[i] # NoItf /\ hids[i].itf < bus[hids[i].addr].next BY DEF Mounted
  <2>2. hids[i].addr \in Addresses /\ bus[hids[i].addr] # NoDevice /\ bus[hids[i].addr].kind.driver = "hid"
        /\ hids[i].itf \in Nat /\ hids[i].itf >= 1
    BY <2>1 DEF Wiring, HidsInv
  <2> QED BY <2>1, <2>2
<1>2. \A i : <<"hid", i>> \in armed => i \in Mounted BY DEF ArmedInv
<1>3. \A a : <<"xinput", a>> \in armed => a \in MountedPads BY DEF ArmedInv
<1> QED BY <1>1, <1>2, <1>3 DEF MountedPads

(* What a pad reported last: the driver has it, and one that is not mounted  *)
(* yet has reported nothing.  One that left while its set_config waited is    *)
(* in cut until another pad comes to its address.                            *)
PadInv ==
  /\ xpad \in [Addresses -> {Free, "rest", "held"}] /\ last \in [Addresses -> {"rest", "held"}]
  /\ cut \subseteq Addresses
  /\ \A a \in Addresses : (bus[a] = NoDevice \/ bus[a].next = 1) => last[a] = "rest"
  /\ \A a \in Addresses : bus[a] # NoDevice /\ bus[a].kind.driver # "hid" => xpad[a] = last[a] /\ a \notin cut
  /\ waiting /\ bus[opening] = NoDevice => opening \in cut
(* Every step keeps what is known of the pads.                              *)
LEMMA PadsStay ==
  ASSUME Wiring, ArmedInv, PadInv, UsbDevNext
  PROVE  PadInv'
<1>1. ASSUME NEW k \in shelf, Attach(k) PROVE PadInv'
  <2> DEFINE a == Min({b \in Addresses : bus[b] = NoDevice})
  <2>1. Attached(k, a) BY <1>1, AttachWires
  <2>2. last' = last /\ waiting' = waiting /\ (k.driver = "hid" => xpad' = xpad /\ cut' = cut)
        /\ (k.driver # "hid" => xpad' = [xpad EXCEPT ![a] = "rest"] /\ cut' = cut \ {a})
    BY <1>1 DEF Attach
  <2> HIDE DEF a
  <2>3. xpad' \in [Addresses -> {Free, "rest", "held"}] /\ cut' \subseteq cut /\ cut' \subseteq Addresses
        /\ \A b \in Addresses \ {a} : xpad'[b] = xpad[b]
    BY <2>1, <2>2 DEF PadInv, Attached
  <2>4. ASSUME NEW b \in Addresses, bus'[b] = NoDevice \/ bus'[b].next = 1 PROVE last'[b] = "rest"
    <3>1. CASE b = a BY <2>1, <2>2, <3>1 DEF Attached, PadInv
    <3>2. CASE b # a BY <2>1, <2>2, <2>4, <3>2 DEF Attached, PadInv
    <3> QED BY <3>1, <3>2
  <2>5. ASSUME NEW b \in Addresses, bus'[b] # NoDevice, bus'[b].kind.driver # "hid" PROVE xpad'[b] = last'[b] /\ b \notin cut'
    <3>1. CASE b = a
      <4>1. last[a] = "rest" /\ k.driver # "hid" BY <2>1, <2>5, <3>1 DEF Attached, PadInv
      <4>2. xpad'[a] = "rest" /\ a \notin cut' BY <2>1, <2>2, <4>1 DEF Attached, PadInv
      <4> QED BY <2>2, <3>1, <4>1, <4>2
    <3>2. CASE b # a BY <2>1, <2>2, <2>3, <2>5, <3>2 DEF Attached, PadInv
    <3> QED BY <3>1, <3>2
  <2>6. ~waiting' BY <2>1, <2>2 DEF Attached
  <2> QED BY <2>2, <2>3, <2>4, <2>5, <2>6 DEF PadInv, NoDevice
<1>2. ASSUME NEW a \in Addresses, Detach(a) PROVE PadInv'
  <2>1. Detached(a) BY <1>2, DetachWires
  <2>2. /\ last' = [last EXCEPT ![a] = "rest"] /\ xpad' = [xpad EXCEPT ![a] = Free] /\ waiting' = waiting
        /\ cut' = (IF opening = a /\ waiting THEN cut \cup {a} ELSE cut)
        /\ opening' = IF opening = a /\ ~waiting THEN 0 ELSE opening
    BY <1>2 DEF Detach
  <2>3. /\ last' \in [Addresses -> {"rest", "held"}] /\ last'[a] = "rest" /\ \A b \in Addresses \ {a} : last'[b] = last[b]
        /\ xpad' \in [Addresses -> {Free, "rest", "held"}] /\ \A b \in Addresses \ {a} : xpad'[b] = xpad[b]
        /\ cut' \subseteq Addresses /\ cut' \subseteq cut \cup {a} /\ cut \subseteq cut'
    BY <2>2 DEF PadInv
  <2>4. ASSUME NEW b \in Addresses, bus'[b] = NoDevice \/ bus'[b].next = 1 PROVE last'[b] = "rest"
    BY <2>1, <2>3, <2>4 DEF Detached, PadInv
  <2>5. ASSUME NEW b \in Addresses, bus'[b] # NoDevice, bus'[b].kind.driver # "hid" PROVE xpad'[b] = last'[b] /\ b \notin cut'
    <3>1. b # a BY <2>1, <2>5 DEF Detached
    <3>2. bus[b] # NoDevice /\ bus[b].kind.driver # "hid" BY <2>1, <2>5, <3>1 DEF Detached
    <3> QED BY <2>3, <3>1, <3>2 DEF PadInv
  <2>6. ASSUME waiting', bus'[opening'] = NoDevice PROVE opening' \in cut'
    <3>1. waiting /\ opening' = opening /\ opening \in Addresses BY <2>2, <2>6 DEF Wiring, OpeningInv
    <3>2. CASE opening = a BY <2>2, <3>1, <3>2
    <3>3. CASE opening # a
      <4>1. bus[opening] = NoDevice BY <2>1, <2>6, <3>1, <3>3 DEF Detached
      <4> QED BY <2>3, <3>1, <4>1 DEF PadInv
    <3> QED BY <3>2, <3>3
  <2> QED BY <2>3, <2>4, <2>5, <2>6 DEF PadInv, NoDevice
<1>3. ASSUME HidMount PROVE PadInv'
  <2>1. PICK i \in InstancesOf(opening) : hids[i].itf = bus[opening].next BY <1>3 DEF HidMount
  <2>2. HidMounted(i) BY <1>3, <2>1, MountWires
  <2>3. xpad' = xpad /\ last' = last /\ cut' = cut /\ waiting' = waiting BY <1>3 DEF HidMount
  <2>4. bus'[opening].next # 1
    <3>1. bus[opening].next \in Nat /\ bus[opening].next >= 1
      <4>1. bus[opening].kind \in UNION Shelves /\ bus[opening].next \in 1..Len(bus[opening].kind.itfs) + 1
        BY <2>2 DEF HidMounted, Wiring, BusInv
      <4> QED BY <4>1
    <3> QED BY <2>2, <3>1 DEF HidMounted
  <2>5. ASSUME NEW b \in Addresses, bus'[b] = NoDevice \/ bus'[b].next = 1 PROVE last'[b] = "rest"
    <3>1. b # opening BY <2>2, <2>4, <2>5 DEF HidMounted
    <3> QED BY <2>2, <2>3, <2>5, <3>1 DEF HidMounted, PadInv
  <2>6. ASSUME NEW b \in Addresses, bus'[b] # NoDevice, bus'[b].kind.driver # "hid" PROVE xpad'[b] = last'[b] /\ b \notin cut'
    <3>1. b # opening BY <2>2, <2>6 DEF HidMounted
    <3> QED BY <2>2, <2>3, <2>6, <3>1 DEF HidMounted, PadInv
  <2>7. ~waiting' BY <2>2, <2>3 DEF HidMounted
  <2> QED BY <2>3, <2>5, <2>6, <2>7 DEF PadInv, NoDevice
<1>4. ASSUME PadMounted, xpad' = xpad, last' = last, cut' = cut, ~waiting' PROVE PadInv'
  <2>1. ASSUME NEW b \in Addresses, bus'[b] = NoDevice \/ bus'[b].next = 1 PROVE last'[b] = "rest"
    <3>1. b # opening BY <1>4, <2>1 DEF PadMounted
    <3> QED BY <1>4, <2>1, <3>1 DEF PadMounted, PadInv
  <2>2. ASSUME NEW b \in Addresses, bus'[b] # NoDevice, bus'[b].kind.driver # "hid" PROVE xpad'[b] = last'[b] /\ b \notin cut'
    BY <1>4, <2>2 DEF PadMounted, PadInv
  <2> QED BY <1>4, <2>1, <2>2 DEF PadInv, NoDevice
<1>5. ASSUME SetConfig PROVE PadInv'
  <2>1. xpad' = xpad /\ last' = last /\ cut' = cut BY <1>5 DEF SetConfig
  <2>2. CASE bus' = bus /\ opening' = opening /\ bus[opening] # NoDevice BY <2>1, <2>2 DEF PadInv, NoDevice
  <2>3. CASE PadMounted
    <3>1. ~waiting'
      <4>1. bus' # bus BY <2>3 DEF PadMounted
      <4>2. waiting' = waiting /\ ~waiting BY <1>5, <4>1 DEF SetConfig
      <4> QED BY <4>2
    <3> QED BY <1>4, <2>1, <2>3, <3>1
  <2> QED BY <1>5, <2>2, <2>3, ConfigWires
<1>6. ASSUME Sent PROVE PadInv'
  <2>1. xpad' = xpad /\ last' = last /\ cut' = cut /\ waiting' = FALSE BY <1>6 DEF Sent
  <2>2. CASE bus' = bus BY <2>1, <2>2 DEF PadInv, NoDevice
  <2>3. CASE PadMounted BY <1>4, <2>1, <2>3
  <2> QED BY <1>6, <2>2, <2>3, SentWires
<1>7. ASSUME NEW i, HidReport(i) PROVE PadInv'
  <2> DEFINE a == hids[i].addr
  <2>1. UNCHANGED <<bus, opening, waiting, xpad, cut>> /\ <<"hid", i>> \in armed BY <1>7 DEF HidReport
  <2>2. PICK p \in {"rest", "held"} : last' = last \/ last' = [last EXCEPT ![a] = p] BY <1>7 DEF HidReport
  <2>3. a \in Addresses /\ bus[a] # NoDevice /\ bus[a].kind.driver = "hid" /\ bus[a].next # 1 BY <2>1, ReportersAre
  <2> HIDE DEF a
  <2>4. last' \in [Addresses -> {"rest", "held"}] /\ \A b \in Addresses \ {a} : last'[b] = last[b] BY <2>2, <2>3 DEF PadInv
  <2> QED BY <2>1, <2>3, <2>4 DEF PadInv, NoDevice
<1>8. ASSUME NEW a, XinputReport(a) PROVE PadInv'
  <2>1. UNCHANGED <<bus, opening, waiting, cut>> /\ <<"xinput", a>> \in armed BY <1>8 DEF XinputReport
  <2>2. a \in Addresses /\ bus[a] # NoDevice /\ bus[a].kind.driver # "hid" /\ bus[a].next = 2 BY <2>1, ReportersAre
  <2>3. PICK p \in {"rest", "held"} :
          xpad' = [xpad EXCEPT ![a] = p] /\ (last' = [last EXCEPT ![a] = p] \/ (last' = last /\ p = xpad[a]))
    BY <1>8 DEF XinputReport
  <2>4. xpad[a] = last[a] /\ a \notin cut BY <2>2 DEF PadInv
  <2>5. /\ last' \in [Addresses -> {"rest", "held"}] /\ \A b \in Addresses \ {a} : last'[b] = last[b]
        /\ xpad' \in [Addresses -> {Free, "rest", "held"}] /\ \A b \in Addresses \ {a} : xpad'[b] = xpad[b]
        /\ last'[a] = p /\ xpad'[a] = p
    BY <2>2, <2>3, <2>4 DEF PadInv
  <2> QED BY <2>1, <2>2, <2>4, <2>5 DEF PadInv, NoDevice
<1> QED BY <1>1, <1>2, <1>3, <1>5, <1>6, <1>7, <1>8 DEF UsbDevNext

(* The two slots.  One that nobody has is empty.  A HID pad's is that of the  *)
(* interface that had it first, and has the pad's map or none; an XInput      *)
(* pad's has its map and its state once the pad is mounted, and before that,  *)
(* or when the pad it was for left while it waited, shows nothing pressed.   *)
Maps == KnownHid \cup KnownXinput \cup {"null", "fallback", "default"}
Looks == {"rest", "held", "nonsense"}
Sides == {"hid", "xinput"}
Slot == [connected : BOOLEAN, addr : Nat, inst : Nat, source : Sides \cup {"none"}, map : Maps, shows : Looks]
HidThere(t) ==
  /\ t.inst \in Mounted /\ hids[t.inst].addr = t.addr
  /\ Itf(t.inst).protocol = "none" /\ IsGamepad(Itf(t.inst))
  /\ t.map \in {"null", MapOf(bus[t.addr].kind)}
HidOK(t) ==
  /\ HidThere(t)
  /\ Alone(bus[t.addr].kind) /\ t.map # "null" => t.shows = last[t.addr]
PadOK(t) ==
  /\ t.inst = 0 /\ t.addr \in Addresses
  /\ t.addr \in cut \/ (bus[t.addr] # NoDevice /\ bus[t.addr].kind.driver # "hid")
  /\ t.addr \in MountedPads => t.map = MapOf(bus[t.addr].kind) /\ t.shows = last[t.addr]
  /\ t.addr \notin MountedPads => t.shows = "rest"
SlotOK(t) ==
  IF t.connected
    THEN t.source \in {"hid", "xinput"} /\ (t.source = "hid" => HidOK(t)) /\ (t.source = "xinput" => PadOK(t))
    ELSE t = Empty
Holder(t) == <<t.addr, t.inst, t.source>>
SlotInv ==
  /\ slots \in [Slots -> Slot]
  /\ \A s \in Slots : \A t \in Slot : slots[s] = t => SlotOK(t)
  /\ \A m, n \in Slots : slots[m].connected /\ slots[n].connected /\ Holder(slots[m]) = Holder(slots[n]) => m = n

(* An empty slot is a slot.                                                 *)
LEMMA EmptyIs == Empty \in Slot /\ ~Empty.connected /\ Empty.map = "null" /\ Empty.shows = "rest"
BY DEF Empty, Slot, Maps, Looks, Sides

(* A map that is looked up is a map.                                        *)
LEMMA MapIs ==
  ASSUME NEW k
  PROVE  MapOf(k) \in Maps \ {"null"}
BY DEF MapOf, Maps, KnownHid, KnownXinput

(* One slot is claimed, given a map, shown a state.                         *)
ClaimedSlot(t, a, i, src) ==
  [connected |-> TRUE, addr |-> a, inst |-> i, source |-> src, map |-> t.map, shows |-> t.shows]
(* Claiming a slot replaces the record.                                     *)
LEMMA ClaimIs ==
  ASSUME NEW s, NEW n, NEW a, NEW i, NEW src
  PROVE  SlotClaimed(s, n, a, i, src) = [s EXCEPT ![n] = ClaimedSlot(s[n], a, i, src)]
BY DEF SlotClaimed, ClaimedSlot

Mapped(t, map, shows) ==
  [connected |-> t.connected, addr |-> t.addr, inst |-> t.inst, source |-> t.source, map |-> map, shows |-> shows]
MapPut(s, n, map) == [s EXCEPT ![n].map = map]
StatePut(s, n, shows) == [s EXCEPT ![n].shows = shows]
BothPut(s, n, map, shows) == [s EXCEPT ![n].map = map, ![n].shows = shows]
(* So does giving it a map,                                                 *)
LEMMA MapGiven ==
  ASSUME NEW s \in [Slots -> Slot], NEW n \in Slots, NEW map \in Maps
  PROVE  MapPut(s, n, map) = [s EXCEPT ![n] = Mapped(s[n], map, s[n].shows)]
<1> DEFINE A == Mapped(s[n], map, s[n].shows)
<1>1. s[n] \in Slot OBVIOUS
<1>2. [s[n] EXCEPT !.map = map] = A BY <1>1 DEF Slot, Mapped, Looks, Sides
<1> HIDE DEF A
<1>3. [s EXCEPT ![n].map = map] = [s EXCEPT ![n] = A] BY <1>2, Zenon
<1> QED BY <1>3, Zenon DEF A, MapPut

(* a state,                                                                 *)
LEMMA StateGiven ==
  ASSUME NEW s \in [Slots -> Slot], NEW n \in Slots, NEW shows \in Looks
  PROVE  StatePut(s, n, shows) = [s EXCEPT ![n] = Mapped(s[n], s[n].map, shows)]
<1> DEFINE B == Mapped(s[n], s[n].map, shows)
<1>1. s[n] \in Slot OBVIOUS
<1>2. [s[n] EXCEPT !.shows = shows] = B BY <1>1 DEF Slot, Mapped, Looks, Sides
<1> HIDE DEF B
<1>3. [s EXCEPT ![n].shows = shows] = [s EXCEPT ![n] = B] BY <1>2, Zenon
<1> QED BY <1>3, Zenon DEF B, StatePut

(* or both.                                                                 *)
LEMMA BothGiven ==
  ASSUME NEW s \in [Slots -> Slot], NEW n \in Slots, NEW map \in Maps, NEW shows \in Looks
  PROVE  BothPut(s, n, map, shows) = [s EXCEPT ![n] = Mapped(s[n], map, shows)]
<1> DEFINE A == Mapped(s[n], map, s[n].shows)  C == Mapped(s[n], map, shows)
<1>1. s[n] \in Slot OBVIOUS
<1>2. [s[n] EXCEPT !.map = map] = A /\ [A EXCEPT !.shows = shows] = C BY <1>1 DEF Slot, Mapped, Looks, Sides
<1> HIDE DEF A, C
<1>3. DOMAIN s = Slots OBVIOUS
<1>4. [s EXCEPT ![n].map = map] = [s EXCEPT ![n] = A] BY <1>2, Zenon
<1>5. [[s EXCEPT ![n] = A] EXCEPT ![n].shows = shows] = [s EXCEPT ![n] = C]
  <2>1. [s EXCEPT ![n] = A][n] = A BY <1>3
  <2>2. [[s EXCEPT ![n] = A] EXCEPT ![n].shows = shows] = [[s EXCEPT ![n] = A] EXCEPT ![n] = C] BY <1>2, <2>1, Zenon
  <2>3. [[s EXCEPT ![n] = A] EXCEPT ![n] = C] = [s EXCEPT ![n] = C] BY <1>3
  <2> QED BY <2>2, <2>3
<1>6. [s EXCEPT ![n].map = map, ![n].shows = shows] = [s EXCEPT ![n] = C] BY <1>4, <1>5
<1> QED BY <1>6, Zenon DEF C, BothPut

(* Which slot a pad gets.                                                   *)
LEMMA SlotFound ==
  ASSUME NEW a, NEW i, NEW src
  PROVE  LET n == FindOrAlloc(slots, a, i, src)
             mine == {m \in Slots : slots[m].connected /\ slots[m].addr = a /\ slots[m].inst = i /\ slots[m].source = src}
             idle == {m \in Slots : ~slots[m].connected}
         IN  (mine # {} => n \in mine) /\ (mine = {} /\ idle # {} => n \in idle) /\ (mine = {} /\ idle = {} => n = 0)
<1> DEFINE m1 == {n \in Holders(slots, a, src) : slots[n].inst = i}
           mine == {m \in Slots : slots[m].connected /\ slots[m].addr = a /\ slots[m].inst = i /\ slots[m].source = src}
           idle == {m \in Slots : ~slots[m].connected}
<1>1. m1 = mine BY DEF Holders
<1>2. mine \in SUBSET Nat /\ idle \in SUBSET Nat BY DEF Slots
<1>3. FindOrAlloc(slots, a, i, src) = IF m1 # {} THEN Min(m1) ELSE IF idle # {} THEN Min(idle) ELSE 0 BY DEF FindOrAlloc
<1> HIDE DEF m1, mine, idle
<1>4. (mine # {} => Min(mine) \in mine) /\ (idle # {} => Min(idle) \in idle) BY <1>2, LeastOf
<1>5. (mine # {} => FindOrAlloc(slots, a, i, src) \in mine)
      /\ (mine = {} /\ idle # {} => FindOrAlloc(slots, a, i, src) \in idle)
      /\ (mine = {} /\ idle = {} => FindOrAlloc(slots, a, i, src) = 0)
  BY <1>1, <1>3, <1>4
<1> QED BY <1>5 DEF mine, idle

(* Which slot a device has.                                                 *)
LEMMA DeviceSlot ==
  ASSUME NEW a, NEW src
  PROVE  LET n == ByDev(slots, a, src)
             mine == {m \in Slots : slots[m].connected /\ slots[m].addr = a /\ slots[m].source = src}
         IN  (mine # {} => n \in mine) /\ (mine = {} => n = 0)
<1> DEFINE mine == {m \in Slots : slots[m].connected /\ slots[m].addr = a /\ slots[m].source = src}
<1>1. Holders(slots, a, src) = mine BY DEF Holders
<1>2. mine \in SUBSET Nat BY DEF Slots
<1>3. ByDev(slots, a, src) = IF mine = {} THEN 0 ELSE Min(mine) BY <1>1 DEF ByDev
<1> HIDE DEF mine
<1>4. mine # {} => Min(mine) \in mine BY <1>2, LeastOf
<1>5. (mine # {} => ByDev(slots, a, src) \in mine) /\ (mine = {} => ByDev(slots, a, src) = 0) BY <1>3, <1>4
<1> QED BY <1>5 DEF mine

(* A slot that is not touched stays right if what it says does.             *)
LEMMA HidSlotKept ==
  ASSUME Wiring, UsbDevNext, NEW t, HidThere(t), t.inst \in Mounted'
  PROVE  /\ HidThere(t)' /\ bus'[t.addr].kind = bus[t.addr].kind
         /\ HidOK(t) /\ last'[t.addr] = last[t.addr] => HidOK(t)'
         /\ HidOK(t) /\ ~(Alone(bus[t.addr].kind) /\ t.map # "null") => HidOK(t)'
<1>1. SameItf(t.inst) BY MountedStay DEF HidThere
<1>2. hids'[t.inst].addr = t.addr /\ bus'[t.addr].kind = bus[t.addr].kind /\ Itf(t.inst)' = Itf(t.inst)
  BY <1>1 DEF HidThere, SameItf
<1>3. IsGamepad(Itf(t.inst))' = IsGamepad(Itf(t.inst)) BY <1>2 DEF IsGamepad, Usages
<1>4. MapOf(bus[t.addr].kind)' = MapOf(bus[t.addr].kind) /\ Alone(bus[t.addr].kind)' = Alone(bus[t.addr].kind)
  BY <1>2 DEF MapOf, Alone
<1>5. HidThere(t)' BY <1>2, <1>3, <1>4 DEF HidThere
<1> QED BY <1>2, <1>4, <1>5 DEF HidOK

(* The same for an XInput pad's.                                            *)
LEMMA PadSlotKept ==
  ASSUME PadInv, NEW t, PadOK(t), t.addr \in cut => t.addr \in cut',
         \/ /\ bus'[t.addr] = bus[t.addr] /\ last'[t.addr] = last[t.addr]
            /\ t.addr \in MountedPads' <=> t.addr \in MountedPads
         \/ t.addr \in cut /\ t.addr \notin MountedPads'
  PROVE  PadOK(t)'
<1>1. t.addr \in cut => t.addr \notin MountedPads BY DEF PadInv, MountedPads, PadOK
<1>2. CASE t.addr \in cut /\ t.addr \notin MountedPads' BY <1>1, <1>2 DEF PadOK
<1>3. CASE /\ bus'[t.addr] = bus[t.addr] /\ last'[t.addr] = last[t.addr]
           /\ t.addr \in MountedPads' <=> t.addr \in MountedPads
  <2>1. MapOf(bus[t.addr].kind)' = MapOf(bus[t.addr].kind) BY <1>3 DEF MapOf
  <2> QED BY <1>3, <2>1 DEF PadOK, NoDevice
<1> QED BY <1>2, <1>3

(* One slot is replaced by one that is right and nobody else's.             *)
LEMMA SlotPut ==
  ASSUME SlotInv, NEW n \in Slots, NEW v \in Slot, slots' = [slots EXCEPT ![n] = v], SlotOK(v)',
         \A s \in Slots \ {n} : \A t \in Slot : slots[s] = t => SlotOK(t)',
         v.connected => \A s \in Slots \ {n} : slots[s].connected => Holder(slots[s]) # Holder(v)
  PROVE  SlotInv'
<1>1. slots' \in [Slots -> Slot] /\ slots'[n] = v /\ \A s \in Slots \ {n} : slots'[s] = slots[s] BY DEF SlotInv
<1>2. \A s \in Slots : \A t \in Slot : slots'[s] = t => SlotOK(t)' BY <1>1
<1>3. ASSUME NEW s \in Slots, NEW m \in Slots, slots'[s].connected, slots'[m].connected,
             Holder(slots'[s]) = Holder(slots'[m])
      PROVE  s = m
  BY <1>1, <1>3 DEF SlotInv
<1> QED BY <1>1, <1>2, <1>3 DEF SlotInv, Holder

(* No slot is touched.                                                      *)
LEMMA SlotsStand ==
  ASSUME SlotInv, slots' = slots, \A s \in Slots : \A t \in Slot : slots[s] = t => SlotOK(t)'
  PROVE  SlotInv'
BY DEF SlotInv, Holder

(* Slots are cleared.                                                       *)
LEMMA SlotsFall ==
  ASSUME SlotInv, slots' \in [Slots -> Slot], \A s \in Slots : slots'[s] = Empty \/ slots'[s] = slots[s],
         \A s \in Slots : \A t \in Slot : slots[s] = t /\ slots'[s] = t /\ t # Empty => SlotOK(t)'
  PROVE  SlotInv'
<1>1. SlotOK(Empty)' BY EmptyIs DEF SlotOK
<1>2. ASSUME NEW s \in Slots, NEW t \in Slot, slots'[s] = t PROVE SlotOK(t)'
  <2>1. CASE t = Empty
    <3>1. ~t.connected BY <2>1, EmptyIs
    <3> QED BY <2>1, <3>1 DEF SlotOK, Empty
  <2>2. CASE t # Empty BY <1>2, <2>2
  <2> QED BY <2>1, <2>2
<1>3. ASSUME NEW s \in Slots, NEW m \in Slots, slots'[s].connected, slots'[m].connected,
             Holder(slots'[s]) = Holder(slots'[m])
      PROVE  s = m
  BY <1>3, EmptyIs DEF SlotInv
<1> QED BY <1>2, <1>3 DEF SlotInv, Holder

(* A device that comes takes no slot, nor another's.                        *)
LEMMA AttachKeepsSlots ==
  ASSUME Wiring, PadInv, SlotInv, NEW k \in shelf, Attach(k)
  PROVE  SlotInv'
<1> DEFINE a == Min({b \in Addresses : bus[b] = NoDevice})
<1>1. Attached(k, a) BY AttachWires
<1>2. last' = last /\ slots' = slots /\ (k.driver = "hid" => cut' = cut) /\ (k.driver # "hid" => cut' = cut \ {a})
  BY DEF Attach
<1>3. UsbDevNext BY DEF UsbDevNext
<1> HIDE DEF a
<1>4. ASSUME NEW t \in Slot, SlotOK(t) PROVE SlotOK(t)'
  <2>1. CASE t.connected /\ t.source = "hid"
    <3>1. HidOK(t) BY <1>4, <2>1 DEF SlotOK
    <3>2. HidThere(t) /\ t.inst \in Mounted' BY <1>1, <3>1 DEF HidOK, HidThere, Attached
    <3>3. HidOK(t)' BY <1>2, <1>3, <3>1, <3>2, HidSlotKept
    <3> QED BY <2>1, <3>3 DEF SlotOK
  <2>2. CASE t.connected /\ t.source = "xinput"
    <3>1. PadOK(t) BY <1>4, <2>2 DEF SlotOK
    <3>2. CASE t.addr # a
      <4>1. bus'[t.addr] = bus[t.addr] /\ last'[t.addr] = last[t.addr] /\ MountedPads' = MountedPads
            /\ (t.addr \in cut => t.addr \in cut')
        BY <1>1, <1>2, <3>1, <3>2 DEF Attached, PadOK
      <4>2. PadOK(t)' BY <3>1, <4>1, PadSlotKept
      <4> QED BY <2>2, <4>2 DEF SlotOK
    <3>3. CASE t.addr = a
      <4>1. t.addr \in cut /\ t.addr \notin MountedPads' BY <1>1, <3>1, <3>3 DEF Attached, PadOK, MountedPads
      <4>2. CASE k.driver = "hid"
        <5>1. PadOK(t)' BY <1>2, <3>1, <4>1, <4>2, PadSlotKept
        <5> QED BY <2>2, <5>1 DEF SlotOK
      <4>3. CASE k.driver # "hid"
        <5>1. bus'[t.addr] # NoDevice /\ bus'[t.addr].kind.driver # "hid" BY <1>1, <3>3, <4>3 DEF Attached
        <5>2. t.shows = "rest" BY <1>1, <3>1, <4>1 DEF PadOK, Attached
        <5>3. PadOK(t)' BY <3>1, <4>1, <5>1, <5>2 DEF PadOK, NoDevice
        <5> QED BY <2>2, <5>3 DEF SlotOK
      <4> QED BY <4>2, <4>3
    <3> QED BY <3>2, <3>3
  <2>3. CASE ~t.connected BY <1>4, <2>3 DEF SlotOK, Empty
  <2> QED BY <1>4, <2>1, <2>2, <2>3 DEF SlotOK
<1> QED BY <1>2, <1>4, SlotsStand DEF SlotInv

(* The instances of a device that leaves are at least as many as its slots.  *)
LEMMA AllAreCleared ==
  ASSUME Wiring, SlotInv, NEW a \in Addresses, NEW s \in Slots,
         slots[s].connected, slots[s].addr = a, slots[s].source = "hid"
  PROVE  Unslotted(slots, a, InstancesOf(a))[s] = Empty
<1> DEFINE mine == Holders(slots, a, "hid")
           generic == {i \in InstancesOf(a) : Itf(i).protocol = "none"}
           f == [n \in mine |-> slots[n].inst]
<1>1. s \in mine BY DEF Holders
<1>2. ASSUME NEW n \in mine PROVE slots[n].inst \in generic
  <2>1. n \in Slots /\ slots[n].connected /\ slots[n].addr = a /\ slots[n].source = "hid" BY <1>2 DEF Holders
  <2>2. PICK t \in Slot : t = slots[n] BY <2>1 DEF SlotInv
  <2>3. SlotOK(t) BY <2>1, <2>2 DEF SlotInv
  <2>4. HidThere(t) BY <2>1, <2>2, <2>3 DEF SlotOK, HidOK
  <2>5. t.inst \in InstancesOf(a) BY <2>1, <2>2, <2>4 DEF HidThere, InstancesOf, Mounted
  <2> QED BY <2>2, <2>4, <2>5 DEF HidThere
<1>3. ASSUME NEW m \in mine, NEW n \in mine, slots[m].inst = slots[n].inst PROVE m = n
  <2>1. m \in Slots /\ n \in Slots /\ slots[m].connected /\ slots[n].connected BY DEF Holders
  <2>2. Holder(slots[m]) = Holder(slots[n]) BY <1>3 DEF Holders, Holder
  <2> QED BY <2>1, <2>2 DEF SlotInv
<1>4. IsFiniteSet(generic) /\ generic \in SUBSET Nat
  <2>1. generic \in SUBSET (1..Instances) BY DEF InstancesOf
  <2>2. IsFiniteSet(1..Instances) BY Places, FS_Interval
  <2>3. generic \in SUBSET Nat BY <2>1, Places
  <2> QED BY <2>1, <2>2, <2>3, FS_Subset
<1>5. f \in [mine -> generic] BY <1>2
<1>6. \A m, n \in mine : f[m] = f[n] => m = n BY <1>3
<1>7. mine \in SUBSET Nat BY DEF Holders, Slots
<1>8. f \in Injection(mine, generic)
  <2> HIDE DEF f
  <2> QED BY <1>5, <1>6 DEF Injection, IsInjective
<1>9. IsFiniteSet(mine) /\ Cardinality(mine) <= Cardinality(generic) BY <1>4, <1>8, FS_Injection
<1>10. Rank(mine, s) \in 1..Cardinality(mine) /\ Cardinality(mine) \in Nat /\ Cardinality(generic) \in Nat
  BY <1>1, <1>4, <1>7, <1>9, Ranks, FS_CardinalityType
<1>11. Rank(mine, s) <= Cardinality(generic) BY <1>9, <1>10
<1> QED BY <1>1, <1>11 DEF Unslotted

(* A device that leaves leaves no slot behind.                              *)
LEMMA DetachKeepsSlots ==
  ASSUME Wiring, PadInv, SlotInv, NEW a \in Addresses, Detach(a)
  PROVE  SlotInv'
<1>1. Detached(a) BY DetachWires
<1>2. /\ last' = [last EXCEPT ![a] = "rest"] /\ cut \subseteq cut'
      /\ slots' = IF bus[a].kind.driver = "hid" THEN Unslotted(slots, a, InstancesOf(a)) ELSE XinputUnslotted(slots, a)
  BY DEF Detach
<1>3. UsbDevNext BY DEF UsbDevNext
<1>4. slots' \in [Slots -> Slot] /\ \A s \in Slots : slots'[s] = Empty \/ slots'[s] = slots[s]
  BY <1>2, EmptyIs DEF SlotInv, Unslotted, XinputUnslotted
<1>5. \A b \in Addresses \ {a} : last'[b] = last[b] BY <1>2 DEF PadInv
<1>6. ASSUME NEW s \in Slots, NEW t \in Slot, slots[s] = t, slots'[s] = t, t # Empty PROVE SlotOK(t)'
  <2>1. SlotOK(t) BY <1>6 DEF SlotInv
  <2>2. CASE t.connected /\ t.source = "hid"
    <3>1. HidOK(t) /\ HidThere(t) BY <2>1, <2>2 DEF SlotOK, HidOK
    <3>2. t.inst \in 1..Instances /\ hids[t.inst] # NoItf /\ hids[t.inst].addr = t.addr /\ t.addr \in Addresses
          /\ bus[t.addr].kind.driver = "hid"
      BY <3>1 DEF HidThere, Mounted, Wiring, HidsInv
    <3>3. t.addr # a
      <4> SUFFICES ASSUME t.addr = a PROVE FALSE OBVIOUS
      <4>1. slots' = Unslotted(slots, a, InstancesOf(a)) BY <1>2, <3>2
      <4> QED BY <1>6, <2>2, <4>1, AllAreCleared
    <3>4. t.inst \in Mounted' BY <1>1, <3>1, <3>2, <3>3 DEF Detached, HidThere, InstancesOf
    <3>5. HidOK(t)' BY <1>3, <1>5, <3>1, <3>2, <3>3, <3>4, HidSlotKept
    <3> QED BY <2>2, <3>5 DEF SlotOK
  <2>3. CASE t.connected /\ t.source = "xinput"
    <3>1. PadOK(t) BY <2>1, <2>3 DEF SlotOK
    <3>2. CASE t.addr = a
      <4>1. bus[a].kind.driver = "hid"
        <5> SUFFICES ASSUME bus[a].kind.driver # "hid" PROVE FALSE OBVIOUS
        <5>1. slots'[s] = Empty BY <1>2, <1>6, <2>3, <3>2 DEF XinputUnslotted
        <5> QED BY <1>6, <5>1
      <4>2. t.addr \in cut /\ t.addr \notin MountedPads' BY <1>1, <3>1, <3>2, <4>1 DEF PadOK, Detached
      <4>3. PadOK(t)' BY <1>2, <3>1, <4>2, PadSlotKept
      <4> QED BY <2>3, <4>3 DEF SlotOK
    <3>3. CASE t.addr # a
      <4>1. bus'[t.addr] = bus[t.addr] /\ last'[t.addr] = last[t.addr] /\ (t.addr \in MountedPads' <=> t.addr \in MountedPads)
        BY <1>1, <1>5, <3>1, <3>3 DEF PadOK, Detached
      <4>2. PadOK(t)' BY <1>2, <3>1, <4>1, PadSlotKept
      <4> QED BY <2>3, <4>2 DEF SlotOK
    <3> QED BY <3>2, <3>3
  <2>4. CASE ~t.connected BY <1>6, <2>1, <2>4 DEF SlotOK
  <2> QED BY <2>1, <2>2, <2>3, <2>4 DEF SlotOK
<1> QED BY <1>4, <1>6, SlotsFall

(* What a claimed slot holds.                                               *)
Taken(a, i, src, map, shows) ==
  [connected |-> TRUE, addr |-> a, inst |-> i, source |-> src, map |-> map, shows |-> shows]
(* A claimed slot is a slot.                                                *)
LEMMA ClaimIsSlot ==
  ASSUME NEW s \in [Slots -> Slot], NEW n \in Slots, NEW a \in Nat, NEW i \in Nat, NEW src \in Sides
  PROVE  SlotClaimed(s, n, a, i, src) \in [Slots -> Slot] /\ SlotClaimed(s, n, a, i, src)[n] = ClaimedSlot(s[n], a, i, src)
<1> DEFINE d == ClaimedSlot(s[n], a, i, src)
<1>1. s[n] \in Slot OBVIOUS
<1>2. d \in Slot BY <1>1 DEF Slot, ClaimedSlot, Sides
<1>3. SlotClaimed(s, n, a, i, src) = [s EXCEPT ![n] = d] BY ClaimIs
<1> HIDE DEF d
<1>4. SlotClaimed(s, n, a, i, src) \in [Slots -> Slot] /\ SlotClaimed(s, n, a, i, src)[n] = d BY <1>2, <1>3
<1> QED BY <1>4 DEF d

(* A slot claimed and given a map,                                          *)
LEMMA ClaimMapped ==
  ASSUME NEW s \in [Slots -> Slot], NEW n \in Slots, NEW a \in Nat, NEW i \in Nat, NEW src \in Sides,
         NEW map \in Maps
  PROVE  MapPut(SlotClaimed(s, n, a, i, src), n, map) = [s EXCEPT ![n] = Taken(a, i, src, map, s[n].shows)]
<1> DEFINE d == ClaimedSlot(s[n], a, i, src)
<1>1. PICK c \in [Slots -> Slot] : c = SlotClaimed(s, n, a, i, src) /\ c[n] = d BY ClaimIsSlot
<1>2. c = [s EXCEPT ![n] = d] BY <1>1, ClaimIs
<1>7. c \in [Slots -> Slot] OBVIOUS
<1>3. Mapped(d, map, d.shows) = Taken(a, i, src, map, s[n].shows) BY DEF Mapped, ClaimedSlot, Taken
<1> HIDE DEF d
<1>4. MapPut(c, n, map) = [c EXCEPT ![n] = Mapped(c[n], map, c[n].shows)] BY <1>7, MapGiven
<1>5. MapPut(c, n, map) = [c EXCEPT ![n] = Taken(a, i, src, map, s[n].shows)] BY <1>1, <1>3, <1>4, Zenon
<1>6. \A x : [c EXCEPT ![n] = x] = [s EXCEPT ![n] = x] BY <1>2
<1> QED BY <1>1, <1>5, <1>6, Zenon

(* a state,                                                                 *)
LEMMA ClaimShown ==
  ASSUME NEW s \in [Slots -> Slot], NEW n \in Slots, NEW a \in Nat, NEW i \in Nat, NEW src \in Sides,
         NEW shows \in Looks
  PROVE  /\ StatePut(SlotClaimed(s, n, a, i, src), n, shows) = [s EXCEPT ![n] = Taken(a, i, src, s[n].map, shows)]
         /\ SlotClaimed(s, n, a, i, src)[n].map = s[n].map
<1> DEFINE d == ClaimedSlot(s[n], a, i, src)
<1>1. PICK c \in [Slots -> Slot] : c = SlotClaimed(s, n, a, i, src) /\ c[n] = d BY ClaimIsSlot
<1>2. c = [s EXCEPT ![n] = d] BY <1>1, ClaimIs
<1>7. c \in [Slots -> Slot] OBVIOUS
<1>3. Mapped(d, d.map, shows) = Taken(a, i, src, s[n].map, shows) /\ d.map = s[n].map BY DEF Mapped, ClaimedSlot, Taken
<1> HIDE DEF d
<1>4. StatePut(c, n, shows) = [c EXCEPT ![n] = Mapped(c[n], c[n].map, shows)] BY <1>7, StateGiven
<1>5. StatePut(c, n, shows) = [c EXCEPT ![n] = Taken(a, i, src, s[n].map, shows)] BY <1>1, <1>3, <1>4, Zenon
<1>6. \A x : [c EXCEPT ![n] = x] = [s EXCEPT ![n] = x] BY <1>2
<1> QED BY <1>1, <1>3, <1>5, <1>6, Zenon

(* or both.                                                                 *)
LEMMA ClaimFilled ==
  ASSUME NEW s \in [Slots -> Slot], NEW n \in Slots, NEW a \in Nat, NEW i \in Nat, NEW src \in Sides,
         NEW map \in Maps, NEW shows \in Looks
  PROVE  BothPut(SlotClaimed(s, n, a, i, src), n, map, shows)
           = [s EXCEPT ![n] = Taken(a, i, src, map, shows)]
<1> DEFINE d == ClaimedSlot(s[n], a, i, src)
<1>1. PICK c \in [Slots -> Slot] : c = SlotClaimed(s, n, a, i, src) /\ c[n] = d BY ClaimIsSlot
<1>2. c = [s EXCEPT ![n] = d] BY <1>1, ClaimIs
<1>7. c \in [Slots -> Slot] OBVIOUS
<1>3. Mapped(d, map, shows) = Taken(a, i, src, map, shows) BY DEF Mapped, ClaimedSlot, Taken
<1> HIDE DEF d
<1>4. BothPut(c, n, map, shows) = [c EXCEPT ![n] = Mapped(c[n], map, shows)] BY <1>7, BothGiven
<1>5. BothPut(c, n, map, shows) = [c EXCEPT ![n] = Taken(a, i, src, map, shows)]
  BY <1>1, <1>3, <1>4, Zenon
<1>6. \A x : [c EXCEPT ![n] = x] = [s EXCEPT ![n] = x] BY <1>2
<1> QED BY <1>1, <1>5, <1>6, Zenon

(* An interface that is not mounted yet has no slot.                        *)
LEMMA MountKeepsSlots ==
  ASSUME Wiring, PadInv, SlotInv, HidMount
  PROVE  SlotInv'
<1> DEFINE o == opening  k == bus[o].kind  Room(i) == FindOrAlloc(slots, o, i, "hid")
<1>1. PICK i \in InstancesOf(o) :
        /\ hids[i].itf = bus[o].next
        /\ slots' = IF Itf(i).protocol = "none" /\ IsGamepad(Itf(i)) /\ Room(i) # 0
                      THEN [SlotClaimed(slots, Room(i), o, i, "hid") EXCEPT ![Room(i)].map = MapOf(k)]
                      ELSE slots
  BY DEF HidMount
<1>2. HidMounted(i) BY <1>1, MountWires
<1>3. last' = last /\ cut' = cut BY DEF HidMount
<1>4. UsbDevNext BY DEF UsbDevNext
<1>5. ASSUME NEW t \in Slot, SlotOK(t) PROVE SlotOK(t)'
  <2>1. CASE t.connected /\ t.source = "hid"
    <3>1. HidOK(t) /\ HidThere(t) /\ t.inst \in Mounted' BY <1>2, <1>5, <2>1 DEF SlotOK, HidOK, HidThere, HidMounted
    <3>2. HidOK(t)' BY <1>3, <1>4, <3>1, HidSlotKept
    <3> QED BY <2>1, <3>2 DEF SlotOK
  <2>2. CASE t.connected /\ t.source = "xinput"
    <3>1. PadOK(t) BY <1>5, <2>2 DEF SlotOK
    <3>2. CASE t.addr # o
      <4>1. bus'[t.addr] = bus[t.addr] /\ MountedPads' = MountedPads BY <1>2, <3>1, <3>2 DEF HidMounted, PadOK
      <4>2. PadOK(t)' BY <1>3, <3>1, <4>1, PadSlotKept
      <4> QED BY <2>2, <4>2 DEF SlotOK
    <3>3. CASE t.addr = o
      <4>1. t.addr \in cut /\ t.addr \notin MountedPads' BY <1>2, <3>1, <3>3 DEF HidMounted, PadOK, MountedPads
      <4>2. PadOK(t)' BY <1>3, <3>1, <4>1, PadSlotKept
      <4> QED BY <2>2, <4>2 DEF SlotOK
    <3> QED BY <3>2, <3>3
  <2>3. CASE ~t.connected BY <1>5, <2>3 DEF SlotOK, Empty
  <2> QED BY <1>5, <2>1, <2>2, <2>3 DEF SlotOK
<1>6. CASE slots' = slots BY <1>5, <1>6, SlotsStand DEF SlotInv
<1>7. CASE slots' # slots
  <2> DEFINE n == Room(i)
  <2>1. /\ Itf(i).protocol = "none" /\ IsGamepad(Itf(i)) /\ n # 0
        /\ slots' = [SlotClaimed(slots, n, o, i, "hid") EXCEPT ![n].map = MapOf(k)]
    BY <1>1, <1>7
  <2>2. i \in 1..Instances /\ i \notin Mounted /\ i \in Nat /\ o \in Addresses /\ o \in Nat
    BY <1>2, Places DEF HidMounted
  <2>3. ASSUME NEW s \in Slots, slots[s].connected, slots[s].source = "hid" PROVE slots[s].inst # i
    <3>1. PICK t \in Slot : t = slots[s] BY DEF SlotInv
    <3>2. SlotOK(t) BY <3>1 DEF SlotInv
    <3>3. HidThere(t) BY <2>3, <3>1, <3>2 DEF SlotOK, HidOK
    <3> QED BY <2>2, <3>1, <3>3 DEF HidThere
  <2>4. n \in Slots /\ ~slots[n].connected
    <3> HIDE DEF n, o
    <3> DEFINE mine == {m \in Slots : slots[m].connected /\ slots[m].addr = o /\ slots[m].inst = i /\ slots[m].source = "hid"}
               idle == {m \in Slots : ~slots[m].connected}
    <3>1. mine = {} BY <2>3
    <3>2. (mine = {} /\ idle # {} => n \in idle) /\ (mine = {} /\ idle = {} => n = 0) BY SlotFound DEF n
    <3> QED BY <2>1, <3>1, <3>2
  <2> HIDE DEF n, Room, o
  <2>5. slots[n] = Empty
    <3>1. PICK t \in Slot : t = slots[n] BY <2>4 DEF SlotInv
    <3>2. SlotOK(t) BY <2>4, <3>1 DEF SlotInv
    <3> QED BY <2>4, <3>1, <3>2 DEF SlotOK
  <2>6. MapOf(k) \in Maps BY MapIs
  <2> HIDE DEF k
  <2>21. Taken(o, i, "hid", MapOf(k), "rest") \in Slot BY <2>2, <2>6 DEF Taken, Slot, Looks, Sides
  <2>22. PICK v \in Slot : v = Taken(o, i, "hid", MapOf(k), "rest") BY <2>21
  <2>7. slots \in [Slots -> Slot] BY DEF SlotInv
  <2>8. slots[n].shows = "rest" BY <2>5, EmptyIs
  <2>23. "hid" \in Sides BY DEF Sides
  <2>9. slots' = [slots EXCEPT ![n] = v]
    <3>1. MapPut(SlotClaimed(slots, n, o, i, "hid"), n, MapOf(k))
            = [slots EXCEPT ![n] = Taken(o, i, "hid", MapOf(k), slots[n].shows)]
      BY <2>2, <2>4, <2>6, <2>7, <2>23, ClaimMapped
    <3> QED BY <2>1, <2>22, <2>8, <3>1, Zenon DEF MapPut
  <2>10. v.connected /\ v.source = "hid" /\ v.inst = i /\ v.addr = o /\ v.map = MapOf(k) /\ v.shows = "rest"
    BY <2>22 DEF Taken
  <2>11. bus'[o].kind = k /\ hids'[i] = hids[i] /\ hids[i].addr = o /\ i \in Mounted'
    BY <1>2, <2>2 DEF HidMounted, o, k
  <2>12. Itf(i)' = Itf(i) BY <2>11 DEF Itf, k
  <2>13. IsGamepad(Itf(i))' = IsGamepad(Itf(i)) BY <2>12 DEF IsGamepad, Usages
  <2>14. MapOf(bus'[o].kind) = MapOf(k) BY <2>11
  <2>15. Alone(k) => last'[o] = "rest"
    <3> SUFFICES ASSUME Alone(k) PROVE last'[o] = "rest" OBVIOUS
    <3>1. Len(k.itfs) = 1 BY DEF Alone
    <3>2. opening # 0 /\ ~waiting /\ opening \in Addresses BY <1>2, Places DEF HidMounted
    <3>3. bus[o].next <= 1 BY <3>1, <3>2 DEF Wiring, OpeningInv, o, k
    <3>4. bus[o].next \in Nat /\ bus[o].next >= 1
      <4>1. bus[o].kind \in UNION Shelves /\ bus[o].next \in 1..Len(bus[o].kind.itfs) + 1
        BY <1>2, <3>2 DEF HidMounted, Wiring, BusInv, o
      <4> QED BY <4>1
    <3>5. bus[o].next = 1 BY <3>3, <3>4
    <3> QED BY <1>3, <2>2, <3>5 DEF PadInv
  <2>16. HidThere(v)' BY <2>1, <2>10, <2>11, <2>12, <2>13, <2>14 DEF HidThere
  <2>17. HidOK(v)' BY <2>10, <2>11, <2>15, <2>16 DEF HidOK
  <2>18. SlotOK(v)' BY <2>10, <2>17 DEF SlotOK
  <2>19. \A s \in Slots \ {n} : slots[s].connected => Holder(slots[s]) # Holder(v) BY <2>3, <2>10 DEF Holder
  <2>20. \A s \in Slots \ {n} : \A t \in Slot : slots[s] = t => SlotOK(t)' BY <1>5 DEF SlotInv
  <2> QED BY <2>4, <2>9, <2>10, <2>18, <2>19, <2>20, SlotPut
<1> QED BY <1>6, <1>7

(* A pad is mounted, or the one that left is all the same.                   *)
LEMMA PadMountKeepsSlots ==
  ASSUME Wiring, PadInv, SlotInv, UsbDevNext, XinputMount(opening), opening \in Addresses, last' = last, cut' = cut,
         \/ PadMounted
         \/ /\ bus' = bus /\ hids' = hids /\ bus[opening] = NoDevice /\ opening \in cut
            /\ Mounted' = Mounted /\ MountedPads' = MountedPads
  PROVE  SlotInv'
<1> DEFINE o == opening  n == FindOrAlloc(slots, o, 0, "xinput")
           map == IF bus[o] = NoDevice THEN "default" ELSE MapOf(bus[o].kind)
<1>1. /\ Mounted' = Mounted /\ MountedPads' \subseteq MountedPads \cup {o} /\ MountedPads \subseteq MountedPads'
      /\ \A b \in Addresses \ {o} : bus'[b] = bus[b]
  BY DEF PadMounted
<1>2. slots' = IF n = 0 THEN slots ELSE BothPut(SlotClaimed(slots, n, o, 0, "xinput"), n, map, "rest")
  BY DEF XinputMount, BothPut
<1>3. (o \in MountedPads' => map = MapOf(bus'[o].kind)) /\ (o \in cut \/ (bus'[o] # NoDevice /\ bus'[o].kind.driver # "hid"))
      /\ last[o] = "rest"
  <2>1. CASE PadMounted BY <2>1 DEF PadMounted, PadInv
  <2>2. CASE bus' = bus /\ bus[opening] = NoDevice /\ opening \in cut /\ MountedPads' = MountedPads
    BY <2>2 DEF MountedPads, PadInv
  <2> QED BY <2>1, <2>2
<1>4. map \in Maps BY MapIs DEF Maps
<1>5. o \in Addresses /\ o \in Nat BY Places
<1> HIDE DEF o, n, map
<1>6. ASSUME NEW t \in Slot, SlotOK(t), ~(t.connected /\ t.source = "xinput" /\ t.addr = o) PROVE SlotOK(t)'
  <2>1. CASE t.connected /\ t.source = "hid"
    <3>1. HidOK(t) /\ HidThere(t) /\ t.inst \in Mounted' BY <1>1, <1>6, <2>1 DEF SlotOK, HidOK, HidThere
    <3>2. HidOK(t)' BY <3>1, HidSlotKept
    <3> QED BY <2>1, <3>2 DEF SlotOK
  <2>2. CASE t.connected /\ t.source = "xinput"
    <3>1. PadOK(t) BY <1>6, <2>2 DEF SlotOK
    <3>2. bus'[t.addr] = bus[t.addr] /\ (t.addr \in MountedPads' <=> t.addr \in MountedPads)
      BY <1>1, <1>6, <2>2, <3>1 DEF PadOK
    <3>3. PadOK(t)' BY <3>1, <3>2, PadSlotKept
    <3> QED BY <2>2, <3>3 DEF SlotOK
  <2>3. CASE ~t.connected BY <1>6, <2>3 DEF SlotOK, Empty
  <2> QED BY <1>6, <2>1, <2>2, <2>3 DEF SlotOK
<1> DEFINE mine == {m \in Slots : slots[m].connected /\ slots[m].addr = o /\ slots[m].inst = 0 /\ slots[m].source = "xinput"}
           idle == {m \in Slots : ~slots[m].connected}
<1>7. (mine # {} => n \in mine) /\ (mine = {} /\ idle # {} => n \in idle) /\ (mine = {} /\ idle = {} => n = 0)
  BY SlotFound DEF n
<1>8. ASSUME NEW s \in Slots, NEW t \in Slot, slots[s] = t, t.connected, t.source = "xinput", t.addr = o PROVE s \in mine
  <2>1. t.inst = 0 BY <1>8 DEF SlotInv, SlotOK, PadOK
  <2> QED BY <1>8, <2>1
<1>9. CASE n = 0
  <2>1. mine = {} BY <1>7, <1>9 DEF Slots
  <2>2. \A s \in Slots : \A t \in Slot : slots[s] = t => SlotOK(t)' BY <1>6, <1>8, <2>1 DEF SlotInv
  <2> QED BY <1>2, <1>9, <2>2, SlotsStand
<1>10. CASE n # 0
  <2>1. n \in Slots /\ (mine # {} => n \in mine) BY <1>7, <1>10
  <2>2. Taken(o, 0, "xinput", map, "rest") \in Slot BY <1>4, <1>5 DEF Taken, Slot, Looks, Sides
  <2>3. PICK v \in Slot : v = Taken(o, 0, "xinput", map, "rest") BY <2>2
  <2>4. slots \in [Slots -> Slot] /\ "xinput" \in Sides /\ "rest" \in Looks /\ 0 \in Nat BY DEF SlotInv, Sides, Looks
  <2>5. BothPut(SlotClaimed(slots, n, o, 0, "xinput"), n, map, "rest") = [slots EXCEPT ![n] = Taken(o, 0, "xinput", map, "rest")]
    BY <1>4, <1>5, <2>1, <2>4, ClaimFilled
  <2>6. slots' = [slots EXCEPT ![n] = v] BY <1>2, <1>10, <2>3, <2>5
  <2>7. v.connected /\ v.source = "xinput" /\ v.inst = 0 /\ v.addr = o /\ v.map = map /\ v.shows = "rest"
    BY <2>3 DEF Taken
  <2>8. last'[o] = "rest" BY <1>3
  <2>9. PadOK(v)' BY <1>3, <1>5, <2>7, <2>8 DEF PadOK, NoDevice, MapOf
  <2>10. SlotOK(v)' BY <2>7, <2>9 DEF SlotOK
  <2>11. ASSUME NEW s \in Slots \ {n}, NEW t \in Slot, slots[s] = t, t.connected, t.source = "xinput", t.addr = o PROVE FALSE
    <3>1. s \in mine /\ n \in mine BY <1>8, <2>1, <2>11
    <3>2. Holder(slots[s]) = Holder(slots[n]) BY <3>1 DEF Holder
    <3> QED BY <2>1, <3>1, <3>2 DEF SlotInv
  <2>12. \A s \in Slots \ {n} : \A t \in Slot : slots[s] = t => SlotOK(t)' BY <1>6, <2>11 DEF SlotInv
  <2>13. \A s \in Slots \ {n} : slots[s].connected => Holder(slots[s]) # Holder(v)
    <3> SUFFICES ASSUME NEW s \in Slots \ {n}, slots[s].connected, Holder(slots[s]) = Holder(v) PROVE FALSE OBVIOUS
    <3>1. slots[s].addr = o /\ slots[s].source = "xinput" BY <2>7 DEF Holder
    <3> QED BY <2>4, <2>11, <3>1
  <2> QED BY <2>1, <2>6, <2>10, <2>12, <2>13, SlotPut
<1> QED BY <1>9, <1>10

(* Both ways a pad comes to be mounted.                                     *)
LEMMA ConfigKeepsSlots ==
  ASSUME Wiring, PadInv, SlotInv, SetConfig \/ Sent
  PROVE  SlotInv'
<1>1. UsbDevNext /\ last' = last /\ cut' = cut /\ hids' = hids BY DEF UsbDevNext, SetConfig, Sent
<1>2. CASE SetConfig
  <2>1. CASE PadMounted /\ XinputMount(opening) BY <1>1, <2>1, PadMountKeepsSlots DEF PadMounted
  <2>2. CASE UNCHANGED <<bus, slots>> /\ Mounted' = Mounted /\ MountedPads' = MountedPads
    <3>1. ASSUME NEW t \in Slot, SlotOK(t) PROVE SlotOK(t)'
      <4>1. t.connected /\ t.source = "hid" => HidOK(t)' BY <1>1, <2>2, <3>1, HidSlotKept DEF SlotOK, HidOK, HidThere
      <4>2. t.connected /\ t.source = "xinput" => PadOK(t)' BY <1>1, <2>2, <3>1, PadSlotKept DEF SlotOK
      <4> QED BY <3>1, <4>1, <4>2 DEF SlotOK, Empty
    <3> QED BY <2>2, <3>1, SlotsStand DEF SlotInv
  <2> QED BY <1>2, <2>1, <2>2, ConfigWires
<1>3. CASE Sent
  <2>1. XinputMount(opening) /\ waiting BY <1>3 DEF Sent
  <2>2. CASE PadMounted BY <1>1, <2>1, <2>2, PadMountKeepsSlots DEF PadMounted
  <2>3. CASE bus' = bus /\ bus[opening] = NoDevice /\ opening \in Addresses /\ Mounted' = Mounted /\ MountedPads' = MountedPads
    <3>1. opening \in cut BY <2>1, <2>3 DEF PadInv
    <3> QED BY <1>1, <2>1, <2>3, <3>1, PadMountKeepsSlots
  <2> QED BY <1>3, <2>2, <2>3, SentWires
<1> QED BY <1>2, <1>3

(* A pad alone on its device has one interface.                             *)
LEMMA AloneIs ==
  ASSUME Wiring, NEW i \in Mounted, NEW j \in Mounted, hids[i].addr = hids[j].addr, Alone(bus[hids[i].addr].kind)
  PROVE  i = j /\ Itf(i) = bus[hids[i].addr].kind.itfs[1]
<1> DEFINE k == bus[hids[i].addr].kind
<1>1. i \in 1..Instances /\ j \in 1..Instances /\ hids[i] # NoItf /\ hids[j] # NoItf BY DEF Mounted
<1>2. hids[i].itf \in 1..Len(k.itfs) /\ hids[j].itf \in 1..Len(k.itfs)
      /\ hids[i] \in [addr : Nat, itf : Nat] /\ hids[j] \in [addr : Nat, itf : Nat]
  BY <1>1 DEF Wiring, HidsInv
<1>3. Len(k.itfs) = 1 BY DEF Alone
<1>4. hids[i].itf = 1 /\ hids[j].itf = 1 BY <1>2, <1>3
<1>5. hids[i] = hids[j] BY <1>2, <1>4
<1> QED BY <1>1, <1>4, <1>5 DEF Wiring, HidsInv, Itf

(* What a generic report is matched with is a usage of the descriptor, or    *)
(* nothing.                                                                 *)
LEMMA MatchedIs ==
  ASSUME NEW itf \in [protocol : {"none", "keyboard", "mouse", "xinput"},
               reports : Seq([usage : {"keyboard", "mouse", "gamepad", "consumer"}, id : Nat])], NEW r
  PROVE  Matched(itf.reports, r) = "nothing" \/ Matched(itf.reports, r) \in Usages(itf)
<1> DEFINE reports == itf.reports  m == {n \in DOMAIN reports : reports[n].id = r.id}
<1>1. reports \in Seq([usage : {"keyboard", "mouse", "gamepad", "consumer"}, id : Nat]) OBVIOUS
<1>2. DOMAIN reports = 1..Len(reports) /\ Len(reports) \in Nat BY <1>1
<1>3. Usages(itf) = {reports[n].usage : n \in DOMAIN reports} BY DEF Usages
<1>4. CASE Len(reports) = 1 /\ reports[1].id = 0 BY <1>2, <1>3, <1>4 DEF Matched
<1>5. CASE ~(Len(reports) = 1 /\ reports[1].id = 0)
  <2>1. Matched(reports, r) = IF m = {} THEN "nothing" ELSE reports[Min(m)].usage BY <1>5 DEF Matched
  <2>2. m \in SUBSET Nat BY <1>2
  <2> HIDE DEF m
  <2>3. m # {} => Min(m) \in m BY <2>2, LeastOf
  <2>4. m # {} => Min(m) \in DOMAIN reports BY <2>3 DEF m
  <2> QED BY <1>3, <2>1, <2>4
<1> QED BY <1>4, <1>5

(* Whose report it is, for a slot of any device.                            *)
LEMMA ReportKeeps ==
  ASSUME Wiring, PadInv, SlotInv, UsbDevNext, UNCHANGED <<bus, hids, cut>>, NEW a \in Addresses,
         \A b \in Addresses \ {a} : last'[b] = last[b],
         NEW t \in Slot, SlotOK(t),
         t.connected => \/ t.addr # a
                        \/ last' = last
                        \/ t.source = "hid" /\ ~(Alone(bus[t.addr].kind) /\ t.map # "null")
                        \/ t.source = "xinput" /\ bus[a].kind.driver = "hid"
  PROVE  SlotOK(t)'
<1>1. Mounted' = Mounted /\ MountedPads' = MountedPads BY DEF Mounted, MountedPads
<1>2. CASE t.connected /\ t.source = "hid"
  <2>1. HidOK(t) /\ HidThere(t) /\ t.inst \in Mounted' BY <1>1, <1>2 DEF SlotOK, HidOK, HidThere
  <2>2. t.addr \in Addresses BY <2>1 DEF HidThere, Mounted, Wiring, HidsInv
  <2>3. CASE last'[t.addr] = last[t.addr]
    <3>1. HidOK(t)' BY <2>1, <2>3, HidSlotKept
    <3> QED BY <1>2, <3>1 DEF SlotOK
  <2>4. CASE ~(Alone(bus[t.addr].kind) /\ t.map # "null")
    <3>1. HidOK(t)' BY <2>1, <2>4, HidSlotKept
    <3> QED BY <1>2, <3>1 DEF SlotOK
  <2> QED BY <1>2, <2>2, <2>3, <2>4
<1>3. CASE t.connected /\ t.source = "xinput"
  <2>1. PadOK(t) BY <1>3 DEF SlotOK
  <2>2. CASE t.addr # a \/ last' = last
    <3>1. PadOK(t)' BY <1>1, <2>1, <2>2, PadSlotKept DEF PadOK
    <3> QED BY <1>3, <3>1 DEF SlotOK
  <2>3. CASE t.addr = a /\ bus[a].kind.driver = "hid"
    <3>1. t.addr \in cut /\ t.addr \notin MountedPads' BY <1>1, <2>1, <2>3 DEF PadOK, MountedPads
    <3>2. PadOK(t)' BY <2>1, <3>1, PadSlotKept
    <3> QED BY <1>3, <3>2 DEF SlotOK
  <2> QED BY <1>3, <2>2, <2>3
<1>4. CASE ~t.connected BY <1>4 DEF SlotOK, Empty
<1> QED BY <1>2, <1>3, <1>4 DEF SlotOK

(* process_gamepad_report gives the slot a state.                           *)
LEMMA PaddedIs ==
  ASSUME NEW s, NEW n, NEW k, NEW p
  PROVE  Padded(s, n, k, p) = StatePut(s, n, ReadWith(s[n].map, k, p))
BY Zenon DEF Padded, StatePut

(* XInput: a mounted pad's slot shows what comes.                            *)
LEMMA PadReportKeepsSlots ==
  ASSUME Wiring, ArmedInv, PadInv, SlotInv, NEW a \in Addresses, XinputReport(a)
  PROVE  SlotInv'
<1> DEFINE n == ByDev(slots, a, "xinput")  k == bus[a].kind
<1>1. PICK packet \in Packets(k.driver), p \in {"rest", "held"} :
        /\ packet # "input" => p = xpad[a]
        /\ slots' = IF Reported(packet) /\ n # 0 THEN Padded(slots, n, k, p) ELSE slots
        /\ last' = IF packet = "input" THEN [last EXCEPT ![a] = p] ELSE last
  BY DEF XinputReport
<1>2. UNCHANGED <<bus, hids, cut>> /\ <<"xinput", a>> \in armed BY DEF XinputReport
<1>3. a \in MountedPads /\ bus[a] # NoDevice /\ k.driver # "hid" BY <1>2, ReportersAre
<1>4. xpad[a] = last[a] /\ a \notin cut BY <1>3 DEF PadInv
<1>5. last'[a] = p /\ (\A b \in Addresses \ {a} : last'[b] = last[b]) BY <1>1, <1>4 DEF PadInv
<1>6. UsbDevNext BY DEF UsbDevNext
<1>7. ASSUME NEW t \in Slot, SlotOK(t), t.connected /\ t.addr = a => last' = last PROVE SlotOK(t)'
  BY <1>2, <1>5, <1>6, <1>7, ReportKeeps
<1> DEFINE mine == {m \in Slots : slots[m].connected /\ slots[m].addr = a /\ slots[m].source = "xinput"}
<1>8. (mine # {} => n \in mine) /\ (mine = {} => n = 0) BY DeviceSlot
<1>9. ASSUME NEW s \in Slots, NEW t \in Slot, slots[s] = t, t.connected, t.addr = a
      PROVE  s \in mine /\ PadOK(t) /\ t.source = "xinput" /\ t.inst = 0 /\ t.map = MapOf(k)
  <2>1. SlotOK(t) BY <1>9 DEF SlotInv
  <2>2. t.source # "hid"
    <3> SUFFICES ASSUME t.source = "hid" PROVE FALSE OBVIOUS
    <3>1. HidThere(t) BY <1>9, <2>1 DEF SlotOK, HidOK
    <3> QED BY <1>3, <1>9, <3>1 DEF HidThere, Mounted, Wiring, HidsInv
  <2>3. t.source = "xinput" /\ PadOK(t) BY <1>9, <2>1, <2>2 DEF SlotOK
  <2> QED BY <1>3, <1>9, <2>3 DEF PadOK
<1> HIDE DEF n, mine
<1>10. CASE ~(Reported(packet) /\ n # 0)
  <2>1. slots' = slots BY <1>1, <1>10
  <2>2. ASSUME NEW s \in Slots, NEW t \in Slot, slots[s] = t PROVE SlotOK(t)'
    <3>1. SlotOK(t) BY <2>2 DEF SlotInv
    <3>2. t.connected /\ t.addr = a => last' = last
      <4> SUFFICES ASSUME t.connected, t.addr = a PROVE last' = last OBVIOUS
      <4>1. n # 0
        <5>1. n \in Slots BY <1>8, <1>9, <2>2 DEF mine
        <5> QED BY <5>1 DEF Slots
      <4>2. packet # "input" BY <1>10, <4>1 DEF Reported, NewData
      <4> QED BY <1>1, <4>2
    <3> QED BY <1>7, <3>1, <3>2
  <2> QED BY <2>1, <2>2, SlotsStand
<1>11. CASE Reported(packet) /\ n # 0
  <2>1. n \in mine /\ n \in Slots BY <1>8, <1>11 DEF mine
  <2>2. PICK t \in Slot : t = slots[n] BY <2>1 DEF SlotInv
  <2>3. t.connected /\ t.addr = a BY <2>1, <2>2 DEF mine
  <2>4. PadOK(t) /\ t.source = "xinput" /\ t.inst = 0 /\ t.map = MapOf(k) BY <1>9, <2>1, <2>2, <2>3
  <2>5. ReadWith(slots[n].map, k, p) = p BY <2>2, <2>4, MapIs DEF ReadWith
  <2>6. p \in Looks /\ slots \in [Slots -> Slot] BY DEF Looks, SlotInv
  <2>7. slots' = [slots EXCEPT ![n] = Mapped(slots[n], slots[n].map, p)]
    <3>1. slots' = Padded(slots, n, k, p) BY <1>1, <1>11
    <3>2. Padded(slots, n, k, p) = StatePut(slots, n, p) BY <2>5, PaddedIs
    <3>3. StatePut(slots, n, p) = [slots EXCEPT ![n] = Mapped(slots[n], slots[n].map, p)] BY <2>1, <2>6, StateGiven
    <3> QED BY <3>1, <3>2, <3>3
  <2>8. Mapped(t, t.map, p) \in Slot BY <2>6 DEF Mapped, Slot
  <2>9. PICK v \in Slot : v = Mapped(t, t.map, p) BY <2>8
  <2>10. v.connected /\ v.addr = a /\ v.source = "xinput" /\ v.inst = 0 /\ v.map = MapOf(k) /\ v.shows = p
    BY <2>3, <2>4, <2>9 DEF Mapped
  <2>11. slots' = [slots EXCEPT ![n] = v] BY <2>2, <2>7, <2>9
  <2>12. MountedPads' = MountedPads BY <1>2 DEF MountedPads
  <2>13. PadOK(v)' BY <1>2, <1>3, <1>5, <2>10, <2>12 DEF PadOK, NoDevice, MapOf
  <2>14. SlotOK(v)' BY <2>10, <2>13 DEF SlotOK
  <2>15. ASSUME NEW s \in Slots \ {n}, NEW u \in Slot, slots[s] = u, u.connected, u.addr = a PROVE FALSE
    <3>1. u.source = "xinput" /\ u.inst = 0 BY <1>9, <2>15
    <3>2. Holder(slots[s]) = Holder(slots[n]) BY <2>2, <2>3, <2>4, <2>15, <3>1 DEF Holder
    <3> QED BY <2>1, <2>2, <2>3, <2>15, <3>2 DEF SlotInv
  <2>16. \A s \in Slots \ {n} : \A u \in Slot : slots[s] = u => SlotOK(u)' BY <1>7, <2>15 DEF SlotInv
  <2>17. \A s \in Slots \ {n} : slots[s].connected => Holder(slots[s]) # Holder(v)
    <3> SUFFICES ASSUME NEW s \in Slots \ {n}, slots[s].connected, Holder(slots[s]) = Holder(v) PROVE FALSE OBVIOUS
    <3>1. slots[s].addr = a BY <2>10 DEF Holder
    <3> QED BY <2>6, <2>15, <3>1
  <2> QED BY <2>1, <2>11, <2>14, <2>16, <2>17, SlotPut
<1> QED BY <1>10, <1>11

(* HID: the report of a generic interface goes to the device's slot, which is *)
(* its pad's; a pad without one gets an idle one.                            *)
LEMMA HidReportKeepsSlots ==
  ASSUME Wiring, ArmedInv, InfoInv, PadInv, SlotInv, NEW i \in 1..Instances, HidReport(i)
  PROVE  SlotInv'
<1> DEFINE a == hids[i].addr  k == bus[a].kind  itf == Itf(i)
           m == ByDev(slots, a, "hid")  n == FindOrAlloc(slots, a, i, "hid")
<1>1. PICK x \in DOMAIN itf.reports, p \in {"rest", "held"} :
        /\ slots' = IF itf.protocol # "none" THEN slots ELSE Generic(i, itf.reports[x], p).to
        /\ last' = IF itf.reports[x].usage = "gamepad" THEN [last EXCEPT ![a] = p] ELSE last
  BY DEF HidReport
<1> DEFINE r == itf.reports[x]
<1>2. UNCHANGED <<bus, hids, cut>> /\ <<"hid", i>> \in armed BY DEF HidReport
<1>3. i \in Mounted /\ a \in Addresses /\ a \in Nat /\ i \in Nat /\ bus[a] # NoDevice /\ k.driver = "hid"
  <2>1. i \in Mounted /\ a \in Addresses /\ bus[a] # NoDevice /\ k.driver = "hid" BY <1>2, ReportersAre
  <2>2. a \in Nat BY <2>1, Places
  <2>3. i \in Nat OBVIOUS
  <2> QED BY <2>1, <2>2, <2>3
<1>4. last' \in [Addresses -> {"rest", "held"}] /\ (\A b \in Addresses \ {a} : last'[b] = last[b])
      /\ (r.usage = "gamepad" => last'[a] = p) /\ (r.usage # "gamepad" => last' = last)
  BY <1>1, <1>3 DEF PadInv
<1>5. UsbDevNext BY DEF UsbDevNext
<1>6. Mounted' = Mounted BY <1>2 DEF Mounted
<1>7. slots \in [Slots -> Slot] /\ p \in Looks /\ "hid" \in Sides BY DEF SlotInv, Looks, Sides
<1>8. itf = k.itfs[hids[i].itf] /\ k \in UNION Shelves /\ hids[i].itf \in 1..Len(k.itfs)
  <2>1. hids[i] # NoItf BY <1>3 DEF Mounted
  <2> QED BY <1>3, <2>1 DEF Itf, Wiring, BusInv, HidsInv
<1>9. itf \in [protocol : {"none", "keyboard", "mouse", "xinput"},
               reports : Seq([usage : {"keyboard", "mouse", "gamepad", "consumer"}, id : Nat])]
  BY <1>8, Devices
<1>10. itf.reports \in Seq([usage : {"keyboard", "mouse", "gamepad", "consumer"}, id : Nat]) BY <1>9
<1>11. info[i] = itf.reports BY <1>3 DEF InfoInv
<1> DEFINE mine == {s \in Slots : slots[s].connected /\ slots[s].addr = a /\ slots[s].source = "hid"}
<1>12. (mine # {} => m \in mine) /\ (mine = {} => m = 0) BY DeviceSlot
<1>13. Generic(i, r, p).to =
         IF m # 0 THEN Padded(slots, m, k, p)
         ELSE IF Matched(info[i], r) # "gamepad" \/ n = 0 THEN slots
         ELSE Padded(SlotClaimed(slots, n, a, i, "hid"), n, k, p)
  BY DEF Generic
<1> HIDE DEF m, n, mine
<1>14. ASSUME NEW t \in Slot, SlotOK(t),
              t.connected /\ t.source = "hid" /\ t.addr = a => last' = last \/ ~(Alone(k) /\ t.map # "null")
       PROVE  SlotOK(t)'
  <2>1. k.driver = "hid" /\ a \in Addresses BY <1>3
  <2>2. t.connected => \/ t.addr # a \/ last' = last
                       \/ t.source = "hid" /\ ~(Alone(bus[t.addr].kind) /\ t.map # "null")
                       \/ t.source = "xinput" /\ bus[a].kind.driver = "hid"
    BY <1>14, <2>1 DEF SlotOK
  <2>3. \A b \in Addresses \ {a} : last'[b] = last[b] BY <1>4
  <2> HIDE DEF a, k
  <2> QED BY <1>2, <1>5, <1>14, <2>1, <2>2, <2>3, ReportKeeps
<1>15. ASSUME NEW s \in Slots, NEW t \in Slot, slots[s] = t, t.connected, t.source = "hid", t.addr = a
       PROVE  s \in mine /\ HidThere(t) /\ (Alone(k) => t.inst = i)
  <2>1. HidThere(t) BY <1>15 DEF SlotInv, SlotOK, HidOK
  <2>2. ASSUME Alone(k) PROVE t.inst = i
    <3>1. t.inst \in Mounted /\ hids[t.inst].addr = a BY <1>15, <2>1 DEF HidThere
    <3> QED BY <1>3, <2>2, <3>1, AloneIs
  <2> QED BY <1>15, <2>1, <2>2 DEF mine
<1>16. CASE itf.protocol # "none"
  <2>1. slots' = slots BY <1>1, <1>16
  <2>2. ASSUME NEW s \in Slots, NEW t \in Slot, slots[s] = t PROVE SlotOK(t)'
    <3>1. SlotOK(t) BY <2>2 DEF SlotInv
    <3>2. t.connected /\ t.source = "hid" /\ t.addr = a => ~Alone(k)
      <4> SUFFICES ASSUME t.connected, t.source = "hid", t.addr = a, Alone(k) PROVE FALSE OBVIOUS
      <4>1. HidThere(t) /\ t.inst = i BY <1>15, <2>2
      <4> QED BY <1>16, <4>1 DEF HidThere
    <3> QED BY <1>14, <3>1, <3>2
  <2> QED BY <2>1, <2>2, SlotsStand
<1>17. CASE itf.protocol = "none" /\ m # 0
  <2>1. m \in mine /\ m \in Slots BY <1>12, <1>17 DEF mine
  <2>2. PICK t \in Slot : t = slots[m] BY <1>7, <2>1
  <2>3. t.connected /\ t.addr = a /\ t.source = "hid" BY <2>1, <2>2 DEF mine
  <2>4. HidThere(t) /\ (Alone(k) => t.inst = i) BY <1>15, <2>1, <2>2, <2>3
  <2> DEFINE w == ReadWith(t.map, k, p)
  <2>5. w \in Looks BY DEF ReadWith, Looks
  <2>6. slots' = [slots EXCEPT ![m] = Mapped(slots[m], slots[m].map, w)]
    <3>1. slots' = Padded(slots, m, k, p) BY <1>1, <1>13, <1>17
    <3>2. Padded(slots, m, k, p) = StatePut(slots, m, w) BY <2>2, PaddedIs
    <3> HIDE DEF w
    <3>3. StatePut(slots, m, w) = [slots EXCEPT ![m] = Mapped(slots[m], slots[m].map, w)] BY <1>7, <2>1, <2>5, StateGiven
    <3> QED BY <3>1, <3>2, <3>3
  <2>7. t.map \in {"null", MapOf(k)} BY <2>3, <2>4 DEF HidThere
  <2>8. ASSUME Alone(k), t.map # "null" PROVE w = last'[a]
    <3>1. w = p BY <2>7, <2>8 DEF ReadWith
    <3>2. t.inst = i /\ IsGamepad(itf) BY <2>4, <2>8 DEF HidThere
    <3>3. itf = k.itfs[1] BY <1>3, <2>8, AloneIs
    <3>4. Len(itf.reports) <= 1 BY <2>8, <3>3 DEF Alone
    <3>5. itf.reports # << >> /\ DOMAIN itf.reports = 1..Len(itf.reports) /\ Len(itf.reports) \in Nat
      <4> DEFINE e == << >>
      <4>1. DOMAIN e = {} BY EmptySeq
      <4>2. itf.reports # e BY <4>1
      <4> QED BY <1>10, <4>2
    <3>6. x = 1 /\ DOMAIN itf.reports = {1} BY <3>4, <3>5
    <3>7. "gamepad" \in Usages(itf) BY <3>2, <3>5 DEF IsGamepad
    <3>8. r.usage = "gamepad" BY <3>6, <3>7 DEF Usages
    <3> QED BY <1>4, <3>1, <3>8
  <2> HIDE DEF w
  <2>9. Mapped(t, t.map, w) \in Slot BY <2>5 DEF Mapped, Slot
  <2>10. PICK v \in Slot : v = Mapped(t, t.map, w) BY <2>9
  <2>11. v.connected /\ v.addr = a /\ v.source = "hid" /\ v.inst = t.inst /\ v.map = t.map /\ v.shows = w
    BY <2>3, <2>10 DEF Mapped
  <2>12. slots' = [slots EXCEPT ![m] = v] BY <2>2, <2>6, <2>10
  <2>13. HidThere(t)' BY <1>5, <1>6, <2>4, HidSlotKept DEF HidThere
  <2>14. HidThere(v)'
    <3>1. v.inst = t.inst /\ v.addr = t.addr /\ v.map = t.map BY <2>3, <2>11
    <3> QED BY <2>13, <3>1 DEF HidThere
  <2>15. HidOK(v)'
    <3>1. Alone(bus'[v.addr].kind) /\ v.map # "null" => v.shows = last'[v.addr] BY <1>2, <2>8, <2>11
    <3> QED BY <2>14, <3>1 DEF HidOK, Alone
  <2>16. SlotOK(v)' BY <2>11, <2>15 DEF SlotOK
  <2>17. ASSUME NEW s \in Slots \ {m}, NEW u \in Slot, slots[s] = u PROVE SlotOK(u)'
    <3>1. SlotOK(u) BY <2>17 DEF SlotInv
    <3>2. u.connected /\ u.source = "hid" /\ u.addr = a => ~Alone(k)
      <4> SUFFICES ASSUME u.connected, u.source = "hid", u.addr = a, Alone(k) PROVE FALSE OBVIOUS
      <4>1. u.inst = i /\ t.inst = i BY <1>15, <2>4, <2>17
      <4>2. Holder(slots[s]) = Holder(slots[m]) BY <2>2, <2>3, <2>17, <4>1 DEF Holder
      <4> QED BY <2>1, <2>2, <2>3, <2>17, <4>2 DEF SlotInv
    <3> QED BY <1>14, <3>1, <3>2
  <2>18. \A s \in Slots \ {m} : slots[s].connected => Holder(slots[s]) # Holder(v)
    <3> SUFFICES ASSUME NEW s \in Slots \ {m}, slots[s].connected, Holder(slots[s]) = Holder(v) PROVE FALSE OBVIOUS
    <3>1. Holder(slots[s]) = Holder(slots[m]) BY <2>2, <2>3, <2>11 DEF Holder
    <3> QED BY <2>1, <2>2, <2>3, <3>1 DEF SlotInv
  <2> QED BY <2>1, <2>12, <2>16, <2>17, <2>18, SlotPut
<1>18. CASE itf.protocol = "none" /\ m = 0 /\ (Matched(info[i], r) # "gamepad" \/ n = 0)
  <2>1. slots' = slots BY <1>1, <1>13, <1>18
  <2>2. mine = {} BY <1>12, <1>18 DEF mine, Slots
  <2>3. ASSUME NEW s \in Slots, NEW t \in Slot, slots[s] = t PROVE SlotOK(t)'
    <3>1. SlotOK(t) BY <2>3 DEF SlotInv
    <3> QED BY <1>14, <1>15, <2>2, <2>3, <3>1
  <2> QED BY <2>1, <2>3, SlotsStand
<1>19. CASE itf.protocol = "none" /\ m = 0 /\ Matched(info[i], r) = "gamepad" /\ n # 0
  <2>1. slots' = Padded(SlotClaimed(slots, n, a, i, "hid"), n, k, p) BY <1>1, <1>13, <1>19
  <2>2. mine = {} BY <1>12, <1>19 DEF mine, Slots
  <2>3. n \in Slots /\ ~slots[n].connected
    <3> DEFINE own == {s \in Slots : slots[s].connected /\ slots[s].addr = a /\ slots[s].inst = i /\ slots[s].source = "hid"}
               idle == {s \in Slots : ~slots[s].connected}
    <3>1. own = {} BY <2>2 DEF mine
    <3>2. (own = {} /\ idle # {} => n \in idle) /\ (own = {} /\ idle = {} => n = 0) BY SlotFound DEF n
    <3> QED BY <1>19, <3>1, <3>2
  <2>4. slots[n] = Empty
    <3>1. PICK t \in Slot : t = slots[n] BY <1>7, <2>3
    <3>2. SlotOK(t) BY <2>3, <3>1 DEF SlotInv
    <3> QED BY <2>3, <3>1, <3>2 DEF SlotOK
  <2>5. slots[n].map = "null" BY <2>4, EmptyIs
  <2> DEFINE w == ReadWith("null", k, p)
  <2>6. w \in Looks BY DEF ReadWith, Looks
  <2>7. slots' = [slots EXCEPT ![n] = Taken(a, i, "hid", "null", w)]
    <3> DEFINE c == SlotClaimed(slots, n, a, i, "hid")
    <3> HIDE DEF c
    <3>1. slots' = StatePut(c, n, ReadWith(c[n].map, k, p)) BY <2>1, PaddedIs DEF c
    <3> HIDE DEF w, a
    <3>2. StatePut(c, n, w) = [slots EXCEPT ![n] = Taken(a, i, "hid", slots[n].map, w)] /\ c[n].map = slots[n].map
      BY <1>3, <1>7, <2>3, <2>6, ClaimShown DEF c
    <3>3. ReadWith(c[n].map, k, p) = w BY <2>5, <3>2 DEF w
    <3> QED BY <2>5, <3>1, <3>2, <3>3
  <2> HIDE DEF w
  <2>8. Taken(a, i, "hid", "null", w) \in Slot BY <1>3, <2>6 DEF Taken, Slot, Maps, Sides
  <2>9. PICK v \in Slot : v = Taken(a, i, "hid", "null", w) BY <2>8
  <2>10. v.connected /\ v.addr = a /\ v.source = "hid" /\ v.inst = i /\ v.map = "null" BY <2>9 DEF Taken
  <2>11. slots' = [slots EXCEPT ![n] = v] BY <2>7, <2>9
  <2>12. IsGamepad(itf)
    <3>1. Matched(itf.reports, r) = "gamepad" BY <1>11, <1>19
    <3>2. "gamepad" \in Usages(itf) BY <1>9, <3>1, MatchedIs
    <3> QED BY <3>2 DEF IsGamepad
  <2>13. HidThere(v) BY <1>3, <1>19, <2>10, <2>12 DEF HidThere
  <2>14. HidThere(v)' BY <1>5, <1>6, <2>13, HidSlotKept DEF HidThere
  <2>15. SlotOK(v)' BY <2>10, <2>14 DEF SlotOK, HidOK
  <2>16. ASSUME NEW s \in Slots, NEW t \in Slot, slots[s] = t PROVE SlotOK(t)'
    <3>1. SlotOK(t) BY <2>16 DEF SlotInv
    <3> QED BY <1>14, <1>15, <2>2, <2>16, <3>1
  <2>17. \A s \in Slots \ {n} : slots[s].connected => Holder(slots[s]) # Holder(v) BY <2>2, <2>10 DEF Holder, mine
  <2> QED BY <2>3, <2>11, <2>15, <2>16, <2>17, SlotPut
<1> QED BY <1>16, <1>17, <1>18, <1>19

(* The slots belong to pads, and show them.                                  *)
LEMMA SlotsStay ==
  ASSUME Wiring, ArmedInv, InfoInv, PadInv, SlotInv, UsbDevNext
  PROVE  SlotInv'
<1>1. \A a : XinputReport(a) => a \in Addresses
  <2> SUFFICES ASSUME NEW a, XinputReport(a) PROVE a \in Addresses OBVIOUS
  <2>1. <<"xinput", a>> \in armed BY DEF XinputReport
  <2> QED BY <2>1, ReportersAre
<1> QED BY <1>1, AttachKeepsSlots, DetachKeepsSlots, MountKeepsSlots, ConfigKeepsSlots, HidReportKeepsSlots,
        PadReportKeepsSlots DEF UsbDevNext

(* The slots say what is there.                                             *)
LEMMA SlotsTell ==
  ASSUME Wiring, PadInv, SlotInv
  PROVE  SlotsBelongToPads /\ SlotsShowTheirPads
<1>1. ASSUME NEW s \in Slots, slots[s].connected
      PROVE  /\ \/ slots[s].source = "xinput" /\ slots[s].addr \in cut
                \/ LET b == bus[slots[s].addr]
                   IN  b # NoDevice /\ IsPad(b.kind) /\ (b.kind.driver = "hid") = (slots[s].source = "hid")
             /\ LET a == slots[s].addr
                IN  bus[a] # NoDevice /\ a \notin cut /\ Alone(bus[a].kind) /\ slots[s].map # "null" => slots[s].shows = last[a]
  <2>1. PICK t \in Slot : t = slots[s] BY DEF SlotInv
  <2>2. SlotOK(t) /\ t.connected BY <1>1, <2>1 DEF SlotInv
  <2> DEFINE a == t.addr  k == bus[a].kind
  <2>3. CASE t.source = "hid"
    <3>1. HidOK(t) /\ HidThere(t) BY <2>2, <2>3 DEF SlotOK, HidOK
    <3>2. t.inst \in 1..Instances /\ hids[t.inst] # NoItf /\ hids[t.inst].addr = a BY <3>1 DEF HidThere, Mounted
    <3>3. bus[a] # NoDevice /\ k.driver = "hid" /\ k \in UNION Shelves /\ hids[t.inst].itf \in 1..Len(k.itfs)
      BY <3>2 DEF Wiring, BusInv, HidsInv
    <3>4. Itf(t.inst) = k.itfs[hids[t.inst].itf] /\ hids[t.inst].itf \in DOMAIN k.itfs BY SMTT(30), <3>2, <3>3, Devices DEF Itf
    <3>5. IsPad(k) BY <3>1, <3>4 DEF HidThere, IsPad
    <3> QED BY <2>1, <2>3, <3>1, <3>3, <3>5 DEF HidOK
  <2>4. CASE t.source = "xinput"
    <3>1. PadOK(t) BY <2>2, <2>4 DEF SlotOK
    <3>2. a \in Addresses /\ (a \in cut \/ (bus[a] # NoDevice /\ k.driver # "hid")) BY <3>1 DEF PadOK
    <3>3. ASSUME bus[a] # NoDevice, a \notin cut PROVE t.shows = last[a]
      <4>1. CASE a \in MountedPads BY <3>1, <4>1 DEF PadOK
      <4>2. CASE a \notin MountedPads
        <5>1. t.shows = "rest" /\ k.driver # "hid" /\ bus[a].next # 2 BY <3>1, <3>2, <3>3, <4>2 DEF PadOK, MountedPads
        <5>2. k \in UNION Shelves /\ bus[a].next \in 1..Len(k.itfs) + 1 BY <3>2, <3>3 DEF Wiring, BusInv
        <5>3. Len(k.itfs) = 1 BY <5>1, <5>2, Devices
        <5>4. bus[a].next = 1 BY <5>1, <5>2, <5>3
        <5> QED BY <3>2, <5>1, <5>4 DEF PadInv
      <4> QED BY <4>1, <4>2
    <3> QED BY <2>1, <2>4, <3>2, <3>3 DEF IsPad
  <2> QED BY <2>2, <2>3, <2>4 DEF SlotOK
<1>2. SlotsBelongToPads
  <2>1. ASSUME NEW s \in Slots, slots[s].connected, NEW t \in Slots \ {s}, slots[t].connected
        PROVE  <<slots[t].addr, slots[t].inst, slots[t].source>> # <<slots[s].addr, slots[s].inst, slots[s].source>>
    BY <2>1 DEF SlotInv, Holder
  <2> QED BY <1>1, <2>1 DEF SlotsBelongToPads
<1>3. SlotsShowTheirPads BY <1>1 DEF SlotsShowTheirPads
<1> QED BY <1>2, <1>3

(* Every report arrives whole, from devices whose reports can be told apart. *)
LEMMA ReportsTell ==
  ASSUME WellDescribed, Wiring, ArmedInv, InfoInv, PadInv, SlotInv, UsbDevNext
  PROVE  ReportsArriveWhole'
<1>1. CASE heard' = Unheard BY <1>1 DEF Unheard, ReportsArriveWhole
<1>2. ASSUME NEW i \in 1..Instances, HidReport(i) PROVE ReportsArriveWhole'
  <2> DEFINE a == hids[i].addr  k == bus[a].kind  itf == Itf(i)
             m == ByDev(slots, a, "hid")  n == FindOrAlloc(slots, a, i, "hid")
             room == \E s \in Slots : ~slots[s].connected
  <2>1. PICK x \in DOMAIN itf.reports, p \in {"rest", "held"} :
          heard' = [usage |-> itf.reports[x].usage,
                    sink |-> IF itf.protocol # "none" THEN itf.protocol ELSE Generic(i, itf.reports[x], p).sink,
                    shifted |-> itf.protocol # "none" /\ Stripped(i) # (itf.reports[x].id # 0),
                    room |-> room, pad |-> IsPad(k)]
    BY <1>2 DEF HidReport
  <2> DEFINE r == itf.reports[x]
  <2>2. <<"hid", i>> \in armed BY <1>2 DEF HidReport
  <2>3. i \in Mounted /\ a \in Addresses /\ bus[a] # NoDevice /\ k.driver = "hid" BY <2>2, ReportersAre
  <2>4. itf = k.itfs[hids[i].itf] /\ k \in UNION Shelves /\ hids[i].itf \in 1..Len(k.itfs)
    <3>1. hids[i] # NoItf BY <2>3 DEF Mounted
    <3> QED BY <2>3, <3>1 DEF Itf, Wiring, BusInv, HidsInv
  <2>5. itf \in [protocol : {"none", "keyboard", "mouse", "xinput"},
                 reports : Seq([usage : {"keyboard", "mouse", "gamepad", "consumer"}, id : Nat])]
    BY <2>4, Devices
  <2>6. info[i] = itf.reports BY <2>3 DEF InfoInv
  <2>7. TellsApart(k, itf)
    <3>1. hids[i].itf \in DOMAIN k.itfs BY <2>4, Devices
    <3> QED BY <2>3, <2>4, <3>1 DEF WellDescribed
  <2> HIDE DEF a, k, room
  <2>8. CASE itf.protocol # "none"
    <3>1. r.usage = itf.protocol /\ \A y \in DOMAIN itf.reports : itf.reports[y].id # 0 <=> r.id # 0
      BY <2>7, <2>8 DEF TellsApart
    <3>2. Stripped(i) = (r.id # 0) BY <2>6, <3>1 DEF Stripped
    <3>3. itf.protocol \in {"none", "keyboard", "mouse", "xinput"} BY <2>5
    <3>4. heard'.usage = r.usage /\ heard'.sink = r.usage /\ ~heard'.shifted /\ r.usage \in {"keyboard", "mouse", "xinput"}
      BY <2>1, <2>8, <3>1, <3>2, <3>3
    <3> QED BY <3>4 DEF ReportsArriveWhole
  <2>9. CASE itf.protocol = "none"
    <3>1. Matched(info[i], r) = r.usage /\ (IsPad(k) => r.usage \notin {"keyboard", "mouse"})
      BY <2>6, <2>7, <2>9 DEF TellsApart
    <3>2. /\ heard'.usage = r.usage /\ heard'.sink = Generic(i, r, p).sink /\ heard'.shifted = FALSE
          /\ heard'.room = room /\ heard'.pad = IsPad(k)
      BY <2>1, <2>9
    <3>3. Generic(i, r, p).sink =
            IF m # 0 THEN "slot"
            ELSE IF r.usage # "gamepad" THEN IF r.usage \in {"keyboard", "mouse"} THEN r.usage ELSE "nobody"
            ELSE IF n = 0 THEN "nobody" ELSE "slot"
      BY <3>1 DEF Generic, a, k
    <3> DEFINE mine == {s \in Slots : slots[s].connected /\ slots[s].addr = a /\ slots[s].source = "hid"}
    <3>4. (mine # {} => m \in mine) /\ (mine = {} => m = 0) BY DeviceSlot DEF a
    <3>5. m # 0 => IsPad(k)
      <4> SUFFICES ASSUME m # 0 PROVE IsPad(k) OBVIOUS
      <4> HIDE DEF m
      <4>1. m \in Slots /\ slots[m].connected /\ slots[m].addr = a /\ slots[m].source = "hid" BY <3>4
      <4> QED BY <4>1, SlotsTell DEF SlotsBelongToPads, k
    <3>6. room /\ m = 0 => n # 0
      <4> SUFFICES ASSUME room, m = 0 PROVE n # 0 OBVIOUS
      <4> DEFINE own == {s \in Slots : slots[s].connected /\ slots[s].addr = a /\ slots[s].inst = i /\ slots[s].source = "hid"}
                 idle == {s \in Slots : ~slots[s].connected}
      <4>1. own # {} \/ idle # {} => n \in Slots BY SlotFound DEF a
      <4>2. idle # {} BY DEF room
      <4> QED BY <4>1, <4>2 DEF Slots
    <3> HIDE DEF m, n, mine
    <3> QED BY <3>1, <3>2, <3>3, <3>5, <3>6 DEF ReportsArriveWhole
  <2> QED BY <2>8, <2>9
<1>3. HidMount \/ SetConfig \/ Sent \/ (\E k \in shelf : Attach(k)) \/ (\E a \in Addresses : Detach(a) \/ XinputReport(a))
        => heard' = Unheard
  BY DEF HidMount, SetConfig, Sent, Attach, Detach, XinputReport
<1> QED BY <1>1, <1>2, <1>3 DEF UsbDevNext

(* Nobody is plugged in at first.                                            *)
DevInv == Wiring /\ ArmedInv /\ InfoInv /\ InventoryInv /\ PadInv /\ SlotInv /\ ReportsArriveWhole
(* No invariant is broken at first.                                         *)
LEMMA DevStarts ==
  ASSUME NEW shelves, shelves \subseteq Shelves \cup {{}}, UsbDevInit(shelves)
  PROVE  DevInv
<1>1. /\ shelf \in shelves /\ bus = [a \in Addresses |-> NoDevice] /\ hids = [i \in 1..Instances |-> NoItf]
      /\ info = [i \in 1..Instances |-> << >>] /\ inv = << >> /\ slots = [s \in Slots |-> Empty]
      /\ opening = 0 /\ waiting = FALSE /\ xpad = [a \in Addresses |-> Free] /\ armed = {}
      /\ last = [a \in Addresses |-> "rest"] /\ cut = {} /\ heard = Unheard
  BY DEF UsbDevInit
<1>2. Mounted = {} /\ MountedPads = {} BY <1>1 DEF Mounted, MountedPads
<1>3. NoDevice \in [kind : (UNION Shelves) \cup {NoDevice.kind}, next : Nat]
  <2> DEFINE n == [name |-> "none", driver |-> "none", itfs |-> << >>]
  <2>1. NoDevice = [kind |-> n, next |-> 0] BY DEF NoDevice
  <2> HIDE DEF n
  <2>2. NoDevice.kind = n BY <2>1
  <2>3. n \in (UNION Shelves) \cup {n} /\ 0 \in Nat OBVIOUS
  <2>4. [kind |-> n, next |-> 0] \in [kind : (UNION Shelves) \cup {n}, next : Nat] BY <2>3, Zenon
  <2> QED BY <2>1, <2>2, <2>4, Zenon
<1>4. BusInv BY <1>1, <1>3 DEF BusInv
<1>5. HidsInv
  <2>1. NoItf \in [addr : Nat, itf : Nat] BY DEF NoItf
  <2> QED BY <1>1, <2>1 DEF HidsInv
<1>6. OpeningInv BY <1>1 DEF OpeningInv
<1>7. ArmedInv BY <1>1, <1>2 DEF ArmedInv
<1>8. InfoInv BY <1>1, <1>2 DEF InfoInv
<1>9. InventoryInv
  <2> DEFINE e == << >>
  <2>1. e \in Seq(Entries) /\ DOMAIN e = {} BY EmptySeq
  <2>2. inv = e BY <1>1
  <2> HIDE DEF e
  <2> QED BY <1>2, <2>1, <2>2 DEF InventoryInv
<1>10. PadInv BY <1>1 DEF PadInv
<1>11. SlotInv
  <2>1. SlotOK(Empty) BY EmptyIs DEF SlotOK
  <2>2. slots \in [Slots -> Slot] /\ \A s \in Slots : slots[s] = Empty BY <1>1, EmptyIs
  <2> QED BY <2>1, <2>2, EmptyIs DEF SlotInv
<1>12. ReportsArriveWhole BY <1>1 DEF ReportsArriveWhole, Unheard
<1> QED BY <1>4, <1>5, <1>6, <1>7, <1>8, <1>9, <1>10, <1>11, <1>12 DEF Wiring, DevInv

(* No step breaks one.                                                      *)
LEMMA DevStays ==
  ASSUME WellDescribed, DevInv, UsbDevNext
  PROVE  DevInv'
BY MountedStay, ArmedStays, InfoStays, ListStays, PadsStay, SlotsStay, ReportsTell DEF DevInv

(* The program may do something else in the meantime.                        *)
LEMMA DevRests ==
  ASSUME DevInv, UNCHANGED usbVars
  PROVE  DevInv'
<1>1. UNCHANGED <<shelf, bus, hids, info, inv, slots, flags, opening, waiting, xpad, armed, last, heard, cut>> BY DEF usbVars
<1>2. Wiring' /\ Mounted' = Mounted /\ MountedPads' = MountedPads BY <1>1, ReportWires DEF DevInv
<1>3. \A i : Itf(i)' = Itf(i) BY <1>1 DEF Itf
<1>4. ArmedInv' BY <1>1, <1>2 DEF DevInv, ArmedInv
<1>5. InfoInv' BY <1>1, <1>2, <1>3 DEF DevInv, InfoInv
<1>6. InventoryInv'
  <2>1. \A i : Entry(i)' = Entry(i) BY <1>1, <1>3 DEF Entry
  <2> QED BY <1>1, <1>2, <2>1 DEF DevInv, InventoryInv
<1>7. PadInv' BY <1>1 DEF DevInv, PadInv, NoDevice
<1>8. SlotInv'
  <2>1. ASSUME NEW t PROVE SlotOK(t)' <=> SlotOK(t)
    <3>1. HidThere(t)' <=> HidThere(t) BY <1>1, <1>2, <1>3 DEF HidThere, IsGamepad, Usages, MapOf
    <3>2. HidOK(t)' <=> HidOK(t) BY <1>1, <3>1 DEF HidOK, Alone
    <3>3. PadOK(t)' <=> PadOK(t) BY <1>1, <1>2 DEF PadOK, MapOf, NoDevice
    <3> QED BY <3>2, <3>3 DEF SlotOK, Empty
  <2> QED BY <1>1, <2>1 DEF DevInv, SlotInv, Holder
<1>9. ReportsArriveWhole' BY <1>1 DEF DevInv, ReportsArriveWhole
<1> QED BY <1>2, <1>4, <1>5, <1>6, <1>7, <1>8, <1>9 DEF DevInv

(* Together they are the property.                                          *)
LEMMA DevTells ==
  ASSUME DevInv
  PROVE  DevicesAreTrue
BY ListTells, SlotsTell, ArmedTells DEF DevInv, DevicesAreTrue

(* The devices the program sees are the devices there are: the inventory,    *)
(* the slots and what they show, where reports go, and who is listened to.   *)
THEOREM DevicesAreAlwaysTrue ==
  ASSUME WellDescribed
  PROVE  InputSpec => []DevicesAreTrue
<1>1. InputInit => DevInv
  <2> SUFFICES ASSUME InputInit PROVE DevInv OBVIOUS
  <2> DEFINE there == IF inputScene = "devices" THEN Shelves ELSE {{}}
  <2>1. UsbDevInit(there) BY DEF InputInit
  <2>2. there \subseteq Shelves \cup {{}} OBVIOUS
  <2> HIDE DEF there
  <2> QED BY <2>1, <2>2, DevStarts
<1>2. DevInv /\ [InputNext]_inputVars => DevInv'
  <2> SUFFICES ASSUME DevInv, [InputNext]_inputVars PROVE DevInv' OBVIOUS
  <2>1. UsbDevNext \/ UNCHANGED usbVars BY DEF InputNext, inputVars
  <2> QED BY <2>1, DevStays, DevRests
<1>3. DevInv => DevicesAreTrue BY DevTells
<1> QED BY <1>1, <1>2, <1>3, PTL DEF InputSpec
=============================================================================
