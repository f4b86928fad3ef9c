----------------------------- MODULE Keyboards -----------------------------
(* The keys of the interface: USB keyboards through drivers/usbhid/hid_app.c,
   which keeps one report for all of them, a PS/2 keyboard through the PIO
   FIFO of drivers/ps2 and the decoder of ui/ui_input_ps2.c, both polled by
   ui_input_getkey.  Nothing is interrupt driven: a callback runs inside
   ui_input_task, so reports and polls interleave at calls.

   A USB code and a set 2 code are members of small sets: a code that decodes
   and repeats, one that only decodes, one the interface has no use for.     *)
EXTENDS Integers, Sequences, FiniteSets, SequencesExt

CONSTANTS
  UsbKeyboards, \* the USB keyboards there are
  MaxHeld,      \* keys a hand holds at once (a report has six places)
  MaxPresses,   \* USB key presses in a run
  FifoDepth     \* bytes the joined PIO receive FIFO holds

ASSUME KeyboardsAssumption ==
  /\ MaxHeld \in 1..6 /\ MaxPresses \in Nat /\ FifoDepth \in Nat \ {0}
  /\ IsFiniteSet(UsbKeyboards)

VARIABLES
  hand,     \* board -> its keys down, as its next report lists them
  plugged,  \* the boards that are mounted
  kbd,      \* hid_app.c: report (prev_kbd_report) and connected
  poll,     \* ui_input.c: prev (s_prev_keys), kc, key, due, events
  held,     \* the PS/2 keyboard: its keys down
  fifo,     \* the bytes the PIO has received
  dec,      \* ui_input_ps2.c: brk, ext, alt, down (s_down and s_down_ext)
  seen      \* history: what the properties compare the above with
keyVars == <<hand, plugged, kbd, poll, held, fifo, dec, seen>>

None == "none"
----------------------------------------------------------------------------
(* USB.                                                                     *)

Codes == {"up", "down", "a", "f5"}
(* What hid_getkey makes of a code. *)
KeyOf(kc) == IF kc = "f5" THEN None ELSE kc
Repeatable(key) == key \in {"up", "down"}

UsbInit ==
  /\ hand = [b \in UsbKeyboards |-> << >>] /\ plugged = {}
  /\ kbd = [report |-> << >>, connected |-> FALSE]
  /\ poll = [prev |-> << >>, kc |-> None, key |-> None, due |-> FALSE, events |-> 0]

(* tuh_hid_mount_cb. *)
Mount(b) ==
  /\ b \notin plugged
  /\ plugged' = plugged \cup {b} /\ kbd' = [kbd EXCEPT !.connected = TRUE]
  /\ UNCHANGED <<hand, poll, held, fifo, dec, seen>>

(* tuh_hid_umount_cb: the flag goes, whatever else is plugged in; the report *)
(* stays.  The hand that held the keys does not matter any more.             *)
Unmount(b) ==
  /\ b \in plugged
  /\ plugged' = plugged \ {b} /\ kbd' = [kbd EXCEPT !.connected = FALSE]
  /\ hand' = [hand EXCEPT ![b] = << >>]
  /\ seen' = [seen EXCEPT !.yanked = @ \/ hand[b] # << >>]
  /\ UNCHANGED <<poll, held, fifo, dec>>

(* tuh_hid_report_received_cb: a key goes down or comes up, the keyboard     *)
(* reports all it holds, and that replaces what any keyboard reported before.*)
Report(b) ==
  /\ b \in plugged
  /\ \/ \E kc \in Codes \ ToSet(hand[b]) :
          /\ Len(hand[b]) < MaxHeld /\ seen.presses < MaxPresses
          /\ hand' = [hand EXCEPT ![b] = Append(@, kc)]
          /\ seen' = [seen EXCEPT !.presses = @ + 1, !.unread = TRUE,
                                  !.missed = @ \/ seen.unread,
                                  !.shared = @ \/ \E c \in UsbKeyboards \ {b} : hand[c] # << >>]
     \/ \E n \in DOMAIN hand[b] :
          /\ hand' = [hand EXCEPT ![b] = RemoveAt(@, n)]
          /\ seen' = [seen EXCEPT !.unread = TRUE, !.missed = @ \/ seen.unread,
                                  !.shared = @ \/ \E c \in UsbKeyboards \ {b} : hand[c] # << >>]
  /\ kbd' = [kbd EXCEPT !.report = hand'[b]]
  /\ UNCHANGED <<plugged, poll, held, fifo, dec>>

Fresh(prev) == SelectSeq(kbd.report, LAMBDA kc : kc \notin ToSet(prev))
(* The presses ui_kbd_note_usb counts in one poll: all of them, first thing. *)
Noted(prev) == Cardinality({n \in DOMAIN kbd.report : kbd.report[n] \notin ToSet(prev)})

(* The first fresh code that decodes; the repeat takes the first fresh code. *)
Chosen(fresh) ==
  LET keys == SelectSeq(fresh, LAMBDA kc : KeyOf(kc) # None)
  IN  IF keys = << >> THEN None ELSE KeyOf(Head(keys))

StillDown(kc) == kc \in ToSet(kbd.report)

(* hid_getkey: the key of this poll and the state it leaves.                *)
HidGetkey ==
  LET noted == [poll EXCEPT !.events = @ + Noted(poll.prev), !.prev = kbd.report]
      fresh == Fresh(poll.prev)
      key   == Chosen(fresh)
      idle  == IF StillDown(poll.kc) THEN noted
               ELSE [noted EXCEPT !.kc = None, !.key = None, !.due = FALSE]
  IN  IF poll.due /\ StillDown(poll.kc)
        THEN [key |-> poll.key, repeat |-> TRUE, to |-> [noted EXCEPT !.due = FALSE]]
        ELSE [key |-> key, repeat |-> FALSE,
              to |-> IF Repeatable(key)
                       THEN [idle EXCEPT !.kc = Head(fresh), !.key = key, !.due = FALSE]
                       ELSE idle]

(* The delay, then the rate, passes. *)
RepeatDue ==
  /\ poll.kc # None /\ ~poll.due
  /\ poll' = [poll EXCEPT !.due = TRUE]
  /\ UNCHANGED <<hand, plugged, kbd, held, fifo, dec, seen>>
----------------------------------------------------------------------------
(* PS/2, scan code set 2.  A key is its prefix and its code: the two Alts  *)
(* share a number, as cursor up and keypad 8 do.                             *)

Ps2Keys == {<<TRUE, "75">>, <<FALSE, "1C">>, <<FALSE, "11">>, <<TRUE, "11">>}
Alts == {k \in Ps2Keys : k[2] = "11"}

Ps2Init ==
  /\ held = {} /\ fifo = << >>
  /\ dec = [brk |-> FALSE, ext |-> FALSE, alt |-> FALSE, down |-> {}]

Make(k) == (IF k[1] THEN <<"E0">> ELSE << >>) \o <<k[2]>>
Break(k) == (IF k[1] THEN <<"E0">> ELSE << >>) \o <<"F0", k[2]>>

(* A full FIFO stalls the state machine, and the bytes sent meanwhile pass   *)
(* by.                                                                       *)
Received(bytes) ==
  LET room == FifoDepth - Len(fifo)
      got == IF Len(bytes) <= room THEN bytes ELSE SubSeq(bytes, 1, room)
  IN  /\ fifo' = fifo \o got
      /\ seen' = [seen EXCEPT !.lost = @ \/ got # bytes]

(* A press, the keyboard's own repeat, a release.                           *)
Ps2Make(k) ==
  /\ k \in held \/ Cardinality(held) < MaxHeld
  /\ held' = held \cup {k} /\ Received(Make(k))
  /\ UNCHANGED <<hand, plugged, kbd, poll, dec>>

Ps2Break(k) ==
  /\ k \in held
  /\ held' = held \ {k} /\ Received(Break(k))
  /\ UNCHANGED <<hand, plugged, kbd, poll, dec>>

(* What ui_ps2_getkey returns for a make code: Up, or a letter with or       *)
(* without Alt.                                                              *)
Ps2Key(ext, code, alt) ==
  CASE ext /\ code = "75" -> "up"
    [] ~ext /\ code = "1C" -> IF alt THEN "alt-a" ELSE "a"
    [] OTHER -> None

(* A slip: only a plain key clears the prefix flags. *)
StepKeeping(d, b) ==
  CASE b = "F0" -> [d EXCEPT !.brk = TRUE]
    [] b = "E0" -> [d EXCEPT !.ext = TRUE]
    [] b = "11" -> [d EXCEPT !.alt = ~d.brk]
    [] OTHER -> [d EXCEPT !.brk = FALSE, !.ext = FALSE]
(* One byte through the decoder.  Prefixes only set their flag; a modifier   *)
(* is state; a release reports nothing.                                      *)
DecoderStep(d, b) ==
  CASE b = "F0" -> [d EXCEPT !.brk = TRUE]
    [] b = "E0" -> [d EXCEPT !.ext = TRUE]
    [] OTHER ->
         [brk |-> FALSE, ext |-> FALSE,
          alt |-> IF b = "11" THEN ~d.brk ELSE d.alt,
          down |-> IF d.brk THEN d.down \ {<<d.ext, b>>} ELSE d.down \cup {<<d.ext, b>>}]

(* The key byte b makes in state d. *)
Emits(d, b) ==
  IF b \in {"E0", "F0", "11"} \/ d.brk THEN None ELSE Ps2Key(d.ext, b, d.alt)

(* ui_ps2_getkey: bytes are read until one makes a key or the FIFO is empty. *)
Ps2Getkey ==
  LET read[n \in 0..Len(fifo)] ==     \* the decoder and the key after n bytes
        IF n = 0 THEN [key |-> None, to |-> dec, used |-> 0]
        ELSE LET g == read[n - 1]
             IN  IF g.key # None THEN g
                 ELSE [key |-> Emits(g.to, fifo[n]), to |-> DecoderStep(g.to, fifo[n]), used |-> n]
  IN  read[Len(fifo)]
----------------------------------------------------------------------------
(* ui_input_getkey: USB first; PS/2 only when USB has nothing.              *)
Getkey ==
  LET usb == HidGetkey  ps2 == Ps2Getkey
  IN  /\ poll' = usb.to
      /\ IF usb.key # None THEN UNCHANGED <<dec, fifo>>
         ELSE dec' = ps2.to /\ fifo' = SubSeq(fifo, ps2.used + 1, Len(fifo))
      /\ seen' = [seen EXCEPT
           !.unread = FALSE,
           !.ghost = @ \/ (usb.repeat /\ \A b \in plugged : poll.kc \notin ToSet(hand[b]))]
      /\ UNCHANGED <<hand, plugged, kbd, held>>

SeenInit == seen = [presses |-> 0, unread |-> FALSE, missed |-> FALSE, shared |-> FALSE,
                    yanked |-> FALSE, lost |-> FALSE, ghost |-> FALSE]

KeyInit == UsbInit /\ Ps2Init /\ SeenInit

UsbKeyNext == RepeatDue \/ \E b \in UsbKeyboards : Mount(b) \/ Unmount(b) \/ Report(b)
Ps2KeyNext == \E k \in Ps2Keys : Ps2Make(k) \/ Ps2Break(k)
(* One letter, typed when the last was read. *)
SlowPs2KeyNext == fifo = << >> /\ Ps2Make(<<FALSE, "1C">>)
----------------------------------------------------------------------------
KeyTypeOK ==
  /\ plugged \subseteq UsbKeyboards /\ DOMAIN hand = UsbKeyboards
  /\ \A b \in UsbKeyboards : ToSet(hand[b]) \subseteq Codes /\ Len(hand[b]) <= MaxHeld
  /\ kbd.connected \in BOOLEAN
  /\ poll.kc \in Codes \cup {None} /\ poll.key \in Codes \cup {None}
  /\ poll.due \in BOOLEAN /\ (poll.due => poll.kc # None)
  /\ held \subseteq Ps2Keys /\ Len(fifo) <= FifoDepth
  /\ dec.down \subseteq {<<e, c>> : e \in BOOLEAN, c \in {"75", "1C", "11"}}

(* Every press reaches the counter the ports dialog shows, the ones that     *)
(* fall on a repeat and the ones the interface has no key for included - as  *)
(* long as a poll saw each report, no two keyboards held keys at once and    *)
(* none was pulled out with a key held.                                      *)
EveryPressIsCounted ==
  ~(seen.missed \/ seen.shared \/ seen.yanked \/ seen.unread)
    => poll.events = seen.presses

(* A repeat needs a hand: the code that repeats is down on some keyboard,    *)
(* unless one was pulled out with a key held.                                *)
RepeatsNeedAHand == ~seen.yanked => ~seen.ghost

(* With the FIFO drained and no byte lost to it, the maps the key test       *)
(* lights its keys from are the keys that are down, no prefix is left over,  *)
(* and Alt does not stick.                                                   *)
Ps2MapsAgree ==
  fifo = << >> /\ ~seen.lost =>
    dec.down = held /\ ~dec.brk /\ ~dec.ext /\ (dec.alt => held \cap Alts # {})

(* What the keyboards give the interface is what hands did to them: all      *)
(* three of the above.                                                       *)
KeysAreTrue == EveryPressIsCounted /\ RepeatsNeedAHand /\ Ps2MapsAgree
=============================================================================
