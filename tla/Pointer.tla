------------------------------ MODULE Pointer ------------------------------
(* The pointer of the interface.  A PS/2 mouse interrupts: its handler puts
   bytes into a ring at any time, and ps2_mouse_poll makes packets of them when
   it is called.  A USB mouse reports inside ui_input_task.  ui_input_pointer
   merges the two into one cursor and one click.  The PS/2 ports dialog reads
   the mouse once more, behind it.

   Of a byte the model keeps what the driver tests: 8 is the sync bit, 64 an
   overflow bit, 1 the left button or any other low bit of a movement.        *)
EXTENDS Integers, Sequences, FiniteSets, SequencesExt

CONSTANTS
  Mice,         \* the USB mice there are
  RingSize,     \* places of the ring; one stays empty
  PollBytes,    \* bytes one ps2_mouse_poll takes
  HasPs2        \* the board's PS/2 mouse came up

ASSUME PointerAssumption ==
  RingSize \in Nat /\ RingSize > 3 /\ PollBytes \in Nat \ {0} /\ HasPs2 \in BOOLEAN /\ IsFiniteSet(Mice)

VARIABLES
  clean,    \* the PS/2 mouse's last packet came whole, its movement small
  ring,     \* mouse_rx_buffer, from tail to head
  ps2,      \* ps2.c: pkt (mouse_packet), left (buttons), delta, since
  usb,      \* hid_app.c: on (mice mounted), connected, left, delta
  ptr,      \* ui_input.c: present, pressed, moved, button (which s_last_button equals)
  loop,     \* at (the read that is next), n (bytes its poll may still take), dialog
  panel,    \* dlg_ps2: a packet was counted
  driven    \* history: the PS/2 mouse moved the cursor with the dialog open
pointerVars == <<clean, ring, ps2, usb, ptr, loop, panel, driven>>
----------------------------------------------------------------------------
(* The wire.                                                                *)

Heads == {8, 9, 72}
Small == {0, 1}             \* movement bytes with bit 3 clear
Moves == Small \cup {9}     \* or set, so that they look like a first byte
Motions == {<<0, 0>>, <<9, 1>>}

Sync(b) == b >= 8
Overflow(b) == b >= 64
Left(b) == b % 2 = 1

(* mouse_pio_irq_handler: the bytes that arrive whole go into the ring while *)
(* there is a place.                                                         *)
Stored(bytes) ==
  LET all == ring \o bytes IN SubSeq(all, 1, IF Len(all) < RingSize THEN Len(all) ELSE RingSize - 1)

(* The mouse sends a packet; the wire may damage one of its bytes.          *)
Ps2Packet(b, xy, damaged) ==
  LET sent == <<b>> \o xy
      got == IF damaged = 0 THEN sent ELSE RemoveAt(sent, damaged)
  IN  /\ HasPs2
      /\ ring' = Stored(got)
      /\ clean' = (Len(ring') = Len(ring) + 3 /\ ToSet(xy) \subseteq Small)
      /\ UNCHANGED <<ps2, usb, ptr, loop, panel, driven>>
----------------------------------------------------------------------------
(* The driver.                                                              *)

(* mouse_process_packet. *)
Processed(s, pkt) ==
  IF Overflow(pkt[1]) THEN s
  ELSE [s EXCEPT !.left = Left(pkt[1]),
                 !.since = IF Left(pkt[1]) /\ ~s.left THEN "short" ELSE @,
                 !.delta = @ \/ pkt[2] # 0 \/ pkt[3] # 0]

(* A slip: any byte starts a packet. *)
TakeAny(s, b) ==
  LET pkt == Append(s.pkt, b)
  IN  IF Len(pkt) < 3 THEN [s EXCEPT !.pkt = pkt]
      ELSE [s EXCEPT !.pkt = << >>, !.left = Left(pkt[1])]
(* One byte in ps2_mouse_poll: the first of a packet must have the sync bit. *)
Take(s, b) ==
  IF s.pkt = << >> /\ ~Sync(b) THEN s
  ELSE LET pkt == Append(s.pkt, b)
       IN  IF Len(pkt) < 3 THEN [s EXCEPT !.pkt = pkt]
           ELSE [Processed(s, pkt) EXCEPT !.pkt = << >>]

(* The loop of ps2_mouse_poll, a byte at a time: the handler may add more in  *)
(* between.  One budget stands for the two polls of an iteration.            *)
PollByte ==
  /\ ring # << >> /\ loop.n > 0
  /\ ps2' = Take(ps2, Head(ring)) /\ ring' = Tail(ring)
  /\ loop' = [loop EXCEPT !.n = @ - 1]
  /\ UNCHANGED <<clean, usb, ptr, panel, driven>>

PollEnds == ring = << >> \/ loop.n = 0

(* The failsafe of ps2_mouse_get_state lets a button go after two seconds.   *)
Failsafe(s) ==
  IF s.left /\ s.since = "long" THEN [s EXCEPT !.left = FALSE, !.since = "unset"] ELSE s

(* Two seconds pass with the button down. *)
TwoSeconds ==
  /\ ps2.left /\ ps2.since = "short"
  /\ ps2' = [ps2 EXCEPT !.since = "long"]
  /\ UNCHANGED <<clean, ring, usb, ptr, loop, panel, driven>>
----------------------------------------------------------------------------
(* USB.  Buttons are a level and the flag is one for all mice.               *)

UsbMouseMount(m) ==
  /\ m \notin usb.on
  /\ usb' = [usb EXCEPT !.on = @ \cup {m}, !.connected = TRUE]
  /\ UNCHANGED <<clean, ring, ps2, ptr, loop, panel, driven>>

UsbMouseUnmount(m) ==
  /\ m \in usb.on
  /\ usb' = [usb EXCEPT !.on = @ \ {m}, !.connected = FALSE]
  /\ UNCHANGED <<clean, ring, ps2, ptr, loop, panel, driven>>

(* process_mouse_report. *)
UsbMouseReport(m, left, moves) ==
  /\ m \in usb.on
  /\ usb' = [usb EXCEPT !.left = left, !.delta = @ \/ moves]
  /\ UNCHANGED <<clean, ring, ps2, ptr, loop, panel, driven>>
----------------------------------------------------------------------------
(* The interface.                                                           *)

(* pointer_apply: movement and the edges of the button. *)
PointerApplied(p, left, moves) ==
  [p EXCEPT !.moved = @ \/ moves, !.pressed = @ \/ (left /\ ~p.button), !.button = left]

(* The PS/2 block of ui_input_pointer asks first whether anything moved.     *)
FromPs2(p, s) == IF s.delta THEN PointerApplied(p, s.left, TRUE) ELSE p
(* A slip: all of them assigned, what PS/2 left behind included. *)
FromUsbAssigned(p, stuck) ==
  [p EXCEPT !.present = usb.connected, !.moved = usb.delta /\ ~stuck,
            !.pressed = usb.left /\ ~p.button, !.button = usb.left]
(* The USB block assigns: the edges of its own, and, when it has movement of  *)
(* its own, whether that found room on the screen.                           *)
FromUsb(p, stuck) ==
  IF ~usb.connected THEN p
  ELSE [p EXCEPT !.present = TRUE, !.moved = IF usb.delta THEN ~stuck ELSE @,
                 !.pressed = usb.left /\ ~p.button, !.button = usb.left]

(* ui_input_pointer: the PS/2 mouse's movement first, for which there is room *)
(* on the screen, then the USB mouse's, which may be stuck at an edge.       *)
Deliver ==
  /\ loop.at = "pointer" /\ PollEnds
  /\ LET s == Failsafe(ps2)
         p == [ptr EXCEPT !.pressed = FALSE, !.moved = FALSE, !.present = @ \/ HasPs2]
     IN  /\ \E stuck \in BOOLEAN : ptr' = FromUsb(FromPs2(p, s), stuck)
         /\ ps2' = [s EXCEPT !.delta = FALSE]
         /\ driven' = (driven \/ (loop.dialog /\ s.delta))
  /\ usb' = [usb EXCEPT !.delta = @ /\ ~usb.connected]
  /\ loop' = [loop EXCEPT !.n = PollBytes, !.at = IF loop.dialog THEN "panel" ELSE @]
  /\ UNCHANGED <<clean, ring, panel>>

(* dlg_ps2 then reads the mouse directly. *)
ReadPanel ==
  /\ loop.at = "panel" /\ PollEnds
  /\ LET s == Failsafe(ps2)
     IN  ps2' = [s EXCEPT !.delta = FALSE] /\ panel' = (panel \/ s.delta)
  /\ loop' = [loop EXCEPT !.n = PollBytes, !.at = "pointer"]
  /\ UNCHANGED <<clean, ring, usb, ptr, driven>>

PointerInit ==
  /\ clean = FALSE /\ ring = << >>
  /\ ps2 = [pkt |-> << >>, left |-> FALSE, delta |-> FALSE, since |-> "unset"]
  /\ usb = [on |-> {}, connected |-> FALSE, left |-> FALSE, delta |-> FALSE]
  /\ ptr = [present |-> FALSE, button |-> FALSE, pressed |-> FALSE, moved |-> FALSE]
  /\ loop \in {[at |-> "pointer", n |-> PollBytes, dialog |-> d] : d \in BOOLEAN}
  /\ panel = FALSE /\ driven = FALSE

Ps2Next == \E b \in {8, 9}, xy \in Motions, damaged \in 0..3 : Ps2Packet(b, xy, damaged)
(* On a quiet wire, from a mouse the loop keeps up with. *)
WholePs2Next == ring = << >> /\ \E b \in Heads, x \in Small : Ps2Packet(b, <<x, 0>>, 0)
UsbNext == \E m \in Mice : \/ UsbMouseMount(m) \/ UsbMouseUnmount(m)
                           \/ \E left, moves \in BOOLEAN : UsbMouseReport(m, left, moves)
LoopNext == TwoSeconds \/ PollByte \/ Deliver \/ ReadPanel
----------------------------------------------------------------------------
PointerTypeOK ==
  /\ Len(ring) < RingSize /\ Len(ps2.pkt) < 3
  /\ ToSet(ring) \cup ToSet(ps2.pkt) \subseteq Heads \cup Moves
  /\ ps2.since \in {"unset", "short", "long"} /\ (ps2.left => ps2.since # "unset")
  /\ usb.on \subseteq Mice /\ (usb.connected => usb.on # {})
  /\ loop.at \in {"pointer", "panel"} /\ loop.n \in 0..PollBytes /\ loop.dialog \in BOOLEAN

(* However many bytes noise, a damaged frame or a full ring has taken, one   *)
(* whole packet of small movement puts the driver back in step.              *)
OnePacketResyncs == clean /\ ring = << >> => ps2.pkt = << >>

(* A button that stuck when the stream lost step is let go once the mouse    *)
(* falls silent: the failsafe needs no packet to work.                       *)
SilentMouseLetsGo == []<>(ring # << >>) \/ <>[](~ps2.left)

(* A poll that finds movement from the PS/2 mouse reports it and shows the   *)
(* cursor, with a USB mouse plugged in or out - as long as that one does not *)
(* push at the same time.                                                    *)
CursorFollowsPs2 ==
  [][Deliver /\ ps2.delta /\ ~(usb.connected /\ usb.delta)
       => ptr'.moved /\ ptr'.present]_pointerVars

(* The pointer answers to the hand: movement shows, and nothing stays held.  *)
PointerFollows == CursorFollowsPs2 /\ SilentMouseLetsGo

(* ui_input.h: "pressed: went down since the last poll".                     *)
ClickIsReported ==
  [][Deliver /\ Failsafe(ps2).left /\ ~ptr.button => ptr'.pressed]_pointerVars

(* dlg_ps2.c counts the packets that move the PS/2 mouse: once one was taken *)
(* off the wire with the dialog open, the panel has counted something.       *)
PanelSeesTheMouse ==
  loop.at = "pointer" /\ loop.n = PollBytes /\ driven => panel
=============================================================================
