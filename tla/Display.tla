------------------------------ MODULE Display ------------------------------
(***************************************************************************)
(* From a change on the desktop to the connector: core 0 composes into the *)
(* back buffer and presents it (app/main.c, ui/ui_video*.c), the dialogs   *)
(* move the pointer in the front buffer (ui/ui_cursor.c), and the scan-out *)
(* interrupt of core 1 reads whatever it was given (pico_hdmi/             *)
(* video_output.c, pico_vga/vga_output.c, hdmi_pio/hdmi.c).                *)
(*                                                                         *)
(* A screen is two rows of cells: row 1 is what the menus cover, row 2 the *)
(* rest.  A page of the PIO driver is one row of the buffer it borrows:    *)
(* 320 bytes by 240 lines in a buffer of 320 bytes by 480.                 *)
(***************************************************************************)
EXTENDS Naturals

CONSTANTS
  Rigs,       \* what may be on the bench: mode asked for, video pins, a mouse
  Dialogs,    \* the ways a dialog treats the pointer overlay
  Busy,       \* the mouse and a menu's key may arrive in one pass of the loop
  MaxChanges, \* bound: changes of what the screen should show
  MaxStalls   \* bound: times core 1 stops

ASSUME DisplayAssumption ==
  /\ Rigs \subseteq [mode : STRING, base : Nat, pointer : BOOLEAN]
  /\ "none" \notin Dialogs
  /\ Busy \in BOOLEAN
  /\ MaxChanges \in Nat /\ MaxStalls \in Nat

Rows == 1..2
None == "none"

(* ui_video_open: the first backend of the mode whose init agrees, and if  *)
(* there is none the first of any.                                         *)
Backends == << <<"hstx", "hdmi">>, <<"pio", "hdmi">>, <<"vga", "vga">>, <<"tv", "composite">> >>
Agrees(name, base) ==
  CASE name = "hstx" -> base < 32
    [] name = "pio"  -> base >= 32
    [] OTHER         -> TRUE
Opened(mode, base) ==
  LET able == {i \in DOMAIN Backends : Agrees(Backends[i][1], base)}
      fit  == {i \in able : Backends[i][2] = mode}
      pool == IF fit = {} THEN able ELSE fit
  IN  Backends[CHOOSE i \in pool : \A j \in pool : i <= j]

(* A dialog may forget the overlay before its loop or after every present, *)
(* or leave it alone: "audio" is dlg_audio and dlg_tape; "led" dlg_led,    *)
(* dlg_ps2, dlg_burnin and dlg_overclock; "plain" dlg_keys and dlg_help.   *)
ForgetsBefore(d) == d = "led"
ForgetsAfter(d) == d = "audio"
UsesOverlay(d) == d \in {"audio", "led"}

VARIABLES
  rig, ptr,                  \* the bench; the row the pointer is in
  want, ver,                 \* what each row should show; changes so far
  dlg, clip, pc,             \* core 0: the open dialog, the rows being drawn, where it is
  fb, back,                  \* the two framebuffers and back_idx
  patch, px, active,         \* the pointer overlay
  page,                      \* of the PIO driver: the page it scans
  fbBits, fbPending, swapDone,
  taking,                    \* core 1 is between two stores of its vsync callback
  stood, waited, clean, late,  \* of a present; pictures given up
  scan, posted, line, sending, taken,  \* core 1
  alive, stalls
program == <<want, ver, dlg, clip, ptr>>
overlay == <<patch, px, active>>
present == <<stood, waited, clean, late>>
core1   == <<scan, posted, line, sending, taken>>
health  == <<alive, stalls>>
vars == <<rig, program, pc, fb, back, overlay, page, fbBits, fbPending, swapDone,
          taking, present, core1, health>>

Backend == Opened(rig.mode, rig.base)[1]
Scanned == Backend \in {"hstx", "vga"}     \* the hardware reads our buffers
Cell(paint, arrow) == [paint |-> paint, arrow |-> arrow]
HalfDrawn == MaxChanges + 1                \* cleared, and not drawn yet
Half == Cell(HalfDrawn, FALSE)
NoBuffer == 2
Blank == [r \in Rows |-> Cell(0, FALSE)]
Paints == 0..HalfDrawn
Cells == [paint : Paints, arrow : BOOLEAN]
front == 1 - back

(* ui_video_scans_front_buffer: everything but composite.                  *)
ScansFrontBuffer == Opened(rig.mode, rig.base)[2] # "composite"

(***************************************************************************)
(* The overlay                                                             *)
(***************************************************************************)
(* ui_cursor_overlay_move on buffers f with index b in front, the overlay  *)
(* having been forgotten or not: put the patch back, save, draw.           *)
Restored(f, b, on) == IF on THEN [f EXCEPT ![b][px] = patch] ELSE f
Move(f, b, on, y) ==
  IF ~ScansFrontBuffer \/ (on /\ y = px)
  THEN fb' = f /\ active' = on /\ UNCHANGED <<patch, px>>
  ELSE LET old == Restored(f, b, on)
       IN  /\ patch' = old[b][y]
           /\ fb' = [old EXCEPT ![b][y] = Cell(@.paint, TRUE)]
           /\ px' = y /\ active' = TRUE

(***************************************************************************)
(* Core 0: composing                                                       *)
(***************************************************************************)
Changed(rows) ==
  /\ ver' = IF rows = {} THEN ver ELSE ver + 1
  /\ want' = [r \in Rows |-> IF r \in rows THEN ver + 1 ELSE want[r]]

(* ui_desktop_draw, ui_desktop_draw_clipped: the fill first, in the clip.  *)
Compose(rows) ==
  /\ clip' = rows /\ pc' = "cleared"
  /\ fb' = [fb EXCEPT ![back] = [r \in Rows |-> IF r \in rows THEN Half ELSE @[r]]]

(* redraw_menu_area: only where the menus are, unless the backend draws a  *)
(* screen of its own.                                                      *)
Redraw(menuOnly) == Compose(IF menuOnly /\ ScansFrontBuffer THEN {1} ELSE Rows)

(* One pass of the event loop with something to do.                        *)
Pass ==
  /\ pc = "idle" /\ dlg = None
  /\ \E moved, clicked \in (IF rig.pointer THEN BOOLEAN ELSE {FALSE}), key \in {None, "menu", "other"} :
       /\ moved \/ clicked \/ key # None
       /\ ver < MaxChanges \/ (~clicked /\ key = None)
       /\ Busy \/ key # "menu" \/ ~(moved \/ clicked)
       /\ ptr' = IF moved THEN 3 - ptr ELSE ptr
       /\ Changed(IF clicked \/ key = "other" THEN Rows ELSE IF key = "menu" THEN {1} ELSE {})
       /\ Redraw(key = "menu")
  /\ UNCHANGED <<rig, dlg, back, overlay, page, fbBits, fbPending, swapDone, taking, present, core1, health>>

OpenDialog ==
  /\ pc = "idle" /\ dlg = None /\ ver + 1 < MaxChanges
  /\ \E d \in Dialogs : dlg' = d /\ active' = (active /\ ~ForgetsBefore(d))
  /\ pc' = "opened"
  /\ UNCHANGED <<rig, want, ver, clip, ptr, fb, back, patch, px, page, fbBits, fbPending,
                 swapDone, taking, present, core1, health>>

(* paint_desktop and the window on top of it, no pointer.                  *)
DrawDialog ==
  /\ pc = "opened" \/ (pc = "idle" /\ dlg # None /\ ver + 1 < MaxChanges)
  /\ Changed(Rows) /\ Compose(Rows)
  /\ UNCHANGED <<rig, dlg, ptr, back, overlay, page, fbBits, fbPending, swapDone, taking, present, core1, health>>

MovePointer ==
  /\ pc = "idle" /\ dlg # None /\ rig.pointer
  /\ ptr' = 3 - ptr
  /\ IF UsesOverlay(dlg) THEN Move(fb, front, active, 3 - ptr) ELSE UNCHANGED <<fb, overlay>>
  /\ UNCHANGED <<rig, want, ver, dlg, clip, pc, back, page, fbBits, fbPending, swapDone,
                 taking, present, core1, health>>

(* The loop repaints when the dialog is gone - the menus only, if a menu's *)
(* key came in the pass whose click had opened it.                         *)
CloseDialog ==
  /\ pc = "idle" /\ dlg # None
  /\ dlg' = None /\ Changed(Rows)
  /\ \E menuOnly \in (IF Busy /\ rig.pointer THEN BOOLEAN ELSE {FALSE}) : Redraw(menuOnly)
  /\ UNCHANGED <<rig, ptr, back, overlay, page, fbBits, fbPending, swapDone, taking, present, core1, health>>

(* The rest of the composition; the desktop's own pointer last.            *)
Paint ==
  /\ pc = "cleared" /\ pc' = "drawn"
  /\ fb' = [fb EXCEPT ![back] = [r \in Rows |->
              IF r \in clip THEN Cell(want[r], dlg = None /\ rig.pointer /\ ptr = r) ELSE @[r]]]
  /\ UNCHANGED <<rig, program, back, overlay, page, fbBits, fbPending, swapDone, taking, present, core1, health>>

(***************************************************************************)
(* Core 0: presenting                                                      *)
(***************************************************************************)
(* After a dialog's present: some forget the overlay and draw it again.    *)
AfterPresent(f, b) ==
  IF ForgetsAfter(dlg)
  THEN IF rig.pointer THEN Move(f, b, FALSE, ptr)
       ELSE fb' = f /\ active' = FALSE /\ UNCHANGED <<patch, px>>
  ELSE fb' = f /\ UNCHANGED overlay

(* hstx_present, vga_present.                                              *)
ArmKeepsFlag ==
  /\ pc = "drawn" /\ Scanned /\ pc' = "post"
  /\ clean' = (fbPending = NoBuffer /\ ~taking) /\ stood' = ~alive /\ waited' = 0
  /\ UNCHANGED <<rig, program, fb, back, overlay, page, fbBits, fbPending, swapDone, taking, late, core1, health>>
Arm ==
  /\ pc = "drawn" /\ Scanned /\ pc' = "post"
  /\ swapDone' = FALSE
  /\ clean' = (fbPending = NoBuffer /\ ~taking) /\ stood' = ~alive /\ waited' = 0
  /\ UNCHANGED <<rig, program, fb, back, overlay, page, fbBits, fbPending, taking, late, core1, health>>

PostAtOnce ==
  /\ pc = "post" /\ pc' = "wait"
  /\ fbBits' = back /\ swapDone' = TRUE
  /\ UNCHANGED <<rig, program, fb, back, overlay, page, fbPending, taking, present, core1, health>>
Post ==
  /\ pc = "post" /\ pc' = "wait"
  /\ fbPending' = back
  /\ UNCHANGED <<rig, program, fb, back, overlay, page, fbBits, swapDone, taking, present, core1, health>>

(* ui_video_swap_buffers, ui_video_sync_back.                              *)
PublishUnsynced ==
  /\ pc' = "idle" /\ back' = front
  /\ AfterPresent(fb, back)
  /\ stood' = FALSE /\ waited' = 0 /\ clean' = TRUE
  /\ UNCHANGED <<rig, program, page, fbBits, fbPending, swapDone, taking, core1, health>>
Publish ==
  /\ pc' = "idle" /\ back' = front
  /\ AfterPresent([fb EXCEPT ![front] = fb[back]], back)
  /\ stood' = FALSE /\ waited' = 0 /\ clean' = TRUE
  /\ UNCHANGED <<rig, program, page, fbBits, fbPending, swapDone, taking, core1, health>>

Taken ==
  /\ pc = "wait" /\ swapDone
  /\ late' = (late /\ ~clean)
  /\ Publish

(* 50 ms is three frames: two vertical blanks, or core 1 stood still.      *)
NeverExpired == FALSE
Expired == stood \/ waited = 2
GiveUp ==
  /\ pc = "wait" /\ ~swapDone /\ Expired
  /\ late' = TRUE
  /\ Publish

(* pio_hdmi_present, tv_present: ui_textpage_draw clears the page it was   *)
(* given in the borrowed buffer, draws, and PIO turns the page.            *)
Target == IF Backend = "pio" THEN 3 - page ELSE 1
ClearPage ==
  /\ pc = "drawn" /\ ~Scanned /\ pc' = "page"
  /\ fb' = [fb EXCEPT ![0][Target] = Half]
  /\ UNCHANGED <<rig, program, back, overlay, page, fbBits, fbPending, swapDone, taking, present, core1, health>>

TurnPage ==
  /\ pc = "page" /\ pc' = "idle"
  /\ page' = IF Backend = "pio" THEN Target ELSE page
  /\ AfterPresent([fb EXCEPT ![0][Target] = Cell(ver, FALSE)], front)
  /\ UNCHANGED <<rig, program, back, fbBits, fbPending, swapDone, taking, present, core1, health>>

(***************************************************************************)
(* Core 1                                                                  *)
(***************************************************************************)
(* Scan lines 0, 1, 2 are blank and 3, 4 carry rows 1, 2.  pico_hdmi calls *)
(* back as the vertical sync begins, pico_vga when its count wraps.        *)
Lines == 0..4
Next1(n) == (n + 1) % 5
Before(n) == (n + 4) % 5
Active(n) == n >= 3
Nothing == [row |-> 0, was |-> Cell(0, FALSE)]
SwapLine == IF Backend = "hstx" THEN 1 ELSE 2

(* dma_irq_handler, vga_dma_irq_handler.  The transfer that starts now is  *)
(* what the interrupt before has posted; the one posted now comes after    *)
(* it, and the next row goes into the one line buffer already.             *)
StartsRow == IF ~posted /\ Active(Before(scan)) THEN Before(scan) - 2 ELSE 0
Irq ==
  /\ Scanned /\ alive /\ ~taking
  /\ sending' = IF StartsRow # 0 THEN [row |-> StartsRow, was |-> line] ELSE Nothing
  /\ IF Active(scan) /\ ~posted
     THEN line' = fb[fbBits][scan - 2] /\ posted' = TRUE /\ scan' = scan
     ELSE line' = line /\ posted' = FALSE /\ scan' = Next1(scan)
  /\ IF scan = SwapLine
     THEN /\ waited' = IF pc = "wait" /\ waited < 2 THEN waited + 1 ELSE waited
          /\ taking' = (fbPending # NoBuffer)
          /\ fbBits' = IF fbPending # NoBuffer THEN fbPending ELSE fbBits
          /\ taken' = [r \in Rows |-> fb[fbBits'][r].paint]
     ELSE UNCHANGED <<waited, taking, fbBits, taken>>
  /\ UNCHANGED <<rig, program, pc, fb, back, overlay, page, fbPending, swapDone, stood, clean, late, health>>

(* The callback's other two stores.                                        *)
EndTaking ==
  /\ taking /\ taking' = FALSE
  /\ fbPending' = NoBuffer /\ swapDone' = TRUE
  /\ UNCHANGED <<rig, program, pc, fb, back, overlay, page, fbBits, present, core1, health>>

(* dma_handler_HDMI copies a row into the line buffer that is not being    *)
(* sent.                                                                   *)
PioLine ==
  /\ Backend = "pio"
  /\ line' = fb[0][page] /\ sending' = [row |-> page, was |-> fb[0][page]]
  /\ UNCHANGED <<rig, program, pc, fb, back, overlay, page, fbBits, fbPending, swapDone,
                 taking, present, scan, posted, taken, health>>

(* Core 1 stops and goes on: settings.c:119 and the benchmark take away    *)
(* the flash its loop runs from.                                           *)
Stall ==
  /\ Scanned /\ alive /\ ~taking /\ stalls < MaxStalls
  /\ alive' = FALSE /\ stalls' = stalls + 1
  /\ stood' = (stood \/ pc \in {"post", "wait"})
  /\ UNCHANGED <<rig, program, pc, fb, back, overlay, page, fbBits, fbPending, swapDone,
                 taking, waited, clean, late, core1>>
Resume ==
  /\ ~alive /\ alive' = TRUE
  /\ UNCHANGED <<rig, program, pc, fb, back, overlay, page, fbBits, fbPending, swapDone,
                 taking, present, core1, stalls>>

(***************************************************************************)
(* The first redraw is due.                                                *)
Init ==
  /\ rig \in Rigs /\ ptr = 1
  /\ want = [r \in Rows |-> 0] /\ ver = 0
  /\ dlg = None /\ clip = Rows /\ pc = "cleared"
  /\ fb = [b \in 0..1 |-> Blank] /\ back = 1
  /\ patch = Cell(0, FALSE) /\ px = 1 /\ active = FALSE
  /\ page = 1
  /\ fbBits = 0 /\ fbPending = NoBuffer /\ swapDone = FALSE /\ taking = FALSE
  /\ stood = FALSE /\ waited = 0 /\ clean = TRUE /\ late = FALSE
  /\ scan = 0 /\ posted = FALSE /\ line = Cell(0, FALSE) /\ sending = Nothing
  /\ taken = [r \in Rows |-> 0]
  /\ alive = TRUE /\ stalls = 0

Next ==
  \/ Pass \/ OpenDialog \/ DrawDialog \/ MovePointer \/ CloseDialog \/ Paint
  \/ Arm \/ Post \/ Taken \/ GiveUp \/ ClearPage \/ TurnPage
  \/ Irq \/ EndTaking \/ PioLine \/ Stall \/ Resume

(* Core 1's interrupt comes while core 1 runs, and core 0 does not stop in *)
(* the middle of a present.                                                *)
Fairness ==
  WF_vars(Irq) /\ WF_vars(EndTaking) /\ WF_vars(Post) /\ WF_vars(Taken) /\ WF_vars(GiveUp)
Spec == Init /\ [][Next]_vars /\ Fairness

(***************************************************************************)
(* Properties                                                              *)
(***************************************************************************)
TypeOK ==
  /\ rig \in Rigs /\ ptr \in Rows /\ px \in Rows /\ page \in Rows
  /\ want \in [Rows -> 0..MaxChanges] /\ ver \in 0..MaxChanges
  /\ dlg \in Dialogs \cup {None} /\ clip \subseteq Rows
  /\ pc \in {"idle", "opened", "cleared", "drawn", "post", "wait", "page"}
  /\ fb \in [0..1 -> [Rows -> Cells]] /\ back \in 0..1
  /\ patch \in Cells /\ line \in Cells
  /\ fbBits \in 0..1 /\ fbPending \in 0..NoBuffer
  /\ active \in BOOLEAN /\ swapDone \in BOOLEAN /\ taking \in BOOLEAN /\ stood \in BOOLEAN
  /\ clean \in BOOLEAN /\ late \in BOOLEAN /\ posted \in BOOLEAN /\ alive \in BOOLEAN
  /\ waited \in 0..2 /\ scan \in Lines /\ stalls \in 0..MaxStalls
  /\ sending \in [row : 0..2, was : Cells]
  /\ taken \in [Rows -> Paints]

(* What goes down the cable is one finished picture: a row is sent from    *)
(* the picture the vertical blank took, or from the row below it in the    *)
(* same picture (the one line buffer is refilled while it is sent), and    *)
(* never from a picture that is still being drawn - unless a present has   *)
(* been given up and none has gone through since (ui_video_hstx.c:82-84,   *)
(* ui_video_pio_hdmi.c:148-151).                                           *)
PictureIsWhole ==
  sending.row # 0 =>
    IF Scanned
    THEN late \/ {line.paint, sending.was.paint} \subseteq
                   {taken[sending.row], taken[IF sending.row = 2 THEN 2 ELSE sending.row + 1]}
    ELSE line.paint # HalfDrawn

(* When core 0 rests the screen is what it should be: every row shows the  *)
(* last change, and the pointer is where it is and nowhere else - after a  *)
(* full redraw, a redraw of the menus, a dialog's picture or a move of the *)
(* overlay (main.c:104-109, ui_cursor.c:43-52).                            *)
Arrow(r) == rig.pointer /\ ptr = r /\ (dlg = None \/ UsesOverlay(dlg))
ScreenIsCurrent ==
  pc = "idle" =>
    IF Scanned THEN fb[front] = [r \in Rows |-> Cell(want[r], Arrow(r))]
    ELSE fb[0][IF Backend = "pio" THEN page ELSE 1].paint = ver

(* The text pages are in a buffer the overlay has no business in           *)
(* (ui_cursor.c:89-95).                                                    *)
PagesAreTheirs == ~Scanned => \A r \in Rows : ~fb[0][r].arrow

(* A present that nothing was pending before, and that is not given up,    *)
(* ends with the scan-out on its picture; and it is given up only if       *)
(* core 1 stood still (the count main.c prints as swaps_timed_out).        *)
PresentsAreTaken ==
  [][pc = "wait" /\ pc' = "idle" =>
       /\ swapDone /\ clean => fbBits = back
       /\ swapDone \/ stood]_vars

(* "This must not become an infinite loop in the middle of a diagnostic"   *)
(* (ui_video_hstx.c:168): a present comes back, core 1 running or not.     *)
PresentReturns == pc = "wait" ~> pc # "wait"
=============================================================================
