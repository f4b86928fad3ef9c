--------------------------- MODULE ConsoleProofs ---------------------------
(***************************************************************************)
(* What TLAPS proves of the two machines behind the screen. Of Display:    *)
(* that a present is taken and the picture is whole, on every bench, and   *)
(* that the screen is current when core 0 rests, where the dialogs forget  *)
(* the overlay after their presents. Of Tests, for every list of rows,     *)
(* every set of boards and whatever the tests find: that what the screen   *)
(* says of the rows is what they did, and that a run tries them all.       *)
(***************************************************************************)
EXTENDS Display, Tests, FiniteSetTheorems, TLAPS

(***************************************************************************)
(* Display: the inductive invariant                                        *)
(***************************************************************************)
(* Where core 0 can be: who has a present, and when a dialog may be open.  *)
Places ==
  /\ pc \in {"post", "wait"} => Scanned
  /\ pc = "page" => ~Scanned
  /\ ~Scanned => back = 1 /\ ~taking
  /\ pc = "opened" => dlg # None /\ ver + 1 < MaxChanges
  /\ dlg # None => ver < MaxChanges

(* A present that nothing was pending before goes through four states, and *)
(* only the buffer that is not shown is written in them.                   *)
Waiting == fbPending = back /\ ~taking /\ ~swapDone
Halfway == fbPending = back /\ fbBits = back /\ taking /\ ~swapDone
Gone    == fbPending = NoBuffer /\ fbBits = back /\ ~taking /\ swapDone
Handshake ==
  /\ pc = "post" => waited = 0
  /\ pc = "post" /\ clean => fbPending = NoBuffer /\ ~taking /\ ~swapDone
  /\ pc = "wait" /\ clean => Waiting \/ Halfway \/ Gone
  /\ pc = "wait" /\ ~swapDone => (taking /\ waited < 2) \/ (fbPending = back /\ waited = 0)

(* While no picture has been given up the scan-out is on the front buffer, *)
(* or on the back one between its vertical blank and core 0's swap.        *)
OnTime ==
  ~late =>
    /\ pc \notin {"post", "wait"} => fbBits = front /\ fbPending = NoBuffer /\ ~taking
    /\ pc \in {"post", "wait"} => clean
    /\ pc = "post" => fbBits = front
    /\ pc = "wait" /\ ~taking /\ ~swapDone => fbBits = front

(* From then on the buffer that is shown keeps the paints it was taken     *)
(* with, and so does the line that was copied out of it.                   *)
Steady == Scanned /\ (~late \/ (pc = "wait" /\ clean /\ (taking \/ swapDone)))
Shown ==
  Steady =>
    /\ \A r \in Rows : fb[fbBits][r].paint = taken[r]
    /\ posted => Active(scan) /\ line.paint = taken[scan - 2]
    /\ ~posted /\ Active(Before(scan)) => line.paint = taken[Before(scan) - 2]
    /\ sending.row # 0 =>
         {line.paint, sending.was.paint} \subseteq
           {taken[sending.row], taken[IF sending.row = 2 THEN 2 ELSE sending.row + 1]}

(* The overlay of a dialog that rests holds what is under the pointer.     *)
Overlaid ==
  Scanned /\ pc = "idle" /\ dlg = "audio" /\ active =>
    px = ptr /\ patch.paint = fb[front][ptr].paint

(* The pages of the PIO driver: the one it scans is finished.              *)
Paged ==
  /\ ~Scanned => line.paint # HalfDrawn
  /\ Backend = "pio" =>
    /\ patch.paint # HalfDrawn
    /\ \A r \in Rows : pc # "page" \/ r = page => fb[0][r].paint # HalfDrawn

PIInv == TypeOK /\ Places /\ Handshake /\ OnTime /\ Shown /\ Overlaid /\ Paged

(* What core 0 has composed, for ScreenIsCurrent.                          *)
Drawn(r) == Cell(want[r], dlg = None /\ rig.pointer /\ ptr = r)
Composed ==
  Scanned =>
  /\ pc = "idle" /\ dlg = None => \A r \in Rows : fb[back][r] = Drawn(r)
  /\ pc = "cleared" => clip = Rows \/ (dlg = None /\ \A r \in Rows \ clip : fb[back][r] = Drawn(r))
  /\ pc \in {"drawn", "post", "wait"} => \A r \in Rows : fb[back][r] = Drawn(r)
Arrowed ==
  Scanned /\ pc = "idle" /\ dlg = "audio" /\ rig.pointer => active /\ patch.arrow = FALSE
SIInv == PIInv /\ Composed /\ Arrowed /\ ScreenIsCurrent

(***************************************************************************)
(* Types and places                                                        *)
(***************************************************************************)
(* Some backend always opens, and only composite draws a screen of its own. *)
LEMMA Opens ==
  ASSUME TypeOK
  PROVE  /\ Backend \in {"hstx", "pio", "vga", "tv"}
         /\ ScansFrontBuffer <=> Backend # "tv"
         /\ rig.pointer \in BOOLEAN
<1>1. rig \in [mode : STRING, base : Nat, pointer : BOOLEAN] BY DisplayAssumption DEF TypeOK
<1> DEFINE able == {i \in DOMAIN Backends : Agrees(Backends[i][1], rig.base)}
           fit  == {i \in able : Backends[i][2] = rig.mode}
           pool == IF fit = {} THEN able ELSE fit
           pick == CHOOSE i \in pool : \A j \in pool : i <= j
<1>2. DOMAIN Backends = 1..4 BY DEF Backends
<1>3. 3 \in able BY <1>1, <1>2 DEF Agrees, Backends
<1>4. pool # {} /\ pool \subseteq 1..4 BY <1>2, <1>3
<1>5. \E i \in pool : \A j \in pool : i <= j
  <2>1. CASE 1 \in pool BY <2>1, <1>4
  <2>2. CASE 1 \notin pool /\ 2 \in pool BY <2>2, <1>4
  <2>3. CASE 1 \notin pool /\ 2 \notin pool /\ 3 \in pool BY <2>3, <1>4
  <2>4. CASE 1 \notin pool /\ 2 \notin pool /\ 3 \notin pool BY <2>4, <1>4
  <2> QED BY <2>1, <2>2, <2>3, <2>4
<1>6. pick \in 1..4 BY <1>4, <1>5
<1>7. Opened(rig.mode, rig.base) = Backends[pick] BY DEF Opened
<1> DEFINE it == Opened(rig.mode, rig.base)
<1>8. \/ it[1] = "hstx" /\ it[2] = "hdmi"
      \/ it[1] = "pio" /\ it[2] = "hdmi"
      \/ it[1] = "vga" /\ it[2] = "vga"
      \/ it[1] = "tv" /\ it[2] = "composite"
  <2>1. pick = 1 \/ pick = 2 \/ pick = 3 \/ pick = 4 BY <1>6
  <2> HIDE DEF pick
  <2> QED BY SMTT(30), <2>1, <1>7 DEF Backends
<1> HIDE DEF it
<1>9. Backend = it[1] /\ (ScansFrontBuffer <=> it[2] # "composite")
  BY DEF Backend, ScansFrontBuffer, it
<1> QED BY <1>1, <1>8, <1>9

(* The bench does not change, nor what is open on it.                      *)
LEMMA SameBench ==
  ASSUME rig' = rig
  PROVE  /\ Backend' = Backend /\ Scanned' = Scanned /\ ScansFrontBuffer' = ScansFrontBuffer
         /\ SwapLine' = SwapLine
BY DEF Backend, Scanned, ScansFrontBuffer, SwapLine

Buffers == [0..1 -> [Rows -> Cells]]

(* Drawing the pointer changes no buffer but the one it is given.          *)
LEMMA MoveTypes ==
  ASSUME TypeOK, NEW f \in Buffers, NEW b \in 0..1, NEW arrow \in BOOLEAN, NEW y \in Rows,
         Move(f, b, arrow, y)
  PROVE  fb' \in Buffers /\ patch' \in Cells /\ px' \in Rows /\ active' \in BOOLEAN
<1>1. px \in Rows /\ patch \in Cells BY DEF TypeOK
<1>2. CASE ~ScansFrontBuffer \/ (arrow /\ y = px) BY <1>1, <1>2 DEF Move
<1>3. CASE ~(~ScansFrontBuffer \/ (arrow /\ y = px))
  <2>1. Restored(f, b, arrow) \in Buffers BY <1>1 DEF Restored, Buffers
  <2> DEFINE old == Restored(f, b, arrow)
  <2>2. /\ patch' = old[b][y] /\ fb' = [old EXCEPT ![b][y] = Cell(@.paint, TRUE)]
        /\ px' = y /\ active' = TRUE
    BY <1>3 DEF Move
  <2> HIDE DEF old
  <2>3. old \in Buffers BY <2>1 DEF old
  <2> QED BY <2>2, <2>3 DEF Buffers, Cells, Cell
<1> QED BY <1>2, <1>3

(* The same of what follows a present.                                     *)
LEMMA AfterPresentTypes ==
  ASSUME TypeOK, NEW f \in Buffers, NEW b \in 0..1, AfterPresent(f, b)
  PROVE  fb' \in Buffers /\ patch' \in Cells /\ px' \in Rows /\ active' \in BOOLEAN
<1>1. px \in Rows /\ patch \in Cells /\ ptr \in Rows /\ active \in BOOLEAN BY DEF TypeOK
<1>2. CASE ForgetsAfter(dlg) /\ rig.pointer
  <2>1. Move(f, b, FALSE, ptr) BY <1>2 DEF AfterPresent
  <2> QED BY <1>1, <2>1, MoveTypes
<1> QED BY <1>1, <1>2 DEF AfterPresent, overlay

(* Nothing being sent is a state of the scan-out.                          *)
LEMMA NothingSent == Nothing \in [row : 0..2, was : Cells]
<1>1. FALSE \in BOOLEAN /\ 0 \in Paints BY DisplayAssumption DEF Paints, HalfDrawn
<1>2. PICK c \in Cells : c = Cell(0, FALSE) BY <1>1 DEF Cell, Cells
<1>3. Nothing = [row |-> 0, was |-> c] BY <1>2 DEF Nothing
<1> QED BY <1>3

(* What a composition leaves behind.                                       *)
LEMMA ComposeTypes ==
  ASSUME TypeOK, NEW these \in SUBSET Rows, Compose(these)
  PROVE  fb' \in Buffers /\ clip' \subseteq Rows /\ pc' = "cleared"
<1>1. Half \in Cells BY DisplayAssumption DEF Half, Cell, Cells, Paints, HalfDrawn
<1> QED BY <1>1 DEF Compose, TypeOK, Buffers

(* What a change of the overlay leaves is typed.                             *)
LEMMA ChangedTypes ==
  ASSUME TypeOK, NEW these \in SUBSET Rows, Changed(these), these = {} \/ ver < MaxChanges
  PROVE  /\ want' \in [Rows -> 0..MaxChanges] /\ ver' \in 0..MaxChanges
         /\ ver' \in {ver, ver + 1}
BY DisplayAssumption DEF TypeOK, Changed

(* Every step of the system keeps the types and the places.                *)
LEMMA StepTypes ==
  ASSUME TypeOK, Places, Next
  PROVE  TypeOK' /\ Places'
<1> USE DEF program, overlay, present, core1, health
<1>0. MaxChanges \in Nat /\ MaxStalls \in Nat /\ "none" \notin Dialogs
      /\ NoBuffer = 2 /\ front \in 0..1 /\ Paints = 0..(MaxChanges + 1)
      /\ fb \in Buffers /\ Rows = {1, 2}
  BY DisplayAssumption DEF NoBuffer, front, TypeOK, Paints, HalfDrawn, Buffers, Rows
<1>c. \A p \in 0..MaxChanges, a \in BOOLEAN : Cell(p, a) \in Cells
  BY <1>0 DEF Cell, Cells
<1>f. TRUE \in BOOLEAN /\ FALSE \in BOOLEAN OBVIOUS
<1>h. Half \in Cells BY <1>0 DEF Half, Cell, Cells, HalfDrawn
<1>b. rig' = rig => Scanned' = Scanned BY SameBench
<1>1. CASE Pass
  <2>1. PICK clicked \in BOOLEAN, key \in {None, "menu", "other"} :
          /\ ver < MaxChanges \/ (~clicked /\ key = None)
          /\ Changed(IF clicked \/ key = "other" THEN Rows ELSE IF key = "menu" THEN {1} ELSE {})
          /\ Redraw(key = "menu")
    BY <1>1, Opens DEF Pass
  <2>p. ptr' \in Rows BY <1>1, <1>0 DEF Pass, TypeOK
  <2>2. fb' \in Buffers /\ clip' \subseteq Rows /\ pc' = "cleared"
    BY <2>1, <1>0, ComposeTypes DEF Redraw
  <2>3. want' \in [Rows -> 0..MaxChanges] /\ ver' \in 0..MaxChanges
    BY <2>1, <1>0, ChangedTypes DEF None
  <2>4. TypeOK' BY <1>1, <2>p, <2>2, <2>3 DEF Pass, TypeOK, Buffers
  <2>5. Places' BY <1>1, <2>2, <1>b DEF Pass, Places, None
  <2> QED BY <2>4, <2>5
<1>2. CASE OpenDialog
  BY <1>2, <1>0, <1>b DEF OpenDialog, TypeOK, Places, None
<1>3. CASE DrawDialog
  <2>1. ver + 1 < MaxChanges /\ dlg # None BY <1>3 DEF DrawDialog, Places
  <2>2. fb' \in Buffers /\ clip' \subseteq Rows /\ pc' = "cleared"
    BY <1>3, ComposeTypes DEF DrawDialog
  <2>3. want' \in [Rows -> 0..MaxChanges] /\ ver' = ver + 1
    BY <1>3, <1>0, <2>1, ChangedTypes DEF DrawDialog, Changed, TypeOK
  <2>4. ver' \in 0..MaxChanges /\ ver' < MaxChanges BY <2>1, <2>3, <1>0 DEF TypeOK
  <2> QED BY <1>3, <2>2, <2>3, <2>4, <1>b DEF DrawDialog, TypeOK, Places, Buffers
<1>4. CASE MovePointer
  <2>1. 3 - ptr \in Rows /\ active \in BOOLEAN BY <1>0 DEF TypeOK
  <2>2. fb' \in Buffers /\ patch' \in Cells /\ px' \in Rows /\ active' \in BOOLEAN
    <3>1. CASE UsesOverlay(dlg) BY <3>1, <1>4, <1>0, <2>1, MoveTypes DEF MovePointer
    <3>2. CASE ~UsesOverlay(dlg) BY <3>2, <1>4, <1>0 DEF MovePointer, TypeOK
    <3> QED BY <3>1, <3>2
  <2> QED BY <1>4, <2>1, <2>2, <1>b DEF MovePointer, TypeOK, Places, Buffers
<1>5. CASE CloseDialog
  <2>1. PICK menuOnly \in BOOLEAN : Redraw(menuOnly)
    BY <1>5, Opens DEF CloseDialog
  <2>2. fb' \in Buffers /\ clip' \subseteq Rows /\ pc' = "cleared"
    BY <2>1, <1>0, ComposeTypes DEF Redraw
  <2>3. want' \in [Rows -> 0..MaxChanges] /\ ver' \in 0..MaxChanges
    BY <1>5, <1>0, ChangedTypes DEF CloseDialog, Places
  <2> QED BY <1>5, <2>2, <2>3, <1>b DEF CloseDialog, TypeOK, Places, Buffers, None
<1>6. CASE Paint
  <2>1. \A r \in Rows : Cell(want[r], dlg = None /\ rig.pointer /\ ptr = r) \in Cells
    BY <1>0, Opens DEF TypeOK, Cell, Cells
  <2>2. fb' \in Buffers BY <2>1, <1>6, <1>0 DEF Paint, TypeOK, Buffers
  <2> QED BY <1>6, <2>2, <1>b DEF Paint, TypeOK, Places, Buffers
<1>7. CASE Arm
  <2>1. clean' \in BOOLEAN /\ stood' \in BOOLEAN /\ swapDone' \in BOOLEAN /\ late' \in BOOLEAN
    BY <1>7 DEF Arm, TypeOK
  <2>2. TypeOK' BY <1>7, <2>1 DEF Arm, TypeOK
  <2>3. Places' BY <1>7, <1>b DEF Arm, Places
  <2> QED BY <2>2, <2>3
<1>8. CASE Post
  <2>1. TypeOK' BY <1>8, <1>0 DEF Post, TypeOK
  <2>2. Places' BY <1>8, <1>b DEF Post, Places
  <2> QED BY <2>1, <2>2
<1>p. ASSUME Publish, pc = "wait", late' \in BOOLEAN PROVE TypeOK' /\ Places'
  <2>1. [fb EXCEPT ![front] = fb[back]] \in Buffers /\ back \in 0..1
    BY <1>0 DEF TypeOK, Buffers
  <2>2. fb' \in Buffers /\ patch' \in Cells /\ px' \in Rows /\ active' \in BOOLEAN
    BY <1>p, <2>1, AfterPresentTypes DEF Publish
  <2>b. stood' \in BOOLEAN /\ clean' \in BOOLEAN BY <1>p DEF Publish
  <2>3. TypeOK' BY <1>p, <1>0, <2>2, <2>b DEF Publish, TypeOK, Buffers
  <2>4. Places' BY <1>p, <1>b DEF Publish, Places
  <2> QED BY <2>3, <2>4
<1>9. CASE Taken BY <1>9, <1>p DEF Taken, TypeOK
<1>10. CASE GiveUp BY <1>10, <1>p DEF GiveUp
<1>11. CASE ClearPage
  <2>1. Target \in Rows BY <1>0 DEF Target, TypeOK
  <2>2. fb' \in Buffers BY <1>11, <1>0, <1>h, <2>1 DEF ClearPage, Buffers
  <2> QED BY <1>11, <2>2, <1>b DEF ClearPage, TypeOK, Places, Buffers
<1>12. CASE TurnPage
  <2>t. Target \in Rows BY <1>0 DEF Target, TypeOK
  <2>c. Cell(ver, FALSE) \in Cells BY <1>f, <1>c DEF TypeOK
  <2>1. Target \in Rows /\ Cell(ver, FALSE) \in Cells BY <2>t, <2>c
  <2>2. [fb EXCEPT ![0][Target] = Cell(ver, FALSE)] \in Buffers BY <2>1, <1>0 DEF Buffers
  <2>3. fb' \in Buffers /\ patch' \in Cells /\ px' \in Rows /\ active' \in BOOLEAN
    BY <1>12, <2>2, <1>0, AfterPresentTypes DEF TurnPage
  <2>4. TypeOK' BY <1>12, <2>1, <2>3 DEF TurnPage, TypeOK, Buffers
  <2>5. Places' BY <1>12, <1>b DEF TurnPage, Places
  <2> QED BY <2>4, <2>5
<1>13. CASE Irq
  <2>1. fbBits' \in 0..1 BY <1>13, <1>0 DEF Irq, TypeOK
  <2>2. taken' \in [Rows -> Paints]
    <3>1. \A r \in Rows : fb[fbBits'][r].paint \in Paints BY <2>1, <1>0 DEF Buffers, Cells
    <3> QED BY <3>1, <1>13 DEF Irq, TypeOK
  <2>3. scan' \in Lines /\ posted' \in BOOLEAN /\ waited' \in 0..2 /\ taking' \in BOOLEAN
    <3>1. scan' \in Lines BY <1>13 DEF Irq, TypeOK, Lines, Next1
    <3>p. posted' \in BOOLEAN BY <1>13, <1>f DEF Irq
    <3>2. waited' \in 0..2 BY <1>13 DEF Irq, TypeOK
    <3>3. taking' \in BOOLEAN BY <1>13 DEF Irq, TypeOK
    <3> QED BY <3>1, <3>2, <3>3, <3>p
  <2>4. line' \in Cells
    <3>1. Active(scan) => scan - 2 \in Rows BY <1>0 DEF TypeOK, Active, Lines
    <3> QED BY <1>13, <3>1, <1>0 DEF Irq, TypeOK, Buffers
  <2>5. sending' \in [row : 0..2, was : Cells]
    <3>1. StartsRow \in 0..2 BY <1>0 DEF TypeOK, StartsRow, Active, Before, Lines
    <3> QED BY <1>13, <3>1, NothingSent DEF Irq, TypeOK
  <2>6. TypeOK' BY <1>13, <2>1, <2>2, <2>3, <2>4, <2>5 DEF Irq, TypeOK
  <2>7. Places' BY <1>13, <1>b DEF Irq, Places
  <2> QED BY <2>6, <2>7
<1>14. CASE EndTaking
  <2>b. taking' \in BOOLEAN /\ swapDone' \in BOOLEAN BY <1>14, <1>f DEF EndTaking
  <2>1. TypeOK' BY <1>14, <1>0, <2>b DEF EndTaking, TypeOK
  <2>2. Places' BY <1>14, <1>b DEF EndTaking, Places
  <2> QED BY <2>1, <2>2
<1>15. CASE PioLine
  <2>1. line' \in Cells /\ sending' \in [row : 0..2, was : Cells]
    BY <1>15, <1>0 DEF PioLine, TypeOK, Buffers
  <2> QED BY <1>15, <2>1, <1>b DEF PioLine, TypeOK, Places
<1>16. CASE Stall
  <2>b. alive' \in BOOLEAN /\ stood' \in BOOLEAN BY <1>16, <1>f DEF Stall, TypeOK
  <2>1. TypeOK' BY <1>16, <1>0, <2>b DEF Stall, TypeOK
  <2>2. Places' BY <1>16, <1>b DEF Stall, Places
  <2> QED BY <2>1, <2>2
<1>17. CASE Resume
  <2>1. TypeOK' BY <1>17, <1>0 DEF Resume, TypeOK
  <2>2. Places' BY <1>17, <1>b DEF Resume, Places
  <2> QED BY <2>1, <2>2
<1> QED
  BY <1>1, <1>2, <1>3, <1>4, <1>5, <1>6, <1>7, <1>8, <1>9, <1>10, <1>11, <1>12, <1>13, <1>14,
     <1>15, <1>16, <1>17 DEF Next

(* Every reachable state is well typed and core 0 is where it can be.      *)
THEOREM TypeCorrect == Spec => [](TypeOK /\ Places)
<1>1. Init => TypeOK /\ Places
  <2> SUFFICES ASSUME Init PROVE TypeOK /\ Places OBVIOUS
  <2>f. TRUE \in BOOLEAN /\ FALSE \in BOOLEAN OBVIOUS
  <2>1. Cell(0, FALSE) \in Cells /\ 0 \in 0..MaxChanges /\ 0 \in Paints /\ 0 \in 0..MaxStalls
    BY DisplayAssumption, <2>f DEF Cell, Cells, Paints, HalfDrawn
  <2>3. Blank \in [Rows -> Cells] BY <2>1 DEF Blank
  <2>4. /\ active \in BOOLEAN /\ swapDone \in BOOLEAN /\ taking \in BOOLEAN /\ stood \in BOOLEAN
        /\ clean \in BOOLEAN /\ late \in BOOLEAN /\ posted \in BOOLEAN /\ alive \in BOOLEAN
    BY <2>f DEF Init
  <2>6. fb \in [0..1 -> [Rows -> Cells]] /\ patch \in Cells /\ line \in Cells
        /\ taken \in [Rows -> Paints] /\ want \in [Rows -> 0..MaxChanges]
    BY <2>1, <2>3 DEF Init
  <2>8. /\ rig \in Rigs /\ ptr \in Rows /\ px \in Rows /\ page \in Rows
        /\ dlg \in Dialogs \cup {None} /\ clip \subseteq Rows
        /\ pc = "cleared" /\ back \in 0..1 /\ fbBits \in 0..1 /\ fbPending \in 0..NoBuffer
    BY DEF Init, Rows, NoBuffer
  <2>9. waited \in 0..2 /\ scan \in Lines /\ ver \in 0..MaxChanges /\ stalls \in 0..MaxStalls
        /\ sending \in [row : 0..2, was : Cells]
    BY <2>1, NothingSent DEF Init, Lines
  <2>7. TypeOK BY <2>4, <2>6, <2>8, <2>9 DEF TypeOK
  <2>5. Places BY DEF Init, Places
  <2> QED BY <2>7, <2>5
<1>2. TypeOK /\ Places /\ [Next]_vars => (TypeOK /\ Places)'
  <2>1. CASE Next BY <2>1, StepTypes
  <2>2. CASE UNCHANGED vars
    <3>1. ASSUME TypeOK PROVE TypeOK'
      BY <2>2, <3>1 DEF vars, program, overlay, present, core1, health, TypeOK
    <3>2. ASSUME Places PROVE Places'
      BY <2>2, <3>2, SameBench DEF vars, program, Places
    <3> QED BY <3>1, <3>2
  <2> QED BY <2>1, <2>2
<1> QED BY <1>1, <1>2, PTL DEF Spec

(***************************************************************************)
(* Presents                                                                *)
(***************************************************************************)
(* Every step keeps the four states of a present.                          *)
LEMMA StepHandshake ==
  ASSUME TypeOK, Places, Handshake, Next
  PROVE  Handshake'
<1> USE DEF program, overlay, present, core1, health, Handshake
<1>0. NoBuffer = 2 /\ back \in 0..1 BY DEF NoBuffer, TypeOK
<1>a. pc' \notin {"post", "wait"} => Handshake' OBVIOUS
<1>1. CASE Pass BY <1>1, <1>a DEF Pass, Redraw, Compose
<1>2. CASE OpenDialog BY <1>2, <1>a DEF OpenDialog
<1>3. CASE DrawDialog BY <1>3, <1>a DEF DrawDialog, Compose
<1>4. CASE MovePointer BY <1>4, <1>a DEF MovePointer
<1>5. CASE CloseDialog BY <1>5, <1>a DEF CloseDialog, Redraw, Compose
<1>6. CASE Paint BY <1>6, <1>a DEF Paint
<1>7. CASE Arm BY <1>7 DEF Arm
<1>8. CASE Post BY <1>8, <1>0 DEF Post, Waiting
<1>9. CASE Taken BY <1>9, <1>a DEF Taken, Publish
<1>10. CASE GiveUp BY <1>10, <1>a DEF GiveUp, Publish
<1>11. CASE ClearPage BY <1>11, <1>a DEF ClearPage
<1>12. CASE TurnPage BY <1>12, <1>a DEF TurnPage
<1>13. CASE Irq
  <2> USE <1>0, <1>13
  <2>1. /\ ~taking
        /\ UNCHANGED <<pc, back, fbPending, swapDone, clean>>
        /\ \/ UNCHANGED <<waited, taking, fbBits>>
           \/ /\ taking' = (fbPending # NoBuffer)
              /\ fbBits' = IF fbPending # NoBuffer THEN fbPending ELSE fbBits
              /\ waited' = IF pc = "wait" /\ waited < 2 THEN waited + 1 ELSE waited
    BY DEF Irq
  <2>2. CASE UNCHANGED <<waited, taking, fbBits>> BY <2>1, <2>2 DEF Waiting, Halfway, Gone
  <2>3. CASE /\ taking' = (fbPending # NoBuffer)
             /\ fbBits' = IF fbPending # NoBuffer THEN fbPending ELSE fbBits
             /\ waited' = IF pc = "wait" /\ waited < 2 THEN waited + 1 ELSE waited
    <3>1. pc = "post" => waited' = 0 BY <2>3
    <3>2. pc = "post" /\ clean => fbPending = NoBuffer /\ ~taking' /\ ~swapDone BY <2>3
    <3>3. pc = "wait" /\ clean => Waiting \/ Gone BY <2>1 DEF Halfway
    <3>t. fbPending # NoBuffer => taking' /\ fbBits' = fbPending BY <2>3
    <3>4. Waiting => Halfway' BY <3>t, <2>1, <2>3 DEF Waiting, Halfway
    <3>5. Gone => Gone' BY <2>1, <2>3 DEF Gone
    <3>6. pc = "wait" /\ ~swapDone => taking' /\ waited' < 2 BY <2>1, <2>3, <3>t
    <3> QED BY <2>1, <3>1, <3>2, <3>3, <3>4, <3>5, <3>6
  <2> QED BY <2>1, <2>2, <2>3
<1>14. CASE EndTaking BY <1>14, <1>0 DEF EndTaking, Waiting, Halfway, Gone
<1>15. CASE PioLine BY <1>15 DEF PioLine, Waiting, Halfway, Gone
<1>16. CASE Stall BY <1>16 DEF Stall, Waiting, Halfway, Gone
<1>17. CASE Resume BY <1>17 DEF Resume, Waiting, Halfway, Gone
<1> QED
  BY <1>1, <1>2, <1>3, <1>4, <1>5, <1>6, <1>7, <1>8, <1>9, <1>10, <1>11, <1>12, <1>13, <1>14,
     <1>15, <1>16, <1>17 DEF Next

PresentInv == TypeOK /\ Places /\ Handshake

(* A present goes through its four states in every behaviour.              *)
LEMMA PresentsInvariant == Spec => []PresentInv
<1>1. Init => Handshake BY DEF Init, Handshake
<1>2. TypeOK /\ Places /\ Handshake /\ [Next]_vars => Handshake'
  <2>1. CASE Next BY <2>1, StepHandshake
  <2>2. ASSUME Handshake, UNCHANGED vars PROVE Handshake'
    BY <2>2 DEF vars, program, overlay, present, core1, health, Handshake, Waiting, Halfway, Gone
  <2> QED BY <2>1, <2>2
<1> QED BY TypeCorrect, <1>1, <1>2, PTL DEF Spec, PresentInv

(* A present that nothing was pending before, and that is not given up,    *)
(* ends with the scan-out on its picture, and it is given up only if       *)
(* core 1 stood still (ui_video_hstx.c:72-90, ui_video_vga.c): on every    *)
(* bench, with every dialog and any number of stops of core 1.             *)
THEOREM PresentsTaken == Spec => PresentsAreTaken
<1>1. PresentInv /\ [Next]_vars =>
        [pc = "wait" /\ pc' = "idle" => (swapDone /\ clean => fbBits = back) /\ (swapDone \/ stood)]_vars
  <2> SUFFICES ASSUME PresentInv, Next, pc = "wait", pc' = "idle"
               PROVE  (swapDone /\ clean => fbBits = back) /\ (swapDone \/ stood)
    OBVIOUS
  <2>1. Handshake BY DEF PresentInv
  <2>2. swapDone /\ clean => fbBits = back BY <2>1 DEF Handshake, Waiting, Halfway, Gone
  <2>3. swapDone \/ stood
    <3>1. Taken \/ GiveUp
      BY DEF Next, Pass, OpenDialog, DrawDialog, Compose, MovePointer, CloseDialog, Paint, Arm, Post,
             ClearPage, TurnPage, Irq, EndTaking, PioLine, Stall, Resume, Redraw
    <3>2. CASE Taken BY <3>2 DEF Taken
    <3>3. CASE GiveUp BY <3>3, <2>1 DEF GiveUp, Expired, Handshake
    <3> QED BY <3>1, <3>2, <3>3
  <2> QED BY <2>2, <2>3
<1> QED BY PresentsInvariant, <1>1, PTL DEF Spec, PresentsAreTaken

(***************************************************************************)
(* The picture on the cable                                                *)
(***************************************************************************)
(* Every step keeps the scan-out on the front buffer while nothing is late. *)
LEMMA StepOnTime ==
  ASSUME TypeOK, Places, Handshake, OnTime, Next
  PROVE  OnTime'
<1> USE DEF program, overlay, present, core1, health, front
<1>0. NoBuffer = 2 /\ back \in 0..1 BY DEF NoBuffer, TypeOK
<1>s. ASSUME UNCHANGED <<back, fbBits, fbPending, taking, late>>,
             pc \notin {"post", "wait"}, pc' \notin {"post", "wait"}
      PROVE  OnTime'
  BY <1>s DEF OnTime
<1>1. CASE Pass BY <1>1, <1>s DEF Pass, Redraw, Compose
<1>2. CASE OpenDialog BY <1>2, <1>s DEF OpenDialog
<1>3. CASE DrawDialog BY <1>3, <1>s DEF DrawDialog, Compose
<1>4. CASE MovePointer BY <1>4, <1>s DEF MovePointer
<1>5. CASE CloseDialog BY <1>5, <1>s DEF CloseDialog, Redraw, Compose
<1>6. CASE Paint BY <1>6, <1>s DEF Paint
<1>7. CASE Arm BY <1>7 DEF Arm, OnTime
<1>8. CASE Post BY <1>8 DEF Post, OnTime
<1>9. CASE Taken
  <2> SUFFICES ASSUME ~late' PROVE OnTime' BY DEF OnTime
  <2>1. clean BY <1>9 DEF Taken, OnTime
  <2>2. Gone BY <1>9, <2>1 DEF Taken, Handshake, Waiting, Halfway
  <2>3. pc' = "idle" /\ back' = 1 - back /\ UNCHANGED <<fbBits, fbPending, taking>>
    BY <1>9 DEF Taken, Publish
  <2>4. fbBits' = 1 - back' /\ fbPending' = NoBuffer /\ ~taking' BY <2>2, <2>3, <1>0 DEF Gone
  <2> QED BY <2>3, <2>4 DEF OnTime
<1>10. CASE GiveUp BY <1>10 DEF GiveUp, OnTime
<1>11. CASE ClearPage BY <1>11, <1>s DEF ClearPage
<1>12. CASE TurnPage BY <1>12, <1>s DEF TurnPage
<1>13. CASE Irq
  <2> SUFFICES ASSUME ~late' PROVE OnTime' BY DEF OnTime
  <2>1. ~late /\ ~taking /\ UNCHANGED <<pc, back, fbPending, swapDone, clean>> BY <1>13 DEF Irq
  <2>2. fbPending = NoBuffer => fbBits' = fbBits /\ ~taking' BY <1>13 DEF Irq
  <2>3. CASE pc # "wait"
    <3>1. fbPending = NoBuffer BY <2>1, <2>3 DEF OnTime, Handshake
    <3> QED BY <2>1, <2>2, <2>3, <3>1 DEF OnTime
  <2>4. CASE pc = "wait"
    <3>1. Waiting \/ Gone BY <2>1, <2>4 DEF OnTime, Handshake, Halfway
    <3>2. ~taking' => UNCHANGED fbBits BY <1>13, <2>2 DEF Irq
    <3> QED BY <2>1, <2>2, <2>4, <3>1, <3>2 DEF OnTime
  <2> QED BY <2>3, <2>4
<1>14. CASE EndTaking BY <1>14 DEF EndTaking, OnTime, Handshake
<1>15. CASE PioLine BY <1>15 DEF PioLine, OnTime
<1>16. CASE Stall BY <1>16 DEF Stall, OnTime
<1>17. CASE Resume BY <1>17 DEF Resume, OnTime
<1> QED
  BY <1>1, <1>2, <1>3, <1>4, <1>5, <1>6, <1>7, <1>8, <1>9, <1>10, <1>11, <1>12, <1>13, <1>14,
     <1>15, <1>16, <1>17 DEF Next

(* The overlay holds the paint of the row its pointer is in, or nothing;   *)
(* and the pointer is there already.                                       *)
Holds(f, b, arrow) == arrow => patch.paint = f[b][px].paint
Stays(arrow, y) == arrow /\ y = px

(* Drawing the pointer mixes no paints but those of the row it leaves.     *)
LEMMA MovePaints ==
  ASSUME TypeOK, NEW f \in Buffers, NEW b \in 0..1, NEW arrow \in BOOLEAN, NEW y \in Rows,
         Move(f, b, arrow, y)
  PROVE  /\ \A c \in 0..1, r \in Rows :
              /\ fb'[c][r].paint \in {f[c][r].paint, patch.paint}
              /\ c # b => fb'[c][r] = f[c][r]
              /\ Holds(f, b, arrow) => fb'[c][r].paint = f[c][r].paint
         /\ patch'.paint \in {patch.paint, f[b][y].paint}
         /\ ScansFrontBuffer /\ ~Stays(arrow, y) =>
              px' = y /\ active' = TRUE /\ patch'.paint = f[b][y].paint
<1>1. px \in Rows /\ patch \in Cells BY DEF TypeOK
<1>2. CASE ~ScansFrontBuffer \/ (arrow /\ y = px) BY <1>1, <1>2 DEF Move, Buffers, Stays
<1>3. CASE ~(~ScansFrontBuffer \/ (arrow /\ y = px))
  <2> DEFINE old == Restored(f, b, arrow)
  <2>1. /\ patch' = old[b][y] /\ fb' = [old EXCEPT ![b][y] = Cell(@.paint, TRUE)]
        /\ px' = y /\ active' = TRUE
    BY <1>3 DEF Move
  <2>2. old \in Buffers BY <1>1 DEF Restored, Buffers
  <2>3. \A c \in 0..1, r \in Rows :
          old[c][r] = IF arrow /\ c = b /\ r = px THEN patch ELSE f[c][r]
    BY <1>1 DEF Restored, Buffers
  <2> HIDE DEF old
  <2>4. \A c \in 0..1, r \in Rows :
          fb'[c][r] = IF c = b /\ r = y THEN Cell(old[b][y].paint, TRUE) ELSE old[c][r]
    BY <2>1, <2>2 DEF Buffers
  <2>5. \A c \in 0..1, r \in Rows : fb'[c][r].paint = old[c][r].paint BY <2>4 DEF Cell
  <2>6. ASSUME NEW c \in 0..1, NEW r \in Rows
        PROVE  /\ fb'[c][r].paint \in {f[c][r].paint, patch.paint}
               /\ c # b => fb'[c][r] = f[c][r]
    <3>1. old[c][r] = patch \/ old[c][r] = f[c][r] BY <2>3
    <3>2. fb'[c][r].paint = old[c][r].paint BY <2>5
    <3>3. fb'[c][r].paint \in {f[c][r].paint, patch.paint} BY <3>1, <3>2
    <3>4. c # b => fb'[c][r] = f[c][r] BY <2>3, <2>4
    <3> QED BY <3>3, <3>4
  <2>7. ASSUME Holds(f, b, arrow), NEW c \in 0..1, NEW r \in Rows
        PROVE  fb'[c][r].paint = f[c][r].paint
    BY <2>3, <2>5, <2>7 DEF Holds
  <2>8. patch'.paint \in {patch.paint, f[b][y].paint} BY <2>1, <2>3
  <2>9. ~Stays(arrow, y) => patch'.paint = f[b][y].paint BY <2>1, <2>3 DEF Stays
  <2> QED BY <2>1, <2>6, <2>7, <2>8, <2>9
<1> QED BY <1>2, <1>3

(* The same of the overlay as it is.                                       *)
LEMMA OverlayPaints ==
  ASSUME TypeOK, NEW f \in Buffers, NEW b \in 0..1, NEW y \in Rows, Move(f, b, active, y)
  PROVE  /\ \A c \in 0..1, r \in Rows :
              /\ fb'[c][r].paint \in {f[c][r].paint, patch.paint}
              /\ (active => patch.paint = f[b][px].paint) => fb'[c][r].paint = f[c][r].paint
         /\ patch'.paint \in {patch.paint, f[b][y].paint}
         /\ ScansFrontBuffer /\ ~(active /\ y = px) =>
              px' = y /\ patch'.paint = f[b][y].paint
<1>1. active \in BOOLEAN BY DEF TypeOK
<1>2. CASE active = TRUE
  <2>1. Move(f, b, TRUE, y) BY <1>2
  <2>2. \A c \in 0..1, r \in Rows :
          /\ fb'[c][r].paint \in {f[c][r].paint, patch.paint}
          /\ Holds(f, b, TRUE) => fb'[c][r].paint = f[c][r].paint
    BY ZenonT(40), <2>1, MovePaints
  <2>3. /\ patch'.paint \in {patch.paint, f[b][y].paint}
        /\ ScansFrontBuffer /\ ~Stays(TRUE, y) => px' = y /\ patch'.paint = f[b][y].paint
    BY <2>1, MovePaints
  <2> QED BY <2>2, <2>3, <1>2 DEF Holds, Stays
<1>3. CASE active = FALSE
  <2>1. Move(f, b, FALSE, y) BY <1>3
  <2>2. \A c \in 0..1, r \in Rows :
          /\ fb'[c][r].paint \in {f[c][r].paint, patch.paint}
          /\ Holds(f, b, FALSE) => fb'[c][r].paint = f[c][r].paint
    BY <2>1, MovePaints
  <2>3. /\ patch'.paint \in {patch.paint, f[b][y].paint}
        /\ ScansFrontBuffer /\ ~Stays(FALSE, y) => px' = y /\ patch'.paint = f[b][y].paint
    BY <2>1, MovePaints
  <2> QED BY <2>2, <2>3, <1>3 DEF Holds, Stays
<1> QED BY <1>1, <1>2, <1>3

(* Shown is kept by whatever leaves the buffer that is shown alone.        *)
LEMMA ShownKept ==
  ASSUME Shown, rig' = rig, Steady' => Steady,
         UNCHANGED <<scan, posted, line, sending, taken>>,
         Steady => \A r \in Rows : fb'[fbBits'][r].paint = fb[fbBits][r].paint
  PROVE  Shown'
<1> SUFFICES ASSUME Steady' PROVE Shown' BY DEF Shown
<1>1. Steady /\ \A r \in Rows : fb'[fbBits'][r].paint = fb[fbBits][r].paint OBVIOUS
<1> QED BY <1>1 DEF Shown, Active, Before

(* Composing writes the back buffer while the front one is shown.          *)
LEMMA ComposeShown ==
  ASSUME TypeOK, Shown, OnTime, pc \notin {"post", "wait"}, pc' \notin {"post", "wait"},
         UNCHANGED <<rig, fbBits, late, scan, posted, line, sending, taken>>,
         fb' \in Buffers, fb'[front] = fb[front]
  PROVE  Shown'
<1>1. Steady' => Steady BY SameBench DEF Steady
<1>2. Steady => fbBits = front BY DEF Steady, OnTime
<1> QED BY <1>1, <1>2, ShownKept

(* After a present the picture that is shown has the paints it had.        *)
LEMMA AfterPresentPaints ==
  ASSUME TypeOK, NEW f \in Buffers, NEW b \in 0..1, AfterPresent(f, b)
  PROVE  /\ \A c \in 0..1, r \in Rows : fb'[c][r].paint = f[c][r].paint
         /\ patch'.paint \in {patch.paint, f[b][ptr].paint}
         /\ dlg = "audio" /\ active' /\ ScansFrontBuffer => px' = ptr /\ patch'.paint = f[b][ptr].paint
<1>1. ptr \in Rows BY DEF TypeOK
<1>2. CASE ForgetsAfter(dlg) /\ rig.pointer
  <2>1. Move(f, b, FALSE, ptr) BY <1>2 DEF AfterPresent
  <2> QED BY ZenonT(40), <1>1, <2>1, MovePaints DEF Holds, Stays
<1>3. CASE ForgetsAfter(dlg) /\ ~rig.pointer
  BY <1>3 DEF AfterPresent
<1>4. CASE ~ForgetsAfter(dlg) BY <1>4 DEF AfterPresent, ForgetsAfter, overlay
<1> QED BY <1>2, <1>3, <1>4

(* The scan-out interrupt: where a picture is taken nothing is being sent, *)
(* and a row is copied and sent out of the picture that was taken.         *)
LEMMA IrqShown ==
  ASSUME TypeOK, Shown, Irq
  PROVE  Shown'
<1> SUFFICES ASSUME Steady' PROVE Shown' BY DEF Shown
<1> USE DEF core1, present, Active, Before, Next1
<1>0. rig' = rig /\ fb' = fb /\ scan \in 0..4 /\ fbBits' \in 0..1 /\ posted \in BOOLEAN
      /\ UNCHANGED <<pc, swapDone, late, clean>>
  BY DEF Irq, TypeOK, Lines, NoBuffer
<1>n. Nothing.row = 0 BY DEF Nothing
<1>1. CASE scan = SwapLine
  <2>1. scan \in 1..2 BY <1>1 DEF SwapLine
  <2>2. sending' = Nothing /\ posted' = FALSE /\ scan' = scan + 1
    BY <2>1, <1>0 DEF Irq, StartsRow
  <2>3. \A r \in Rows : fb'[fbBits'][r].paint = taken'[r] BY <1>0, <1>1 DEF Irq
  <2> QED BY <2>1, <2>2, <2>3, <1>n DEF Shown
<1>2. CASE scan # SwapLine
  <2>1. UNCHANGED <<taking, fbBits, taken>> BY <1>2 DEF Irq
  <2>2. Steady BY <1>0, <2>1, SameBench DEF Steady
  <2>3. \A r \in Rows : fb'[fbBits'][r].paint = taken'[r] BY <1>0, <2>1, <2>2 DEF Shown
  <2>4. CASE posted
    <3>1. scan \in 3..4 /\ line.paint = taken[scan - 2] BY <1>0, <2>2, <2>4 DEF Shown
    <3>2. sending' = Nothing /\ posted' = FALSE /\ line' = line /\ scan' = (scan + 1) % 5
      BY <2>4 DEF Irq, StartsRow
    <3>3. line'.paint = taken'[Before(scan') - 2]
      BY <3>1, <3>2, <2>1
    <3> QED BY <3>2, <3>3, <2>3, <1>n DEF Shown
  <2>5. CASE ~posted /\ scan \in 3..4
    <3>1. line' = fb[fbBits][scan - 2] /\ posted' = TRUE /\ scan' = scan
      BY <2>5 DEF Irq
    <3>2. line'.paint = taken'[scan - 2] BY <3>1, <2>1, <2>2, <2>5 DEF Shown, Rows
    <3>3. CASE scan = 3
      <4>1. sending' = Nothing BY <3>3, <2>5 DEF Irq, StartsRow
      <4> QED BY <4>1, <3>1, <3>2, <3>3, <2>3, <1>n DEF Shown
    <3>4. CASE scan = 4
      <4>1. sending' = [row |-> 1, was |-> line] BY <3>4, <2>5 DEF Irq, StartsRow
      <4>2. line.paint = taken[1] BY <3>4, <2>2, <2>5 DEF Shown
      <4>3. line'.paint = taken[2] BY <3>2, <3>4, <2>1
      <4> QED BY <4>1, <4>2, <4>3, <3>1, <3>2, <3>4, <2>1, <2>3 DEF Shown
    <3> QED BY <2>5, <3>3, <3>4
  <2>6. CASE ~posted /\ scan \in 0..2
    <3>1. line' = line /\ posted' = FALSE /\ scan' = scan + 1
      BY <2>6 DEF Irq
    <3>2. CASE scan = 0
      <4>1. sending' = [row |-> 2, was |-> line] BY <3>2, <2>6 DEF Irq, StartsRow
      <4>2. line.paint = taken[2] BY <3>2, <2>2, <2>6 DEF Shown
      <4> QED BY <4>1, <4>2, <3>1, <3>2, <2>1, <2>3 DEF Shown
    <3>3. CASE scan \in 1..2
      <4>1. sending' = Nothing BY <3>3, <2>6 DEF Irq, StartsRow
      <4> QED BY <4>1, <3>1, <3>3, <2>3, <1>n DEF Shown
    <3> QED BY <2>6, <3>2, <3>3
  <2> QED BY <1>0, <2>4, <2>5, <2>6
<1> QED BY <1>1, <1>2

(* Every step keeps the picture and what the overlay and the PIO driver's  *)
(* pages hold, if no dialog moves a pointer it has not forgotten.          *)
LEMMA StepPicture ==
  ASSUME PIInv, Next, "led" \notin Dialogs
  PROVE  Shown' /\ Overlaid' /\ Paged'
<1> USE DEF program, overlay, present, core1, health, front
<1>0. /\ TypeOK /\ Places /\ Handshake /\ OnTime /\ Shown /\ Overlaid /\ Paged
      /\ NoBuffer = 2 /\ back \in 0..1 /\ fb \in Buffers /\ Rows = {1, 2}
  BY DEF PIInv, NoBuffer, TypeOK, Buffers, Rows
<1>e. rig' = rig => /\ Backend' = Backend /\ Scanned' = Scanned
                    /\ ScansFrontBuffer' = ScansFrontBuffer
  BY SameBench
<1>o. Scanned => ScansFrontBuffer BY <1>0, Opens DEF Scanned
<1>p. Backend = "pio" => back = 1 /\ ~Scanned BY <1>0 DEF Places, Scanned
(* Composing.                                                              *)
<1>c. ASSUME pc \in {"idle", "opened", "cleared"}, pc' \in {"cleared", "drawn"},
             UNCHANGED <<rig, page, patch, fbBits, late, scan, posted, line, sending, taken>>,
             \A b \in 0..1 : b # back => fb'[b] = fb[b]
      PROVE  Shown' /\ Overlaid' /\ Paged'
  <2>1. Shown'
    <3>1. Steady' => Steady BY <1>c, <1>e DEF Steady
    <3>2. Steady => fbBits # back BY <1>c, <1>0 DEF Steady, OnTime
    <3>3. fbBits \in 0..1 BY <1>0 DEF TypeOK
    <3> QED BY <1>0, <1>c, <3>1, <3>2, <3>3, ShownKept
  <2>2. Overlaid' BY <1>c DEF Overlaid
  <2>3. Paged' BY <1>0, <1>c, <1>e, <1>p DEF Paged
  <2> QED BY <2>1, <2>2, <2>3
<1>d. \A these : Compose(these) => pc' = "cleared" /\ \A b \in 0..1 : b # back => fb'[b] = fb[b]
  BY <1>0 DEF Compose, Buffers
<1>1. CASE Pass BY <1>1, <1>c, <1>d DEF Pass, Redraw
<1>3. CASE DrawDialog BY <1>3, <1>c, <1>d DEF DrawDialog
<1>5. CASE CloseDialog BY <1>5, <1>c, <1>d DEF CloseDialog, Redraw
<1>6. CASE Paint
  <2>1. \A b \in 0..1 : b # back => fb'[b] = fb[b] BY <1>6, <1>0 DEF Paint, Buffers
  <2> QED BY <1>6, <2>1, <1>c DEF Paint
(* Whatever leaves the buffers, the scan-out and the overlay alone.        *)
<1>q. ASSUME UNCHANGED <<rig, fb, page, patch, fbBits, scan, posted, line, sending, taken>>,
             pc' \notin {"idle", "page"}, pc # "page" \/ pc' = pc,
             Steady' => Steady
      PROVE  Shown' /\ Overlaid' /\ Paged'
  <2>1. Shown' BY <1>0, <1>q, ShownKept
  <2>2. Overlaid' BY <1>q DEF Overlaid
  <2>3. Paged' BY <1>0, <1>q, <1>e DEF Paged
  <2> QED BY <2>1, <2>2, <2>3
<1>2. CASE OpenDialog
  <2>1. Steady' => Steady BY <1>2, <1>e DEF OpenDialog, Steady
  <2> QED BY <1>2, <2>1, <1>q DEF OpenDialog
<1>7. CASE Arm
  <2>1. Steady' => Steady BY <1>7, <1>e DEF Arm, Steady
  <2> QED BY <1>7, <2>1, <1>q DEF Arm
<1>8. CASE Post
  <2>1. Steady' => Steady BY <1>0, <1>8, <1>e DEF Post, Steady, Handshake
  <2> QED BY <1>8, <2>1, <1>q DEF Post
<1>4. CASE MovePointer
  <2>1. 3 - ptr \in Rows /\ active \in BOOLEAN BY <1>0 DEF TypeOK
  <2>2. CASE ~UsesOverlay(dlg)
    <3>1. Steady' => Steady BY <1>4, <1>e DEF MovePointer, Steady
    <3>2. Shown' BY <2>2, <1>0, <1>4, <3>1, ShownKept DEF MovePointer
    <3>3. Overlaid' BY <2>2, <1>4 DEF MovePointer, Overlaid, UsesOverlay
    <3>4. Paged' BY <2>2, <1>0, <1>4, <1>e DEF MovePointer, Paged
    <3> QED BY <3>2, <3>3, <3>4
  <2>3. CASE UsesOverlay(dlg)
    <3>1. Move(fb, front, active, 3 - ptr) BY <1>4, <2>3 DEF MovePointer
    <3>2. dlg = "audio" BY <2>3, <1>0, DisplayAssumption DEF UsesOverlay, TypeOK, None
    <3>3. Scanned /\ active => px = ptr /\ patch.paint = fb[front][px].paint
      BY <1>0, <1>4, <3>2 DEF Overlaid, MovePointer
    <3>4. /\ \A b \in 0..1, r \in Rows :
               /\ fb'[b][r].paint \in {fb[b][r].paint, patch.paint}
               /\ Scanned => fb'[b][r].paint = fb[b][r].paint
          /\ patch'.paint \in {patch.paint, fb[front][3 - ptr].paint}
          /\ Scanned => px' = 3 - ptr /\ patch'.paint = fb[front][3 - ptr].paint
      <4>0. TypeOK /\ fb \in Buffers BY <1>0
      <4>1. front \in 0..1 /\ 3 - ptr # ptr BY <1>0, <2>1
      <4> HIDE DEF front
      <4>2. \A b \in 0..1, r \in Rows :
              /\ fb'[b][r].paint \in {fb[b][r].paint, patch.paint}
              /\ (active => patch.paint = fb[front][px].paint) => fb'[b][r].paint = fb[b][r].paint
        BY <2>1, <3>1, <4>1, <4>0, OverlayPaints
      <4>3. /\ patch'.paint \in {patch.paint, fb[front][3 - ptr].paint}
            /\ ScansFrontBuffer /\ ~(active /\ 3 - ptr = px) =>
                 px' = 3 - ptr /\ patch'.paint = fb[front][3 - ptr].paint
        BY <2>1, <3>1, <4>1, <4>0, OverlayPaints
      <4>4. Scanned => ~(active /\ 3 - ptr = px) BY <3>3, <4>1
      <4> QED BY <3>3, <4>2, <4>3, <4>4, <1>o
    <3>5. Shown'
      <4>1. Steady' => Steady BY <1>4, <1>e DEF MovePointer, Steady
      <4>2. Steady => Scanned /\ fbBits \in 0..1 /\ fbBits' = fbBits
        BY <1>0, <1>4 DEF Steady, TypeOK, MovePointer
      <4> QED BY <1>0, <1>4, <3>4, <4>1, <4>2, ShownKept DEF MovePointer
    <3>6. Overlaid'
      <4>1. front \in 0..1 /\ front' = front /\ ptr' = 3 - ptr /\ Scanned' = Scanned
        BY <1>0, <1>4, <1>e DEF MovePointer
      <4>2. Scanned => fb'[front][3 - ptr].paint = fb[front][3 - ptr].paint
        BY <2>1, <3>4, <4>1
      <4> HIDE DEF front
      <4> QED BY <3>4, <4>1, <4>2 DEF Overlaid
    <3>7. Paged' BY <1>0, <1>4, <3>4, <1>e, <1>p, <2>1 DEF MovePointer, Paged
    <3> QED BY <3>5, <3>6, <3>7
  <2> QED BY <2>2, <2>3
(* After a present.                                                        *)
<1>u. ASSUME pc = "wait", Publish, Steady' => Steady /\ swapDone
      PROVE  Shown' /\ Overlaid' /\ Paged'
  <2> DEFINE f == [fb EXCEPT ![front] = fb[back]]
  <2>1. f \in Buffers /\ \A r \in Rows : f[0][r] = fb[back][r] /\ f[1][r] = fb[back][r]
    BY <1>0 DEF Buffers
  <2>2. AfterPresent(f, back) BY <1>u DEF Publish
  <2>s. Scanned BY <1>u, <1>0 DEF Places
  <2> HIDE DEF f
  <2>3. /\ \A c \in 0..1, r \in Rows : fb'[c][r].paint = f[c][r].paint
        /\ dlg = "audio" /\ active' => px' = ptr /\ patch'.paint = f[back][ptr].paint
    BY <1>0, <1>o, <2>s, <2>1, <2>2, AfterPresentPaints
  <2>4. Shown'
    <3>1. Steady /\ swapDone => fbBits = back
      BY <1>0, <1>u DEF Steady, Handshake, Waiting, Halfway, Gone, OnTime
    <3>2. \A r \in Rows : fb'[back][r].paint = fb[back][r].paint BY <1>0, <2>1, <2>3
    <3> QED BY <1>0, <1>u, <3>1, <3>2 DEF Publish, Shown
  <2>5. Overlaid'
    <3>1. front' = back /\ ptr' = ptr /\ dlg' = dlg BY <1>0, <1>u DEF Publish
    <3>2. fb'[back][ptr].paint = f[back][ptr].paint BY <1>0, <2>3 DEF TypeOK
    <3> HIDE DEF front
    <3> QED BY <2>3, <3>1, <3>2 DEF Overlaid
  <2>6. Paged' BY <2>s, <1>p, <1>e, <1>u DEF Paged, Publish
  <2> QED BY <2>4, <2>5, <2>6
<1>9. CASE Taken
  <2>1. Steady' => Steady /\ swapDone
    BY <1>0, <1>9, <1>e DEF Taken, Publish, Steady, Handshake
  <2> QED BY <1>9, <2>1, <1>u DEF Taken
<1>10. CASE GiveUp
  <2>1. ~Steady' BY <1>10 DEF GiveUp, Publish, Steady
  <2> QED BY <1>10, <2>1, <1>u DEF GiveUp
(* The text pages.                                                         *)
<1>t. ASSUME ~Scanned, rig' = rig PROVE Shown' /\ Overlaid'
  BY <1>t, <1>e DEF Shown, Steady, Overlaid
<1>v. \A n \in 0..MaxChanges : n # HalfDrawn BY DisplayAssumption DEF HalfDrawn
<1>11. CASE ClearPage
  <2>1. Backend = "pio" => Target # page /\ Target \in Rows BY <1>0 DEF Target, TypeOK
  <2>2. \A r \in Rows : r # Target => fb'[0][r] = fb[0][r] BY <1>0, <1>11 DEF ClearPage, Buffers
  <2>3. Paged' BY <1>0, <1>11, <1>e, <2>1, <2>2 DEF ClearPage, Paged
  <2> QED BY <1>11, <1>t, <2>3 DEF ClearPage
<1>12. CASE TurnPage
  <2> DEFINE f == [fb EXCEPT ![0][Target] = Cell(ver, FALSE)]
  <2>1. Target \in Rows BY <1>0 DEF Target, TypeOK
  <2>2. f[0][Target].paint # HalfDrawn BY <1>0, <1>v, <2>1 DEF Buffers, Cell, TypeOK
  <2>3. f \in Buffers
    <3>1. Cell(ver, FALSE) \in Cells
      BY <1>0, DisplayAssumption DEF Cell, Cells, Paints, HalfDrawn, TypeOK
    <3> QED BY <1>0, <2>1, <3>1 DEF Buffers
  <2>4. \A r \in Rows : r # Target => f[0][r] = fb[0][r] BY <1>0, <2>1 DEF Buffers
  <2>5. AfterPresent(f, front) BY <1>12 DEF TurnPage
  <2> HIDE DEF f
  <2>6. /\ \A r \in Rows : fb'[0][r].paint = f[0][r].paint
        /\ patch'.paint \in {patch.paint, f[front][ptr].paint}
    BY <1>0, <2>3, <2>5, AfterPresentPaints
  <2>7. ASSUME Backend = "pio" PROVE Paged'
    <3>1. \A r \in Rows : f[0][r].paint # HalfDrawn
      <4>1. Target = 3 - page /\ page \in Rows BY <1>0, <2>7 DEF Target, TypeOK
      <4>2. f[0][page] = fb[0][page] BY <1>0, <2>4, <4>1
      <4>3. fb[0][page].paint # HalfDrawn BY <1>0, <2>7, <4>1 DEF Paged
      <4> QED BY <1>0, <2>2, <4>1, <4>2, <4>3
    <3>2. front = 0 /\ ptr \in Rows BY <1>0, <1>p, <2>7 DEF TypeOK
    <3>3. patch'.paint # HalfDrawn BY <1>0, <2>6, <2>7, <3>1, <3>2 DEF Paged
    <3>4. \A r \in Rows : fb'[0][r].paint # HalfDrawn BY <2>6, <3>1
    <3>5. line' = line /\ Backend' = Backend BY <1>12, <1>e DEF TurnPage
    <3>6. ~Scanned => line.paint # HalfDrawn BY <1>0 DEF Paged
    <3>7. Scanned' = Scanned BY <1>12, <1>e DEF TurnPage
    <3> QED BY <3>3, <3>4, <3>5, <3>6, <3>7 DEF Paged
  <2>8. Paged' BY <2>7, <1>0, <1>12, <1>e DEF Paged, TurnPage
  <2>9. ~Scanned BY <1>0, <1>12 DEF Places, TurnPage
  <2> QED BY <1>12, <1>t, <2>8, <2>9 DEF TurnPage
(* Core 1.                                                                 *)
<1>13. CASE Irq
  <2>1. Shown' BY <1>0, <1>13, IrqShown
  <2>2. Overlaid'
    <3>1. UNCHANGED <<pc, dlg, ptr, fb, back, patch, px, active>> /\ Scanned' = Scanned
      BY <1>13, <1>e DEF Irq
    <3> QED BY <1>0, <3>1 DEF Overlaid
  <2>3. Paged' BY <1>13, <1>e, <1>p DEF Irq, Paged
  <2> QED BY <2>1, <2>2, <2>3
<1>k. ASSUME UNCHANGED <<rig, dlg, ptr, pc, fb, back, patch, px, active, page, fbBits>>,
             UNCHANGED <<scan, posted, line, sending, taken>>, Steady' => Steady
      PROVE  Shown' /\ Overlaid' /\ Paged'
  <2>1. Shown' BY <1>0, <1>k, ShownKept
  <2>2. Overlaid' BY <1>0, <1>k, <1>e DEF Overlaid
  <2>3. Paged' BY <1>0, <1>k, <1>e DEF Paged
  <2> QED BY <2>1, <2>2, <2>3
<1>14. CASE EndTaking
  <2>1. Steady' => Steady BY <1>14, <1>e DEF EndTaking, Steady
  <2> QED BY <1>14, <2>1, <1>k DEF EndTaking
<1>15. CASE PioLine
  <2>1. Paged' BY <1>0, <1>15, <1>e DEF PioLine, Paged, TypeOK
  <2> QED BY <1>15, <2>1, <1>t, <1>p DEF PioLine
<1>16. CASE Stall
  <2>1. Steady' => Steady BY <1>16, <1>e DEF Stall, Steady
  <2> QED BY <1>16, <2>1, <1>k DEF Stall
<1>17. CASE Resume
  <2>1. Steady' => Steady BY <1>17, <1>e DEF Resume, Steady
  <2> QED BY <1>17, <2>1, <1>k DEF Resume
<1> QED
  BY <1>1, <1>2, <1>3, <1>4, <1>5, <1>6, <1>7, <1>8, <1>9, <1>10, <1>11, <1>12, <1>13, <1>14,
     <1>15, <1>16, <1>17 DEF Next

(* The inductive invariant of the picture, for dialogs that forget the     *)
(* overlay after their presents or do not use it.                          *)
LEMMA PictureInvariant ==
  ASSUME "led" \notin Dialogs
  PROVE  Spec => []PIInv
<1>1. Init => OnTime /\ Shown /\ Overlaid /\ Paged
  <2> SUFFICES ASSUME Init PROVE OnTime /\ Shown /\ Overlaid /\ Paged OBVIOUS
  <2>1. OnTime BY DEF Init, OnTime, front
  <2>2. Shown
    <3>1. \A r \in Rows : fb[fbBits][r].paint = taken[r] BY DEF Init, Blank, Cell
    <3>2. posted = FALSE /\ sending.row = 0 BY DEF Init, Nothing
    <3>3. ~Active(Before(scan)) \/ line.paint = taken[Before(scan) - 2]
      BY DEF Init, Active, Before, Cell, Rows
    <3> QED BY <3>1, <3>2, <3>3 DEF Shown
  <2>3. Overlaid BY DEF Init, Overlaid
  <2>4. Paged
    <3>1. 0 # HalfDrawn BY DisplayAssumption DEF HalfDrawn
    <3> QED BY <3>1 DEF Init, Paged, Blank, Cell
  <2> QED BY <2>1, <2>2, <2>3, <2>4
<1>2. PresentInv /\ OnTime /\ Shown /\ Overlaid /\ Paged /\ [Next]_vars
        => (OnTime /\ Shown /\ Overlaid /\ Paged)'
  <2> SUFFICES ASSUME PresentInv, OnTime, Shown, Overlaid, Paged, [Next]_vars
               PROVE  (OnTime /\ Shown /\ Overlaid /\ Paged)'
    OBVIOUS
  <2>1. CASE Next
    <3>1. OnTime' BY <2>1, StepOnTime DEF PresentInv
    <3>2. Shown' /\ Overlaid' /\ Paged' BY <2>1, StepPicture DEF PresentInv, PIInv
    <3> QED BY <3>1, <3>2
  <2>2. CASE UNCHANGED vars
    <3> USE <2>2, SameBench DEF vars, program, overlay, present, core1, health
    <3>1. OnTime' BY DEF OnTime, front
    <3>2. Shown'
      <4>1. Steady' => Steady BY DEF Steady
      <4> QED BY <4>1, ShownKept
    <3>3. Overlaid' BY DEF Overlaid, front
    <3>4. Paged' BY DEF Paged
    <3> QED BY <3>1, <3>2, <3>3, <3>4
  <2> QED BY <2>1, <2>2
<1> QED BY PresentsInvariant, <1>1, <1>2, PTL DEF Spec, PresentInv, PIInv

(* What goes down the cable is one finished picture (dma_irq_handler,      *)
(* vga_dma_irq_handler, dma_handler_HDMI), whatever is plugged in, however *)
(* core 1 is stopped and however menus and mouse meet in the event loop.   *)
THEOREM PictureStaysWhole ==
  ASSUME "led" \notin Dialogs
  PROVE  Spec => []PictureIsWhole
<1>1. PIInv => PictureIsWhole
  <2> SUFFICES ASSUME PIInv, sending.row # 0 PROVE PictureIsWhole BY DEF PictureIsWhole
  <2>1. CASE Scanned BY <2>1 DEF PIInv, Shown, Steady, PictureIsWhole
  <2>2. CASE ~Scanned BY <2>2 DEF PIInv, Paged, PictureIsWhole
  <2> QED BY <2>1, <2>2
<1> QED BY PictureInvariant, <1>1, PTL

(***************************************************************************)
(* The screen                                                              *)
(***************************************************************************)
Frugal == \A r \in Rigs : Opened(r.mode, r.base)[1] = "pio" => ~r.pointer

(* A row of the screen is what its paint and its arrow are.                *)
LEMMA CellParts ==
  ASSUME NEW c \in Cells, NEW p, NEW a, c.paint = p, c.arrow = a
  PROVE  c = Cell(p, a)
BY DEF Cell, Cells

(* Composing leaves the rows outside the clip as they were, and a redraw   *)
(* of the menus alone leaves row 2, which shows what it should.            *)
LEMMA StepComposed ==
  ASSUME SIInv, Next, "led" \notin Dialogs, Busy = FALSE, Frugal
  PROVE  Composed'
<1> USE DEF program, overlay, present, core1, health, front
<1>0. /\ TypeOK /\ Places /\ Handshake /\ Overlaid /\ Composed /\ Arrowed /\ ScreenIsCurrent
      /\ back \in 0..1 /\ fb \in Buffers /\ Rows = {1, 2}
  BY DEF SIInv, PIInv, TypeOK, Buffers, Rows
<1>e. rig' = rig => Scanned' = Scanned BY SameBench
<1>n. None = "none" BY DEF None
<1>1. CASE Pass
  <2>1. PICK moved \in BOOLEAN, clicked \in BOOLEAN, key \in {None, "menu", "other"} :
          /\ key = "menu" => ~moved /\ ~clicked
          /\ ptr' = IF moved THEN 3 - ptr ELSE ptr
          /\ Changed(IF clicked \/ key = "other" THEN Rows ELSE IF key = "menu" THEN {1} ELSE {})
          /\ Redraw(key = "menu")
    BY <1>1, Opens, <1>0 DEF Pass
  <2>2. pc = "idle" /\ dlg = None /\ UNCHANGED <<rig, dlg, back>> BY <1>1 DEF Pass
  <2>3. pc' = "cleared" BY <2>1 DEF Redraw, Compose
  <2>4. CASE ~(key = "menu" /\ ScansFrontBuffer)
    <3>1. clip' = Rows BY <2>1, <2>4 DEF Redraw, Compose
    <3> QED BY <2>3, <3>1 DEF Composed
  <2>5. CASE key = "menu" /\ ScansFrontBuffer
    <3>1. Compose({1}) BY <2>1, <2>5 DEF Redraw
    <3>2. clip' = {1} /\ fb'[back][2] = fb[back][2] BY <3>1, <1>0 DEF Compose, Buffers
    <3>3. ptr' = ptr BY <2>1, <2>5
    <3>4. Changed({1}) BY <2>1, <2>5, <1>n
    <3>5. want'[2] = want[2] BY <3>4, <1>0 DEF Changed
    <3>6. Drawn(2)' = Drawn(2) BY <3>3, <3>5, <2>2 DEF Drawn
    <3>7. Scanned => fb[back][2] = Drawn(2) BY <1>0, <2>2 DEF Composed
    <3> QED BY <1>0, <1>e, <2>2, <2>3, <3>2, <3>6, <3>7 DEF Composed
  <2> QED BY <2>4, <2>5
<1>2. CASE OpenDialog BY <1>2 DEF OpenDialog, Composed
<1>3. CASE DrawDialog BY <1>3 DEF DrawDialog, Compose, Composed
<1>4. CASE MovePointer BY <1>4 DEF MovePointer, Composed
<1>5. CASE CloseDialog
  <2>1. Redraw(FALSE) BY <1>5 DEF CloseDialog
  <2> QED BY <2>1 DEF Redraw, Compose, Composed
<1>6. CASE Paint
  <2>1. \A r \in Rows : fb'[back][r] = IF r \in clip THEN Drawn(r) ELSE fb[back][r]
    BY <1>6, <1>0 DEF Paint, Buffers, Drawn
  <2>2. Scanned => \A r \in Rows : r \in clip \/ fb[back][r] = Drawn(r)
    BY <1>6, <1>0 DEF Paint, Composed
  <2>3. \A r \in Rows : Drawn(r)' = Drawn(r) BY <1>6 DEF Paint, Drawn
  <2> QED BY <1>6, <1>e, <2>1, <2>2, <2>3 DEF Paint, Composed
<1>7. CASE Arm
  <2>1. \A r \in Rows : Drawn(r)' = Drawn(r) BY <1>7 DEF Arm, Drawn
  <2> QED BY <1>0, <1>7, <1>e, <2>1 DEF Arm, Composed
<1>8. CASE Post
  <2>1. \A r \in Rows : Drawn(r)' = Drawn(r) BY <1>8 DEF Post, Drawn
  <2> QED BY <1>0, <1>8, <1>e, <2>1 DEF Post, Composed
<1>p. ASSUME Publish, pc = "wait" PROVE Composed'
  <2>1. pc' = "idle" /\ back' = 1 - back /\ UNCHANGED <<rig, want, dlg, ptr>> BY <1>p DEF Publish
  <2>2. SUFFICES ASSUME dlg = None, Scanned PROVE \A r \in Rows : (fb[back][r] = Drawn(r))'
    BY <2>1, <1>e DEF Composed
  <2>3. fb' = [fb EXCEPT ![front] = fb[back]]
    BY <1>p, <1>n, <2>2 DEF Publish, AfterPresent, ForgetsAfter
  <2>4. \A r \in Rows : fb'[back'][r] = fb[back][r] BY <2>1, <2>3, <1>0 DEF Buffers
  <2>5. \A r \in Rows : Drawn(r)' = Drawn(r) BY <2>1 DEF Drawn
  <2> QED BY <2>2, <2>4, <2>5, <1>0, <1>p DEF Composed
<1>9. CASE Taken BY <1>9, <1>p DEF Taken
<1>10. CASE GiveUp BY <1>10, <1>p DEF GiveUp
<1>s. ~Scanned /\ rig' = rig => Composed' BY <1>e DEF Composed
<1>11. CASE ClearPage BY <1>11, <1>s DEF ClearPage
<1>12. CASE TurnPage BY <1>0, <1>12, <1>s DEF TurnPage, Places
<1>k. ASSUME UNCHANGED <<rig, program, pc, fb, back>> PROVE Composed'
  <2>1. \A r \in Rows : Drawn(r)' = Drawn(r) BY <1>k DEF Drawn
  <2> QED BY <1>0, <1>k, <1>e, <2>1 DEF Composed
<1>13. CASE Irq BY <1>13, <1>k DEF Irq
<1>14. CASE EndTaking BY <1>14, <1>k DEF EndTaking
<1>15. CASE PioLine BY <1>15, <1>k DEF PioLine
<1>16. CASE Stall BY <1>16, <1>k DEF Stall
<1>17. CASE Resume BY <1>17, <1>k DEF Resume
<1> QED
  BY <1>1, <1>2, <1>3, <1>4, <1>5, <1>6, <1>7, <1>8, <1>9, <1>10, <1>11, <1>12, <1>13, <1>14,
     <1>15, <1>16, <1>17 DEF Next

(* Every step ends with a screen that is current where core 0 rests, and   *)
(* with an overlay a dialog can lift the pointer with.                     *)
LEMMA StepScreen ==
  ASSUME SIInv, Next, "led" \notin Dialogs, Busy = FALSE, Frugal
  PROVE  Arrowed' /\ ScreenIsCurrent'
<1> USE DEF program, overlay, present, core1, health
<1>0. /\ TypeOK /\ Places /\ Handshake /\ Overlaid /\ Composed /\ Arrowed /\ ScreenIsCurrent
      /\ back \in 0..1 /\ fb \in Buffers /\ Rows = {1, 2} /\ front \in 0..1 /\ front # back
      /\ rig.pointer \in BOOLEAN /\ ptr \in Rows
  BY Opens DEF SIInv, PIInv, TypeOK, Buffers, Rows, front
<1>e. rig' = rig => /\ Scanned' = Scanned /\ Backend' = Backend
                    /\ ScansFrontBuffer' = ScansFrontBuffer
  BY SameBench
<1>o. Scanned => ScansFrontBuffer BY <1>0, Opens DEF Scanned
<1>n. None = "none" /\ "none" \notin Dialogs BY DisplayAssumption DEF None
<1>b. pc' # "idle" => Arrowed' /\ ScreenIsCurrent' BY DEF Arrowed, ScreenIsCurrent
<1>1. CASE Pass BY <1>1, <1>b DEF Pass, Redraw, Compose
<1>2. CASE OpenDialog BY <1>2, <1>b DEF OpenDialog
<1>3. CASE DrawDialog BY <1>3, <1>b DEF DrawDialog, Compose
<1>5. CASE CloseDialog BY <1>5, <1>b DEF CloseDialog, Redraw, Compose
<1>6. CASE Paint BY <1>6, <1>b DEF Paint
<1>7. CASE Arm BY <1>7, <1>b DEF Arm
<1>8. CASE Post BY <1>8, <1>b DEF Post
<1>11. CASE ClearPage BY <1>11, <1>b DEF ClearPage
<1>k. ASSUME UNCHANGED <<rig, program, pc, fb, back, page, overlay>>
      PROVE  Arrowed' /\ ScreenIsCurrent'
  <2>1. front' = front /\ \A r \in Rows : Arrow(r)' = Arrow(r) BY <1>k DEF front, Arrow, UsesOverlay
  <2> QED BY <1>0, <1>k, <1>e, <2>1 DEF Arrowed, ScreenIsCurrent
<1>13. CASE Irq BY <1>13, <1>k DEF Irq
<1>14. CASE EndTaking BY <1>14, <1>k DEF EndTaking
<1>15. CASE PioLine BY <1>15, <1>k DEF PioLine
<1>16. CASE Stall BY <1>16, <1>k DEF Stall
<1>17. CASE Resume BY <1>17, <1>k DEF Resume
(* A dialog's pointer leaves its row as it was and is drawn in another.    *)
<1>4. CASE MovePointer
  <2>1. /\ pc = "idle" /\ dlg # None /\ rig.pointer /\ ptr' = 3 - ptr /\ front' = front
        /\ UNCHANGED <<rig, want, ver, dlg, pc, back, page>>
    BY <1>4 DEF MovePointer, front
  <2>2. 3 - ptr \in Rows /\ 3 - ptr # ptr BY <1>0
  <2>3. CASE ~UsesOverlay(dlg)
    <3>1. UNCHANGED <<fb, overlay>> BY <1>4, <2>3 DEF MovePointer
    <3>2. \A r \in Rows : Arrow(r)' = Arrow(r) BY <2>1, <2>3 DEF Arrow, UsesOverlay
    <3>3. ScreenIsCurrent' BY <1>0, <1>e, <2>1, <3>1, <3>2 DEF ScreenIsCurrent
    <3>4. Arrowed' BY <2>1, <2>3 DEF Arrowed, UsesOverlay
    <3> QED BY <3>3, <3>4
  <2>4. CASE UsesOverlay(dlg) /\ ~Scanned
    <3>1. Backend # "pio"
      <4>1. rig \in Rigs BY <1>0 DEF TypeOK
      <4> QED BY <2>1, <4>1 DEF Frugal, Backend
    <3>2. ~ScansFrontBuffer BY <1>0, <2>4, <3>1, Opens DEF Scanned
    <3>3. fb' = fb BY <1>4, <2>4, <3>2 DEF MovePointer, Move
    <3>4. ScreenIsCurrent' BY <1>0, <1>e, <2>1, <2>4, <3>3 DEF ScreenIsCurrent
    <3>5. Arrowed' BY <1>e, <2>1, <2>4 DEF Arrowed
    <3> QED BY <3>4, <3>5
  <2>5. CASE UsesOverlay(dlg) /\ Scanned
    <3>1. dlg = "audio" BY <1>0, <1>n, <2>1, <2>5 DEF UsesOverlay, TypeOK
    <3>2. active = TRUE /\ px = ptr /\ patch.arrow = FALSE /\ patch.paint = fb[front][ptr].paint
      BY <1>0, <2>1, <2>5, <3>1 DEF Arrowed, Overlaid, TypeOK
    <3>3. fb[front] = [r \in Rows |-> Cell(want[r], Arrow(r))]
      BY <1>0, <2>1, <2>5 DEF ScreenIsCurrent
    <3>4. \A r \in Rows : Arrow(r) <=> r = ptr BY <2>1, <2>5 DEF Arrow
    <3>5. \A r \in Rows : (r = ptr => Arrow(r)' = FALSE) /\ (r = 3 - ptr => Arrow(r)' = TRUE)
      BY <2>1, <2>2, <2>5 DEF Arrow, UsesOverlay
    <3>6. \A r \in Rows : fb[front][r].paint = want[r] BY <3>3 DEF Cell
    <3> DEFINE old == [fb EXCEPT ![front][ptr] = patch]
               new == [old EXCEPT ![front][3 - ptr] = Cell(@.paint, TRUE)]
    <3>7. patch' = old[front][3 - ptr] /\ fb' = new /\ active' = TRUE
      <4>1. Move(fb, front, TRUE, 3 - ptr) BY <1>4, <2>5, <3>2 DEF MovePointer
      <4> QED BY <1>o, <2>2, <2>5, <3>2, <4>1 DEF Move, Restored
    <3>8. old[front][3 - ptr] = fb[front][3 - ptr] /\ old[front][ptr] = patch
      BY <1>0, <2>2 DEF Buffers
    <3>9. fb[front][3 - ptr].arrow = FALSE
      <4>1. fb[front][3 - ptr] = Cell(want[3 - ptr], Arrow(3 - ptr)) BY <2>2, <3>3
      <4>2. ~Arrow(3 - ptr) BY <2>2, <3>4
      <4>3. Arrow(3 - ptr) \in BOOLEAN BY <1>0 DEF Arrow, UsesOverlay
      <4> QED BY <4>1, <4>2, <4>3 DEF Cell
    <3>10. Arrowed' BY <3>7, <3>8, <3>9 DEF Arrowed
    <3>11. new[front][ptr] = patch /\ new[front][3 - ptr] = Cell(want[3 - ptr], TRUE)
      <4>1. old \in Buffers /\ patch \in Cells BY <1>0 DEF Buffers, TypeOK
      <4> HIDE DEF old
      <4> QED BY <1>0, <2>2, <3>6, <3>8, <4>1 DEF Buffers
    <3>12. patch = Cell(want[ptr], FALSE)
      <4>1. patch.paint = want[ptr] BY <1>0, <3>2, <3>6
      <4>2. patch \in Cells BY <1>0 DEF TypeOK
      <4> QED BY <3>2, <4>1, <4>2 DEF Cell, Cells
    <3>13. ScreenIsCurrent'
      <4>1. fb' \in Buffers
        BY <1>0, <1>4, <2>2, <2>5, MoveTypes DEF MovePointer, TypeOK
      <4> HIDE DEF old, new
      <4>2. \A r \in Rows : r = ptr => fb'[front][r] = Cell(want[r], Arrow(r)')
        BY <3>5, <3>7, <3>11, <3>12
      <4>3. \A r \in Rows : r = 3 - ptr => fb'[front][r] = Cell(want[r], Arrow(r)')
        BY <3>5, <3>7, <3>11
      <4>4. \A r \in Rows : r = ptr \/ r = 3 - ptr BY <1>0
      <4>5. fb'[front] = [r \in Rows |-> Cell(want[r], Arrow(r)')]
        <5>1. fb'[front] \in [Rows -> Cells] BY <1>0, <4>1 DEF Buffers
        <5>2. \A r \in Rows : fb'[front][r] = Cell(want[r], Arrow(r)') BY <4>2, <4>3, <4>4
        <5> QED BY <5>1, <5>2
      <4> QED BY <1>e, <2>1, <2>5, <4>5 DEF ScreenIsCurrent
    <3> QED BY <3>10, <3>13
  <2> QED BY <2>3, <2>4, <2>5
(* A present of the scanned-out drivers: both buffers are the new picture, *)
(* and then the dialog's pointer goes into the one that is shown.          *)
<1>p. ASSUME Publish, pc = "wait" PROVE Arrowed' /\ ScreenIsCurrent'
  <2> DEFINE f == [fb EXCEPT ![front] = fb[back]]
  <2>1. /\ pc' = "idle" /\ back' = front /\ UNCHANGED <<rig, want, ver, dlg, ptr, page>>
        /\ AfterPresent(f, back) /\ front' = back /\ Scanned /\ Scanned'
    BY <1>0, <1>e, <1>p DEF Publish, Places, front
  <2>2. f \in Buffers /\ f[back] = fb[back] BY <1>0 DEF Buffers
  <2>3. \A r \in Rows : f[back][r] = Drawn(r) BY <1>0, <1>p, <2>1, <2>2 DEF Composed
  <2> HIDE DEF f
  <2>a. \A r \in Rows : Arrow(r)' = Arrow(r) BY <2>1 DEF Arrow, UsesOverlay
  <2>4. CASE dlg = "audio" /\ rig.pointer
    <3>1. Move(f, back, FALSE, ptr) BY <2>1, <2>4 DEF AfterPresent, ForgetsAfter
    <3>2. patch' = f[back][ptr] /\ active' = TRUE
          /\ fb' = [f EXCEPT ![back][ptr] = Cell(@.paint, TRUE)]
      BY <1>o, <2>1, <3>1 DEF Move, Restored
    <3>3. \A r \in Rows : f[back][r] = Cell(want[r], FALSE)
      <4>1. \A r \in Rows : Drawn(r) = Cell(want[r], FALSE) BY <1>n, <2>4 DEF Drawn
      <4> QED BY <2>3, <4>1
    <3>4. Arrowed' BY <1>0, <3>2, <3>3 DEF Arrowed, Cell
    <3>5. \A r \in Rows : f[back][r].paint = want[r]
      <4>1. \A r \in Rows : Drawn(r).paint = want[r] BY DEF Drawn, Cell
      <4> QED BY <2>3, <4>1
    <3>6. \A r \in Rows : fb'[back][r] = Cell(want[r], r = ptr)
      <4>1. fb'[back][ptr] = Cell(want[ptr], TRUE) BY <1>0, <2>2, <3>2, <3>5 DEF Buffers
      <4>2. \A r \in Rows : r # ptr => fb'[back][r] = Cell(want[r], FALSE)
        BY <1>0, <2>2, <3>2, <3>3 DEF Buffers
      <4> QED BY <4>1, <4>2
    <3>7. \A r \in Rows : Arrow(r) = (r = ptr) BY <2>4 DEF Arrow, UsesOverlay
    <3>8. fb' \in Buffers BY <1>0, <2>2, <3>1, MoveTypes
    <3>9. fb'[back] = [r \in Rows |-> Cell(want[r], Arrow(r))]
      <4>1. fb'[back] \in [Rows -> Cells] BY <1>0, <3>8 DEF Buffers
      <4> QED BY <3>6, <3>7, <4>1
    <3>10. ScreenIsCurrent' BY <2>1, <2>a, <3>9 DEF ScreenIsCurrent
    <3> QED BY <3>4, <3>10
  <2>5. CASE ~(dlg = "audio" /\ rig.pointer)
    <3>1. fb' = f BY <2>1, <2>5 DEF AfterPresent, ForgetsAfter
    <3>2. dlg # None => ~(rig.pointer /\ UsesOverlay(dlg))
      BY <1>0, <1>n, <2>5 DEF UsesOverlay, TypeOK
    <3>3. \A r \in Rows : Drawn(r) = Cell(want[r], Arrow(r)) BY <3>2 DEF Drawn, Arrow
    <3>4. f[back] = [r \in Rows |-> Cell(want[r], Arrow(r))]
      <4>1. f[back] \in [Rows -> Cells] BY <1>0, <2>2 DEF Buffers
      <4> QED BY <2>3, <3>3, <4>1
    <3>5. ScreenIsCurrent' BY <2>1, <2>a, <3>1, <3>4 DEF ScreenIsCurrent
    <3>6. Arrowed' BY <2>1, <2>5 DEF Arrowed
    <3> QED BY <3>5, <3>6
  <2> QED BY <2>4, <2>5
<1>9. CASE Taken BY <1>9, <1>p DEF Taken
<1>10. CASE GiveUp BY <1>10, <1>p DEF GiveUp
(* A present of the drivers with a text page.                              *)
<1>12. CASE TurnPage
  <2> DEFINE f == [fb EXCEPT ![0][Target] = Cell(ver, FALSE)]
  <2>1. /\ ~Scanned /\ ~Scanned' /\ Backend' = Backend /\ pc' = "idle" /\ ver' = ver
        /\ page' = (IF Backend = "pio" THEN Target ELSE page) /\ AfterPresent(f, front)
    BY <1>0, <1>e, <1>12 DEF TurnPage, Places
  <2>2. Target \in Rows BY <1>0 DEF Target, TypeOK
  <2>3. Cell(ver, FALSE) \in Cells
    BY <1>0, DisplayAssumption DEF Cell, Cells, Paints, HalfDrawn, TypeOK
  <2>4. f \in Buffers /\ f[0][Target].paint = ver
    BY <1>0, <2>2, <2>3 DEF Buffers, Cell
  <2> HIDE DEF f
  <2>5. fb'[0][Target].paint = ver BY <1>0, <2>1, <2>2, <2>4, AfterPresentPaints
  <2>6. ScreenIsCurrent' BY <2>1, <2>5 DEF ScreenIsCurrent, Target
  <2>7. Arrowed' BY <2>1 DEF Arrowed
  <2> QED BY <2>6, <2>7
<1> QED
  BY <1>1, <1>2, <1>3, <1>4, <1>5, <1>6, <1>7, <1>8, <1>9, <1>10, <1>11, <1>12, <1>13, <1>14,
     <1>15, <1>16, <1>17 DEF Next

(* When core 0 rests every row shows the last change and the pointer is    *)
(* where it is and nowhere else (main.c:104-109, ui_cursor.c:43-52): where *)
(* no dialog moves a pointer it has not forgotten, no pass of the loop has *)
(* both the mouse and a menu's key in it, and the PIO driver has no mouse. *)
THEOREM ScreenStaysCurrent ==
  ASSUME "led" \notin Dialogs, Busy = FALSE, Frugal
  PROVE  Spec => []ScreenIsCurrent
<1>1. Init => Composed /\ Arrowed /\ ScreenIsCurrent
  BY DEF Init, Composed, Arrowed, ScreenIsCurrent
<1>2. PIInv /\ PIInv' /\ Composed /\ Arrowed /\ ScreenIsCurrent /\ [Next]_vars
        => (Composed /\ Arrowed /\ ScreenIsCurrent)'
  <2> SUFFICES ASSUME PIInv, Composed, Arrowed, ScreenIsCurrent, [Next]_vars
               PROVE  (Composed /\ Arrowed /\ ScreenIsCurrent)'
    OBVIOUS
  <2>1. CASE Next BY <2>1, StepComposed, StepScreen DEF SIInv
  <2>2. CASE UNCHANGED vars
    <3> USE <2>2, SameBench DEF vars, program, overlay
    <3>1. front' = front /\ \A r \in Rows : Arrow(r)' = Arrow(r) /\ Drawn(r)' = Drawn(r)
      BY DEF front, Arrow, UsesOverlay, Drawn
    <3>2. Composed' BY <3>1 DEF Composed
    <3>3. Arrowed' BY DEF Arrowed
    <3>4. ScreenIsCurrent' BY <3>1 DEF ScreenIsCurrent
    <3> QED BY <3>2, <3>3, <3>4
  <2> QED BY <2>1, <2>2
<1> QED BY PictureInvariant, <1>1, <1>2, PTL DEF Spec

(***************************************************************************)
(* Tests: the inductive invariant                                          *)
(***************************************************************************)

(* A test runs in the row its loop is at and nowhere else; the loops that  *)
(* go through the list know the board, and Run Selected does nothing but   *)
(* run its row.                                                            *)
RunsInPlace ==
  /\ on => doing.loop # "idle" /\ doing.row \in TestRows
  /\ \A i \in TestRows : rows[i] = "running" <=> on /\ i = doing.row
  /\ doing.loop = "selected" => on
  /\ doing.loop \in {"all", "burn"} => board # Unknown /\ doing.row >= 1

(* Behind its place a loop has left no row untried, ahead of it none has   *)
(* been touched.                                                           *)
InOrder ==
  doing.loop \in {"all", "burn"} =>
    \A i \in TestRows :
      /\ i < doing.row => rows[i] \notin {"pending", "running"}
      /\ i > doing.row \/ (i = doing.row /\ ~on) => rows[i] \in {"na", "pending"}

(* On a known board the rows marked n/a are those it lacks something for.  *)
GatedRows == board # Unknown => \A i \in TestRows : rows[i] = "na" <=> Lacks(board, i)

(* Where the bound on burn-in cycles bites: at a row the board has.        *)
CyclesEnd ==
  doing.loop = "burn" =>
    /\ on => burn.cycles < MaxCycles
    /\ burn.cycles = MaxCycles => \E i \in TestRows : i >= doing.row /\ rows[i] # "na"

(* The failures counted are finitely many.                                 *)
FewFailures == IsFiniteSet(Failures(burn.fails))

Inv ==
  /\ TestsTypeOK /\ RunsInPlace /\ InOrder /\ GatedRows /\ CyclesEnd /\ FewFailures
  /\ CountsAreTrue /\ VerdictsAreEarned

---------------------------------------------------------------------------
(* The list and its totals.                                                *)

(* There are Len rows.                                                     *)
LEMMA RowsAreFew == IsFiniteSet(TestRows) /\ Cardinality(TestRows) = Len
BY FS_Interval, TestsAssumption DEF TestRows

(* registry_tally counts no more rows than there are.                      *)
LEMMA TallyType ==
  ASSUME NEW r
  PROVE  Tally(r) \in [passed : 0..Len, failed : 0..Len, na : 0..Len,
                        norun : 0..Len, pending : 0..Len]
<1>1. ASSUME NEW S PROVE Cardinality({i \in TestRows : r[i] \in S}) \in 0..Len
  <2>1. {i \in TestRows : r[i] \in S} \subseteq TestRows OBVIOUS
  <2>2. /\ IsFiniteSet({i \in TestRows : r[i] \in S})
        /\ Cardinality({i \in TestRows : r[i] \in S}) <= Cardinality(TestRows)
    BY <2>1, RowsAreFew, FS_Subset
  <2>3. Cardinality({i \in TestRows : r[i] \in S}) \in Nat
    BY <2>2, FS_CardinalityType
  <2> QED BY <2>2, <2>3, RowsAreFew, TestsAssumption
<1> QED BY <1>1 DEF Tally

(* A row that starts counts as what it was: not decided yet.               *)
LEMMA TallyBegin ==
  ASSUME NEW r \in [TestRows -> States], NEW i \in TestRows, r[i] = "pending"
  PROVE  Tally([r EXCEPT ![i] = "running"]) = Tally(r)
<1> DEFINE s == [r EXCEPT ![i] = "running"]
<1>1. ASSUME NEW S, "running" \in S <=> "pending" \in S
      PROVE  {j \in TestRows : s[j] \in S} = {j \in TestRows : r[j] \in S}
  BY <1>1
<1> HIDE DEF s
<1>2. /\ {j \in TestRows : s[j] \in {"pass"}} = {j \in TestRows : r[j] \in {"pass"}}
      /\ {j \in TestRows : s[j] \in {"fail"}} = {j \in TestRows : r[j] \in {"fail"}}
      /\ {j \in TestRows : s[j] \in {"na"}} = {j \in TestRows : r[j] \in {"na"}}
      /\ {j \in TestRows : s[j] \in {"norun"}} = {j \in TestRows : r[j] \in {"norun"}}
      /\ {j \in TestRows : s[j] \in {"pending", "running"}}
           = {j \in TestRows : r[j] \in {"pending", "running"}}
  BY <1>1
<1>3. Tally(s) = Tally(r) BY <1>2 DEF Tally
<1> QED BY <1>3 DEF s

(* With every row decided the total of the undecided ones is zero.         *)
LEMMA TallyDecided ==
  ASSUME NEW r, \A i \in TestRows : r[i] \notin {"pending", "running"}
  PROVE  Tally(r).pending = 0
<1>1. {i \in TestRows : r[i] \in {"pending", "running"}} = {} OBVIOUS
<1> QED BY <1>1, FS_EmptySet DEF Tally

(* registry_prepare decides no row but those of an unknown board, and      *)
(* gates those of a known one.                                             *)
LEMMA PreparedRows ==
  ASSUME NEW b
  PROVE  /\ Prepared(b) \in [TestRows -> States]
         /\ b = Unknown => \A i \in TestRows : Prepared(b)[i] = "norun"
         /\ b # Unknown => \A i \in TestRows : Prepared(b)[i] = IF Lacks(b, i) THEN "na" ELSE "pending"
BY DEF Prepared, States, Verdicts

(* TestRows the board lacks nothing for there are.                             *)
LEMMA SomeRow == ASSUME NEW b \in Boards PROVE \E i \in TestRows : ~Lacks(b, i)
BY TestsAssumption

(* One more failure of row i is one more failure.                          *)
LEMMA OneMoreFailure ==
  ASSUME NEW f \in [TestRows -> Nat], NEW i \in TestRows, IsFiniteSet(Failures(f))
  PROVE  LET g == [f EXCEPT ![i] = @ + 1]
         IN  /\ IsFiniteSet(Failures(g))
             /\ Cardinality(Failures(g)) = Cardinality(Failures(f)) + 1
<1> DEFINE g == [f EXCEPT ![i] = @ + 1]
           new == <<i, f[i] + 1>>
<1>1. f[i] \in Nat /\ g[i] = f[i] + 1 /\ \A j \in TestRows \ {i} : g[j] = f[j] OBVIOUS
<1>2. \A h : \A p : p \in Failures(h) <=> \E j \in TestRows : p \in {j} \X (1..h[j])
  BY DEF Failures
<1>3. new \notin Failures(f)
  <2> SUFFICES ASSUME NEW j \in TestRows, new \in {j} \X (1..f[j]) PROVE FALSE BY <1>2
  <2> QED BY <1>1
<1>4. ASSUME NEW p PROVE p \in Failures(g) <=> p \in Failures(f) \cup {new}
  <2>1. ASSUME NEW j \in TestRows, p \in {j} \X (1..g[j]) PROVE p \in Failures(f) \cup {new}
    <3>1. CASE j # i BY <1>1, <1>2, <2>1, <3>1
    <3>2. CASE j = i
      <4>1. PICK n \in 1..(f[i] + 1) : p = <<i, n>> BY <1>1, <2>1, <3>2
      <4>2. n = f[i] + 1 \/ n \in 1..f[i] BY <1>1, <4>1
      <4>3. n \in 1..f[i] => p \in {i} \X (1..f[i]) BY <4>1
      <4> QED BY <1>2, <4>1, <4>2, <4>3
    <3> QED BY <3>1, <3>2
  <2>2. ASSUME NEW j \in TestRows, p \in {j} \X (1..f[j]) PROVE p \in Failures(g)
    <3>1. PICK n \in 1..f[j] : p = <<j, n>> BY <2>2
    <3>2. f[j] \in Nat OBVIOUS
    <3>3. n \in 1..g[j] BY <1>1, <3>1, <3>2
    <3> HIDE DEF g
    <3>4. p \in {j} \X (1..g[j]) BY <3>1, <3>3
    <3> QED BY <1>2, <3>4
  <2>3. p = new => p \in Failures(g)
    <3>1. new \in {i} \X (1..g[i]) BY <1>1
    <3> HIDE DEF g, new
    <3> QED BY <1>2, <3>1
  <2> HIDE DEF g, new
  <2> QED BY <1>2, <2>1, <2>2, <2>3
<1>5. Failures(g) = Failures(f) \cup {new}
  <2> HIDE DEF g, new
  <2> QED BY <1>4
<1> HIDE DEF new
<1>6. /\ IsFiniteSet(Failures(f) \cup {new})
      /\ Cardinality(Failures(f) \cup {new}) = Cardinality(Failures(f)) + 1
  BY <1>3, FS_AddElement
<1> QED BY <1>5, <1>6

(* A burn-in that has not started has no failures.                         *)
LEMMA NoFailure == IsFiniteSet(Failures(NoRun)) /\ Cardinality(Failures(NoRun)) = 0
<1>1. \A i \in TestRows : {i} \X (1..NoRun[i]) = {} BY DEF NoRun
<1>2. Failures(NoRun) = {} BY <1>1 DEF Failures
<1> QED BY <1>2, FS_EmptySet
---------------------------------------------------------------------------
(* What the pieces of registry.c keep.                                     *)

(* A list just prepared for its board, with no test in it: nothing of it   *)
(* is anybody's verdict, and its totals are its own.                       *)
LEMMA PrepareKeeps ==
  ASSUME Inv, Prepare(board'), board' \in Boards, UNCHANGED <<on, got>>, ~on
  PROVE  /\ rows' \in [TestRows -> States]
         /\ tally' \in [passed : 0..Len, failed : 0..Len, na : 0..Len,
                         norun : 0..Len, pending : 0..Len]
         /\ tally' = Tally(rows')
         /\ \A i \in TestRows : rows'[i] \in {"na", "norun", "pending"}
         /\ board' # Unknown => \A i \in TestRows : rows'[i] \in {"na", "pending"}
         /\ GatedRows' /\ VerdictsAreEarned'
<1>1. rows' = Prepared(board') /\ tally' = Tally(rows') BY DEF Prepare
<1>2. \A i \in TestRows : rows'[i] \in {"na", "norun", "pending"}
  BY <1>1, PreparedRows
<1>3. board' # Unknown => \A i \in TestRows : rows'[i] = IF Lacks(board', i) THEN "na" ELSE "pending"
  BY <1>1, PreparedRows
<1>4. rows' \in [TestRows -> States] BY <1>1, PreparedRows
<1>5. tally' \in [passed : 0..Len, failed : 0..Len, na : 0..Len,
                  norun : 0..Len, pending : 0..Len]
  BY <1>1, TallyType
<1>6. GatedRows' BY <1>3 DEF GatedRows
<1>7. VerdictsAreEarned' BY <1>2 DEF VerdictsAreEarned
<1> QED BY <1>1, <1>2, <1>3, <1>4, <1>5, <1>6, <1>7

(* A row that begins runs on the board that is named.                      *)
LEMMA BeginKeeps ==
  ASSUME Inv, NEW i \in TestRows, Begin(i), ~on, UNCHANGED board
  PROVE  /\ rows' \in [TestRows -> States] /\ got' \in [TestRows -> Boards]
         /\ on' = TRUE /\ rows'[i] = "running" /\ rows[i] # "na"
         /\ \A j \in TestRows \ {i} : rows'[j] = rows[j] /\ rows'[j] # "running"
         /\ rows[i] = "pending" => Tally(rows') = Tally(rows)
         /\ GatedRows' /\ VerdictsAreEarned'
<1>1. /\ rows \in [TestRows -> States] /\ got \in [TestRows -> Boards] /\ board \in Boards
  BY DEF Inv, TestsTypeOK
<1>2. /\ rows' = [rows EXCEPT ![i] = "running"] /\ rows[i] # "na" /\ on' = TRUE
      /\ got' = [got EXCEPT ![i] = board]
  BY DEF Begin
<1>3. rows' \in [TestRows -> States] /\ got' \in [TestRows -> Boards]
  BY <1>1, <1>2 DEF States
<1>4. rows'[i] = "running" /\ \A j \in TestRows \ {i} : rows'[j] = rows[j] /\ rows[j] # "running"
  BY <1>1, <1>2 DEF Inv, RunsInPlace
<1>5. rows[i] = "pending" => Tally(rows') = Tally(rows)
  BY <1>1, <1>2, TallyBegin
<1>6. \A j \in TestRows : rows'[j] = "na" <=> rows[j] = "na"
  BY <1>2, <1>4
<1>7. GatedRows' BY <1>6 DEF Inv, GatedRows
<1>8. VerdictsAreEarned'
  <2> SUFFICES ASSUME NEW j \in TestRows, rows'[j] \in {"pass", "fail", "running"}
               PROVE  got'[j] = board /\ (board = Unknown \/ ~Lacks(board, j))
    BY DEF VerdictsAreEarned
  <2>1. CASE j = i BY <1>1, <1>2, <2>1 DEF Inv, GatedRows
  <2>2. CASE j # i BY <1>1, <1>2, <1>4, <2>2 DEF Inv, VerdictsAreEarned
  <2> QED BY <2>1, <2>2
<1> QED BY <1>2, <1>3, <1>4, <1>5, <1>7, <1>8

(* A row that ends has a verdict of the board it began on, and the totals  *)
(* are those of the list.                                                  *)
LEMMA ReturnKeeps ==
  ASSUME Inv, NEW i \in TestRows, rows[i] = "running", NEW v \in Verdict(i), Return(i, v)
  PROVE  /\ rows' \in [TestRows -> States] /\ v \in Verdicts
         /\ tally' \in [passed : 0..Len, failed : 0..Len, na : 0..Len,
                         norun : 0..Len, pending : 0..Len]
         /\ tally' = Tally(rows') /\ on' = FALSE /\ contacted' \in BOOLEAN
         /\ rows'[i] = v
         /\ \A j \in TestRows \ {i} : rows'[j] = rows[j] /\ rows'[j] # "running"
         /\ UNCHANGED <<board, inited, got>>
         /\ GatedRows' /\ VerdictsAreEarned'
<1>1. rows \in [TestRows -> States] /\ contacted \in BOOLEAN
  BY DEF Inv, TestsTypeOK
<1>2. /\ rows' = [rows EXCEPT ![i] = v] /\ tally' = Tally(rows') /\ on' = FALSE
      /\ contacted' = IF i = Contact /\ inited THEN v # "norun" ELSE contacted
      /\ UNCHANGED <<board, inited, got>>
  BY DEF Return
<1>3. v \in Verdicts BY DEF Verdict, Verdicts
<1>4. rows' \in [TestRows -> States] BY <1>1, <1>2, <1>3 DEF States
<1>5. tally' \in [passed : 0..Len, failed : 0..Len, na : 0..Len,
                  norun : 0..Len, pending : 0..Len]
  BY <1>2, TallyType
<1>6. rows'[i] = v /\ \A j \in TestRows \ {i} : rows'[j] = rows[j] /\ rows[j] # "running"
  BY <1>1, <1>2 DEF Inv, RunsInPlace
<1>7. contacted' \in BOOLEAN
  <2>1. (v # "norun") \in BOOLEAN OBVIOUS
  <2> QED BY <1>1, <1>2, <2>1
<1>8. GatedRows' BY <1>2, <1>3, <1>6 DEF Inv, GatedRows, Verdicts
<1>9. VerdictsAreEarned' BY <1>2, <1>6 DEF Inv, VerdictsAreEarned
<1> QED BY <1>2, <1>3, <1>4, <1>5, <1>6, <1>7, <1>8, <1>9

---------------------------------------------------------------------------
(* The loops.                                                              *)

(* Where the loops are.                                                    *)
LEMMA LoopPlaces ==
  ASSUME Inv
  PROVE  /\ Len \in Nat \ {0} /\ TestRows = 1..Len /\ MaxCycles \in Nat \ {0}
         /\ doing.row \in 0..Len + 1 /\ doing.loop \in {"idle", "all", "selected", "burn"}
         /\ burn.cycles \in 0..MaxCycles
         /\ on \in BOOLEAN /\ Idle => ~on
         /\ Unknown \in Boards
BY TestsAssumption DEF Inv, TestsTypeOK, TestRows, Idle, RunsInPlace

(* A run of everything, on this board or on none.                          *)
LEMMA RunAllKeeps ==
  ASSUME Inv, Idle, RunAll, UNCHANGED linkVars
  PROVE  Inv'
<1>1. /\ Prepare(board) /\ board' = board /\ ~on
      /\ doing' = IF board = Unknown THEN In("idle", 0) ELSE In("all", 1)
      /\ UNCHANGED <<on, selected, burn, asked, got, ran, inited, contacted>>
  BY LoopPlaces DEF RunAll, linkVars
<1>2. /\ rows' \in [TestRows -> States]
      /\ tally' \in [passed : 0..Len, failed : 0..Len, na : 0..Len,
                      norun : 0..Len, pending : 0..Len]
      /\ tally' = Tally(rows')
      /\ \A i \in TestRows : rows'[i] \in {"na", "norun", "pending"}
      /\ board' # Unknown => \A i \in TestRows : rows'[i] \in {"na", "pending"}
      /\ GatedRows' /\ VerdictsAreEarned'
  <2>1. board' \in Boards /\ Prepare(board') BY <1>1 DEF Inv, TestsTypeOK
  <2> QED BY <1>1, <2>1, PrepareKeeps
<1>3. TestsTypeOK'
  <2>1. doing' \in [loop : {"idle", "all", "selected", "burn"}, row : 0..Len + 1]
    BY <1>1, LoopPlaces DEF In
  <2> QED BY <1>1, <1>2, <2>1 DEF Inv, TestsTypeOK
<1>4. RunsInPlace' BY <1>1, <1>2 DEF RunsInPlace, In
<1>5. InOrder' BY <1>1, <1>2, LoopPlaces DEF InOrder, In
<1>6. CyclesEnd' BY <1>1 DEF CyclesEnd, In
<1>7. FewFailures' BY <1>1 DEF Inv, FewFailures, Failures
<1>8. CountsAreTrue' BY <1>1, <1>2 DEF CountsAreTrue, In
<1> QED BY <1>2, <1>3, <1>4, <1>5, <1>6, <1>7, <1>8 DEF Inv

(* Set Board rebuilds the list for the board it sets.                      *)
LEMMA SetBoardKeeps ==
  ASSUME Inv, NEW b \in Choosable, SetBoard(b)
  PROVE  Inv'
<1>1. /\ Prepare(board') /\ board' = b /\ b \in Boards /\ ~on /\ Idle
      /\ inited' = (inited \/ Link \in Claimed[b])
      /\ UNCHANGED <<doing, on, selected, contacted, burn, asked, got, ran>>
  BY LoopPlaces, TestsAssumption DEF SetBoard, LinkInit
<1>2. /\ rows' \in [TestRows -> States]
      /\ tally' \in [passed : 0..Len, failed : 0..Len, na : 0..Len,
                      norun : 0..Len, pending : 0..Len]
      /\ tally' = Tally(rows')
      /\ \A i \in TestRows : rows'[i] \in {"na", "norun", "pending"}
      /\ GatedRows' /\ VerdictsAreEarned'
  BY <1>1, PrepareKeeps
<1>3. inited' \in BOOLEAN
  <2>1. (Link \in Claimed[b]) \in BOOLEAN OBVIOUS
  <2> QED BY <1>1, <2>1 DEF Inv, TestsTypeOK
<1>4. TestsTypeOK' BY <1>1, <1>2, <1>3 DEF Inv, TestsTypeOK
<1>5. RunsInPlace' BY <1>1, <1>2 DEF RunsInPlace, Idle
<1>6. InOrder' BY <1>1 DEF InOrder, Idle
<1>7. CyclesEnd' BY <1>1 DEF CyclesEnd, Idle
<1>8. FewFailures' BY <1>1 DEF Inv, FewFailures, Failures
<1>9. CountsAreTrue' BY <1>1, <1>2 DEF CountsAreTrue, Idle
<1> QED BY <1>2, <1>4, <1>5, <1>6, <1>7, <1>8, <1>9 DEF Inv

(* A burn-in starts with a fresh list and nothing counted.                 *)
LEMMA BurnInKeeps == ASSUME Inv, BurnIn PROVE Inv'
<1>1. /\ Prepare(board') /\ board' = board /\ board' \in Boards /\ ~on
      /\ board # Unknown /\ burn' = NoBurn /\ asked' = FALSE /\ ran' = NoRun
      /\ doing' = [loop |-> "burn", row |-> 1]
      /\ UNCHANGED <<on, selected, inited, contacted, got>>
  BY LoopPlaces DEF BurnIn, In, linkVars, Inv, TestsTypeOK
<1>2. /\ rows' \in [TestRows -> States]
      /\ tally' \in [passed : 0..Len, failed : 0..Len, na : 0..Len,
                      norun : 0..Len, pending : 0..Len]
      /\ tally' = Tally(rows')
      /\ \A i \in TestRows : rows'[i] \in {"na", "pending"}
      /\ GatedRows' /\ VerdictsAreEarned'
  BY <1>1, PrepareKeeps
<1>3. NoRun \in [TestRows -> Nat] /\ \A i \in TestRows : NoRun[i] = 0 BY DEF NoRun
<1>4. /\ burn' \in [cycles : 0..MaxCycles, fails : [TestRows -> Nat], norun : [TestRows -> Nat], total : Nat]
      /\ burn'.cycles = 0 /\ burn'.fails = NoRun /\ burn'.norun = NoRun /\ burn'.total = 0
  BY <1>1, <1>3, LoopPlaces DEF NoBurn
<1>5. doing' \in [loop : {"idle", "all", "selected", "burn"}, row : 0..Len + 1]
  BY <1>1, LoopPlaces
<1>6. TestsTypeOK' BY <1>1, <1>2, <1>3, <1>4, <1>5 DEF Inv, TestsTypeOK
<1>7. RunsInPlace' BY <1>1, <1>2 DEF RunsInPlace
<1>8. InOrder' BY <1>1, <1>2, LoopPlaces DEF InOrder
<1>9. CyclesEnd' BY <1>1, <1>4, LoopPlaces DEF CyclesEnd
<1>10. FewFailures' BY <1>4, NoFailure DEF FewFailures, Failures
<1>11. CountsAreTrue'
  <2>1. burn'.total = Cardinality(Failures(burn'.fails)) BY <1>4, NoFailure
  <2>2. \A i \in TestRows : i >= 1 BY LoopPlaces
  <2>3. \A i \in TestRows :
          /\ rows'[i] # "na" => ran'[i] = burn'.cycles + (IF i < doing'.row THEN 1 ELSE 0)
          /\ burn'.fails[i] + burn'.norun[i] <= ran'[i]
    BY <1>1, <1>3, <1>4, <2>2, LoopPlaces
  <2> QED BY <1>2, <2>1, <2>3 DEF CountsAreTrue, Failures
<1> QED BY <1>2, <1>6, <1>7, <1>8, <1>9, <1>10, <1>11 DEF Inv

(* The next cycle starts with a fresh list; the counts go on.              *)
LEMMA BurnCycleEndsKeeps == ASSUME Inv, BurnCycleEnds PROVE Inv'
<1>1. /\ Prepare(board') /\ board' = board /\ board' \in Boards
      /\ doing.loop = "burn" /\ doing.row > Len
      /\ burn' = [burn EXCEPT !.cycles = @ + 1]
      /\ doing' = [loop |-> "burn", row |-> 1]
      /\ UNCHANGED <<on, selected, inited, contacted, asked, got, ran>>
  BY DEF BurnCycleEnds, In, linkVars, Inv, TestsTypeOK
<1>2. doing.row = Len + 1 /\ ~on /\ board # Unknown
  BY <1>1, LoopPlaces DEF Inv, RunsInPlace
<1>3. /\ rows' \in [TestRows -> States]
      /\ tally' \in [passed : 0..Len, failed : 0..Len, na : 0..Len,
                      norun : 0..Len, pending : 0..Len]
      /\ tally' = Tally(rows')
      /\ \A i \in TestRows : rows'[i] \in {"na", "pending"}
      /\ GatedRows' /\ VerdictsAreEarned'
  BY <1>1, <1>2, PrepareKeeps
<1>4. \A i \in TestRows : i < doing.row /\ i >= 1 BY <1>2, LoopPlaces
<1>5. burn.cycles < MaxCycles
  BY <1>1, <1>4, LoopPlaces DEF Inv, CyclesEnd
<1>6. /\ burn' \in [cycles : 0..MaxCycles, fails : [TestRows -> Nat], norun : [TestRows -> Nat], total : Nat]
      /\ burn'.cycles = burn.cycles + 1 /\ burn'.fails = burn.fails
      /\ burn'.norun = burn.norun /\ burn'.total = burn.total
  <2>1. burn.cycles + 1 \in 0..MaxCycles BY <1>5, LoopPlaces
  <2>2. burn \in [cycles : 0..MaxCycles, fails : [TestRows -> Nat], norun : [TestRows -> Nat], total : Nat]
    BY DEF Inv, TestsTypeOK
  <2>3. burn' = [burn EXCEPT !.cycles = burn.cycles + 1] BY <1>1
  <2> QED BY <2>1, <2>2, <2>3
<1>7. doing' \in [loop : {"idle", "all", "selected", "burn"}, row : 0..Len + 1]
  BY <1>1, LoopPlaces
<1>8. TestsTypeOK' BY <1>1, <1>3, <1>6, <1>7 DEF Inv, TestsTypeOK
<1>9. RunsInPlace' BY <1>1, <1>2, <1>3 DEF RunsInPlace
<1>10. InOrder' BY <1>1, <1>2, <1>3, LoopPlaces DEF InOrder
<1>11. CyclesEnd'
  <2>1. PICK i \in TestRows : ~Lacks(board, i) BY SomeRow DEF Inv, TestsTypeOK
  <2>2. rows'[i] # "na" /\ i >= doing'.row
    BY <1>1, <1>2, <1>3, <1>4, <2>1 DEF GatedRows
  <2> QED BY <1>1, <1>2, <2>2 DEF CyclesEnd
<1>12. FewFailures' BY <1>6 DEF Inv, FewFailures, Failures
<1>13. CountsAreTrue'
  <2>1. burn'.total = Cardinality(Failures(burn'.fails))
    BY <1>1, <1>6 DEF Inv, CountsAreTrue
  <2>2. ASSUME NEW i \in TestRows
        PROVE  /\ rows'[i] # "na" => ran'[i] = burn'.cycles + (IF i < doing'.row THEN 1 ELSE 0)
               /\ burn'.fails[i] + burn'.norun[i] <= ran'[i]
    <3>1. rows'[i] = "na" <=> rows[i] = "na"
      BY <1>1, <1>2, <1>3 DEF Inv, GatedRows
    <3>2. /\ rows[i] # "na" => ran[i] = burn.cycles + 1
          /\ burn.fails[i] + burn.norun[i] <= ran[i]
      BY <1>1, <1>4 DEF Inv, CountsAreTrue
    <3> QED BY <1>1, <1>4, <1>6, <3>1, <3>2, LoopPlaces
  <2> QED BY <1>3, <2>1, <2>2 DEF CountsAreTrue, Failures
<1> QED BY <1>3, <1>8, <1>9, <1>10, <1>11, <1>12, <1>13 DEF Inv

(* Both loops pass a row the board lacks something for.                    *)
LEMMA SkipKeeps == ASSUME Inv, Skip PROVE Inv'
<1>1. /\ doing.loop \in {"all", "burn"} /\ ~on /\ doing.row <= Len
      /\ rows[doing.row] = "na"
      /\ doing' = [loop |-> doing.loop, row |-> doing.row + 1]
      /\ UNCHANGED <<board, rows, tally, on, selected, inited, contacted, burn, asked, got, ran>>
  BY DEF Skip, In, linkVars
<1>2. doing.row \in TestRows /\ doing.row >= 1 BY <1>1, LoopPlaces DEF Inv, RunsInPlace
<1>3. doing' \in [loop : {"idle", "all", "selected", "burn"}, row : 0..Len + 1]
  BY <1>1, <1>2, LoopPlaces
<1>4. TestsTypeOK' BY <1>1, <1>3 DEF Inv, TestsTypeOK
<1>5. RunsInPlace' BY <1>1, <1>2, LoopPlaces DEF Inv, RunsInPlace
<1>6. InOrder'
  <2> SUFFICES ASSUME NEW i \in TestRows
               PROVE  /\ i < doing'.row => rows'[i] \notin {"pending", "running"}
                      /\ i > doing'.row \/ (i = doing'.row /\ ~on') => rows'[i] \in {"na", "pending"}
    BY DEF InOrder
  <2>1. i < doing.row \/ i = doing.row \/ i > doing.row BY <1>2, LoopPlaces
  <2> QED BY <1>1, <1>2, <2>1, LoopPlaces DEF Inv, InOrder
<1>7. CyclesEnd' BY <1>1, <1>2, LoopPlaces DEF Inv, CyclesEnd
<1>8. GatedRows' /\ VerdictsAreEarned' /\ FewFailures'
  BY <1>1 DEF Inv, GatedRows, VerdictsAreEarned, FewFailures, Failures
<1>9. CountsAreTrue'
  <2>1. \A i \in TestRows : rows[i] # "na" => (i < doing.row <=> i < doing'.row)
    BY <1>1, <1>2, LoopPlaces
  <2> QED BY <1>1, <2>1 DEF Inv, CountsAreTrue, Failures
<1> QED BY <1>4, <1>5, <1>6, <1>7, <1>8, <1>9 DEF Inv

(* A loop that goes through the list begins its row, which was untouched.  *)
LEMMA LoopRowKeeps ==
  ASSUME Inv, AllRow \/ BurnRow
  PROVE  Inv'
<1> DEFINE i == doing.row
<1>1. /\ doing.loop \in {"all", "burn"} /\ ~on /\ doing.row <= Len
      /\ Begin(i) /\ selected' \in {selected, i}
      /\ doing.loop = "burn" => burn.cycles < MaxCycles
      /\ UNCHANGED <<board, tally, doing, inited, contacted, burn, asked, ran>>
  BY DEF AllRow, BurnRow, linkVars
<1>2. i \in TestRows /\ i >= 1 BY <1>1, LoopPlaces DEF Inv, RunsInPlace
<1>3. rows[i] \in {"na", "pending"} BY <1>1, <1>2 DEF Inv, InOrder
<1> HIDE DEF i
<1>4. /\ rows' \in [TestRows -> States] /\ got' \in [TestRows -> Boards]
      /\ on' = TRUE /\ rows'[i] = "running" /\ rows[i] # "na"
      /\ \A j \in TestRows \ {i} : rows'[j] = rows[j] /\ rows'[j] # "running"
      /\ rows[i] = "pending" => Tally(rows') = Tally(rows)
      /\ GatedRows' /\ VerdictsAreEarned'
  BY <1>1, <1>2, BeginKeeps
<1>5. TestsTypeOK'
  <2>1. selected \in 0..Len BY DEF Inv, TestsTypeOK
  <2>2. i \in 0..Len BY <1>2, LoopPlaces
  <2>3. selected' \in 0..Len BY <1>1, <2>1, <2>2
  <2> QED BY <1>1, <1>4, <2>3 DEF Inv, TestsTypeOK
<1>6. RunsInPlace' BY <1>1, <1>2, <1>4 DEF Inv, RunsInPlace, i
<1>7. InOrder'
  <2> SUFFICES ASSUME NEW j \in TestRows
               PROVE  /\ j < i => rows'[j] \notin {"pending", "running"}
                      /\ j > i => rows'[j] \in {"na", "pending"}
    BY <1>1, <1>4 DEF InOrder, i
  <2>1. j # i => rows'[j] = rows[j] BY <1>4
  <2>2. /\ j < i => rows[j] \notin {"pending", "running"}
        /\ j > i => rows[j] \in {"na", "pending"}
    BY <1>1 DEF Inv, InOrder, i
  <2>3. (j < i \/ j > i) => j # i BY <1>2, LoopPlaces
  <2> QED BY <2>1, <2>2, <2>3
<1>8. CyclesEnd'
  <2>1. \A j \in TestRows : rows'[j] # "na" <=> rows[j] # "na" BY <1>4
  <2> QED BY <1>1, <2>1, LoopPlaces DEF Inv, CyclesEnd
<1>9. FewFailures' BY <1>1 DEF Inv, FewFailures, Failures
<1>10. CountsAreTrue'
  <2>1. tally' = Tally(rows') BY <1>1, <1>3, <1>4 DEF Inv, CountsAreTrue
  <2>2. \A j \in TestRows : rows'[j] # "na" <=> rows[j] # "na" BY <1>4
  <2> QED BY <1>1, <2>1, <2>2 DEF Inv, CountsAreTrue, Failures
<1> QED BY <1>4, <1>5, <1>6, <1>7, <1>8, <1>9, <1>10 DEF Inv

(* A run of everything goes on with the next row.                          *)
LEMMA AllRowEndsKeeps == ASSUME Inv, AllRowEnds PROVE Inv'
<1> DEFINE i == doing.row
<1>1. /\ doing.loop = "all" /\ on
      /\ doing' = [loop |-> "all", row |-> i + 1]
      /\ UNCHANGED <<selected, burn, asked, ran>>
  BY DEF AllRowEnds, In
<1>2. PICK v \in Verdict(i) : Return(i, v) BY DEF AllRowEnds
<1>3. i \in TestRows /\ i >= 1 /\ rows[i] = "running"
  BY <1>1, LoopPlaces DEF Inv, RunsInPlace
<1> HIDE DEF i
<1>4. /\ rows' \in [TestRows -> States] /\ v \in Verdicts
      /\ tally' \in [passed : 0..Len, failed : 0..Len, na : 0..Len,
                      norun : 0..Len, pending : 0..Len]
      /\ tally' = Tally(rows') /\ on' = FALSE /\ contacted' \in BOOLEAN
      /\ rows'[i] = v
      /\ \A j \in TestRows \ {i} : rows'[j] = rows[j] /\ rows'[j] # "running"
      /\ UNCHANGED <<board, inited, got>>
      /\ GatedRows' /\ VerdictsAreEarned'
  BY <1>2, <1>3, ReturnKeeps
<1>5. TestsTypeOK'
  <2>1. doing' \in [loop : {"idle", "all", "selected", "burn"}, row : 0..Len + 1]
    BY <1>1, <1>3, LoopPlaces
  <2> QED BY <1>1, <1>4, <2>1 DEF Inv, TestsTypeOK
<1>6. RunsInPlace' BY <1>1, <1>3, <1>4, LoopPlaces DEF Inv, RunsInPlace, Verdicts
<1>7. InOrder'
  <2> SUFFICES ASSUME NEW j \in TestRows
               PROVE  /\ j < i + 1 => rows'[j] \notin {"pending", "running"}
                      /\ j >= i + 1 => rows'[j] \in {"na", "pending"}
    BY <1>1, <1>3, <1>4, LoopPlaces DEF InOrder
  <2>1. j < i \/ j = i \/ j > i BY <1>3, LoopPlaces
  <2>2. j < i => rows'[j] \notin {"pending", "running"}
    BY <1>1, <1>3, <1>4, LoopPlaces DEF Inv, InOrder, i
  <2>3. j = i => rows'[j] \notin {"pending", "running"} BY <1>4 DEF Verdicts
  <2>4. j > i => rows'[j] \in {"na", "pending"}
    BY <1>1, <1>3, <1>4, LoopPlaces DEF Inv, InOrder, i
  <2> QED BY <1>3, <2>1, <2>2, <2>3, <2>4, LoopPlaces
<1>8. CyclesEnd' BY <1>1 DEF CyclesEnd
<1>9. FewFailures' BY <1>1 DEF Inv, FewFailures, Failures
<1>10. CountsAreTrue' BY <1>1, <1>4 DEF CountsAreTrue
<1> QED BY <1>4, <1>5, <1>6, <1>7, <1>8, <1>9, <1>10 DEF Inv

(* So does the burn-in, which counts the outcome.                          *)
LEMMA BurnRowEndsKeeps == ASSUME Inv, BurnRowEnds PROVE Inv'
<1> DEFINE i == doing.row
<1>1. /\ doing.loop = "burn" /\ on
      /\ doing' = [loop |-> "burn", row |-> i + 1]
      /\ ran' = [ran EXCEPT ![i] = @ + 1]
      /\ UNCHANGED <<selected, asked>>
  BY DEF BurnRowEnds, In
<1>2. PICK v \in Verdict(i) : Return(i, v) /\ burn' = Score(burn, i, v)
  BY DEF BurnRowEnds
<1>3. i \in TestRows /\ i >= 1 /\ rows[i] = "running" /\ board # Unknown
  BY <1>1, LoopPlaces DEF Inv, RunsInPlace
<1> HIDE DEF i
<1>4. /\ rows' \in [TestRows -> States] /\ v \in Verdicts
      /\ tally' \in [passed : 0..Len, failed : 0..Len, na : 0..Len,
                      norun : 0..Len, pending : 0..Len]
      /\ tally' = Tally(rows') /\ on' = FALSE /\ contacted' \in BOOLEAN
      /\ rows'[i] = v
      /\ \A j \in TestRows \ {i} : rows'[j] = rows[j] /\ rows'[j] # "running"
      /\ UNCHANGED <<board, inited, got>>
      /\ GatedRows' /\ VerdictsAreEarned'
  BY <1>2, <1>3, ReturnKeeps
<1>5. /\ burn \in [cycles : 0..MaxCycles, fails : [TestRows -> Nat], norun : [TestRows -> Nat], total : Nat]
      /\ ran \in [TestRows -> Nat]
  BY DEF Inv, TestsTypeOK
<1> DEFINE more == IF v = "fail" THEN 1 ELSE 0
           none == IF v = "norun" THEN 1 ELSE 0
<1>6. more \in 0..1 /\ none \in 0..1 /\ more + none <= 1 OBVIOUS
<1>7. /\ burn'.cycles = burn.cycles /\ burn'.total = burn.total + more
      /\ burn'.fails = [burn.fails EXCEPT ![i] = @ + more]
      /\ burn'.norun = [burn.norun EXCEPT ![i] = @ + none]
      /\ burn' \in [cycles : 0..MaxCycles, fails : [TestRows -> Nat], norun : [TestRows -> Nat], total : Nat]
  <2>1. burn' = [cycles |-> burn.cycles, fails |-> [burn.fails EXCEPT ![i] = @ + more],
                 norun |-> [burn.norun EXCEPT ![i] = @ + none], total |-> burn.total + more]
    BY <1>2, <1>5 DEF Score
  <2>2. /\ [burn.fails EXCEPT ![i] = @ + more] \in [TestRows -> Nat]
        /\ [burn.norun EXCEPT ![i] = @ + none] \in [TestRows -> Nat]
        /\ burn.total + more \in Nat
    BY <1>3, <1>5, <1>6
  <2> QED BY <1>5, <2>1, <2>2
<1>8. ran' \in [TestRows -> Nat] BY <1>1, <1>3, <1>5
<1>9. TestsTypeOK'
  <2>1. doing' \in [loop : {"idle", "all", "selected", "burn"}, row : 0..Len + 1]
    BY <1>1, <1>3, LoopPlaces
  <2> QED BY <1>1, <1>4, <1>7, <1>8, <2>1 DEF Inv, TestsTypeOK
<1>10. RunsInPlace' BY <1>1, <1>3, <1>4, LoopPlaces DEF Inv, RunsInPlace, Verdicts
<1>11. InOrder'
  <2> SUFFICES ASSUME NEW j \in TestRows
               PROVE  /\ j < i + 1 => rows'[j] \notin {"pending", "running"}
                      /\ j >= i + 1 => rows'[j] \in {"na", "pending"}
    BY <1>1, <1>3, <1>4, LoopPlaces DEF InOrder
  <2>1. j < i \/ j = i \/ j > i BY <1>3, LoopPlaces
  <2>2. j < i => rows'[j] \notin {"pending", "running"}
    BY <1>1, <1>3, <1>4, LoopPlaces DEF Inv, InOrder, i
  <2>3. j = i => rows'[j] \notin {"pending", "running"} BY <1>4 DEF Verdicts
  <2>4. j > i => rows'[j] \in {"na", "pending"}
    BY <1>1, <1>3, <1>4, LoopPlaces DEF Inv, InOrder, i
  <2> QED BY <1>3, <2>1, <2>2, <2>3, <2>4, LoopPlaces
<1>12. CyclesEnd'
  <2>1. burn'.cycles < MaxCycles BY <1>1, <1>7 DEF Inv, CyclesEnd
  <2> QED BY <1>4, <1>7, <2>1, LoopPlaces DEF CyclesEnd
<1>13. IsFiniteSet(Failures(burn'.fails))
       /\ Cardinality(Failures(burn'.fails)) = Cardinality(Failures(burn.fails)) + more
  <2>1. IsFiniteSet(Failures(burn.fails)) BY DEF Inv, FewFailures
  <2>2. CASE more = 1
    <3>1. burn'.fails = [burn.fails EXCEPT ![i] = @ + 1] BY <1>7, <2>2
    <3> QED BY <1>3, <1>5, <2>1, <2>2, <3>1, OneMoreFailure
  <2>3. CASE more = 0
    <3>1. burn'.fails = burn.fails BY <1>3, <1>5, <1>7, <2>3
    <3>2. Cardinality(Failures(burn.fails)) \in Nat BY <2>1, FS_CardinalityType
    <3> QED BY <2>1, <2>3, <3>1, <3>2
  <2> QED BY <1>6, <2>2, <2>3
<1>14. FewFailures' BY <1>13 DEF FewFailures, Failures
<1>15. CountsAreTrue'
  <2>1. burn'.total = Cardinality(Failures(burn'.fails))
    BY <1>1, <1>7, <1>13 DEF Inv, CountsAreTrue
  <2>2. ASSUME NEW j \in TestRows
        PROVE  /\ rows'[j] # "na" => ran'[j] = burn'.cycles + (IF j < doing'.row THEN 1 ELSE 0)
               /\ burn'.fails[j] + burn'.norun[j] <= ran'[j]
    <3>1. /\ rows[j] # "na" => ran[j] = burn.cycles + (IF j < i THEN 1 ELSE 0)
          /\ burn.fails[j] + burn.norun[j] <= ran[j]
          /\ burn.fails[j] \in Nat /\ burn.norun[j] \in Nat /\ ran[j] \in Nat
      BY <1>1, <1>5 DEF Inv, CountsAreTrue, i
    <3>2. CASE j = i
      <4>1. /\ ran'[j] = ran[j] + 1 /\ burn'.fails[j] = burn.fails[j] + more
            /\ burn'.norun[j] = burn.norun[j] + none
        BY <1>1, <1>3, <1>5, <1>7, <3>2
      <4>2. rows[j] # "na" /\ ~(j < i) /\ j < doing'.row
        BY <1>1, <1>3, <3>2, LoopPlaces
      <4>3. ran[j] = burn.cycles BY <3>1, <4>2, LoopPlaces
      <4>4. ran'[j] = burn'.cycles + 1 BY <1>7, <4>1, <4>3
      <4> HIDE DEF more, none
      <4>5. burn'.fails[j] + burn'.norun[j] <= ran'[j] BY <1>6, <3>1, <4>1
      <4> QED BY <4>2, <4>4, <4>5
    <3>3. CASE j # i
      <4>1. /\ ran'[j] = ran[j] /\ burn'.fails[j] = burn.fails[j]
            /\ burn'.norun[j] = burn.norun[j] /\ rows'[j] = rows[j]
        BY <1>1, <1>3, <1>4, <1>5, <1>7, <3>3
      <4>2. j < i <=> j < doing'.row BY <1>1, <1>3, <3>3, LoopPlaces
      <4> QED BY <1>7, <3>1, <4>1, <4>2
    <3> QED BY <3>2, <3>3
  <2> QED BY <1>4, <2>1, <2>2 DEF CountsAreTrue, Failures
<1> QED BY <1>4, <1>9, <1>10, <1>11, <1>12, <1>14, <1>15 DEF Inv

---------------------------------------------------------------------------
(* One row, and the ways out.                                              *)

(* Run Selected runs its row, decided or not: the totals wait for it.      *)
LEMMA RunSelectedKeeps == ASSUME Inv, RunSelected PROVE Inv'
<1> DEFINE i == selected
<1>1. /\ Idle /\ ~on /\ i > 0 /\ Begin(i)
      /\ doing' = [loop |-> "selected", row |-> i]
      /\ UNCHANGED <<board, tally, selected, inited, contacted, burn, asked, ran>>
  BY LoopPlaces DEF RunSelected, In, linkVars
<1>2. i \in TestRows
  <2>1. i \in 0..Len BY DEF Inv, TestsTypeOK
  <2> QED BY <1>1, <2>1, LoopPlaces
<1> HIDE DEF i
<1>3. /\ rows' \in [TestRows -> States] /\ got' \in [TestRows -> Boards]
      /\ on' = TRUE /\ rows'[i] = "running" /\ rows[i] # "na"
      /\ \A j \in TestRows \ {i} : rows'[j] = rows[j] /\ rows'[j] # "running"
      /\ GatedRows' /\ VerdictsAreEarned'
  BY <1>1, <1>2, BeginKeeps
<1>4. TestsTypeOK'
  <2>1. doing' \in [loop : {"idle", "all", "selected", "burn"}, row : 0..Len + 1]
    BY <1>1, <1>2, LoopPlaces
  <2> QED BY <1>1, <1>3, <2>1 DEF Inv, TestsTypeOK
<1>5. RunsInPlace' BY <1>1, <1>2, <1>3 DEF RunsInPlace
<1>6. InOrder' /\ CyclesEnd' BY <1>1 DEF InOrder, CyclesEnd
<1>7. FewFailures' BY <1>1 DEF Inv, FewFailures, Failures
<1>8. CountsAreTrue' BY <1>1 DEF CountsAreTrue
<1> QED BY <1>3, <1>4, <1>5, <1>6, <1>7, <1>8 DEF Inv

(* Back from it the totals are those of the list.                          *)
LEMMA SelectedEndsKeeps == ASSUME Inv, SelectedEnds PROVE Inv'
<1> DEFINE i == doing.row
<1>1. /\ doing.loop = "selected" /\ on
      /\ doing' = [loop |-> "idle", row |-> 0]
      /\ UNCHANGED <<selected, burn, asked, ran>>
  BY DEF SelectedEnds, In, Inv, RunsInPlace
<1>2. PICK v \in Verdict(i) : Return(i, v) BY DEF SelectedEnds
<1>3. i \in TestRows /\ rows[i] = "running" BY <1>1 DEF Inv, RunsInPlace
<1> HIDE DEF i
<1>4. /\ rows' \in [TestRows -> States] /\ v \in Verdicts
      /\ tally' \in [passed : 0..Len, failed : 0..Len, na : 0..Len,
                      norun : 0..Len, pending : 0..Len]
      /\ tally' = Tally(rows') /\ on' = FALSE /\ contacted' \in BOOLEAN
      /\ rows'[i] = v
      /\ \A j \in TestRows \ {i} : rows'[j] = rows[j] /\ rows'[j] # "running"
      /\ UNCHANGED <<board, inited, got>>
      /\ GatedRows' /\ VerdictsAreEarned'
  BY <1>2, <1>3, ReturnKeeps
<1>5. TestsTypeOK'
  <2>1. doing' \in [loop : {"idle", "all", "selected", "burn"}, row : 0..Len + 1]
    BY <1>1, LoopPlaces
  <2> QED BY <1>1, <1>4, <2>1 DEF Inv, TestsTypeOK
<1>6. RunsInPlace' BY <1>1, <1>3, <1>4 DEF RunsInPlace, Verdicts
<1>7. InOrder' /\ CyclesEnd' BY <1>1 DEF InOrder, CyclesEnd
<1>8. FewFailures' BY <1>1 DEF Inv, FewFailures, Failures
<1>9. CountsAreTrue' BY <1>1, <1>4 DEF CountsAreTrue
<1> QED BY <1>4, <1>5, <1>6, <1>7, <1>8, <1>9 DEF Inv

(* A loop that ends, by itself or by an Esc, between two tests.            *)
LEMMA LoopEndsKeeps == ASSUME Inv, AllEnds \/ BurnStops PROVE Inv'
<1>1. /\ doing.loop \in {"all", "burn"} /\ ~on
      /\ doing' = [loop |-> "idle", row |-> 0]
      /\ UNCHANGED <<board, rows, tally, on, inited, contacted, got>>
  BY LoopPlaces DEF AllEnds, BurnStops, In, linkVars, Inv, RunsInPlace
<1>2. \/ selected' = 1 /\ UNCHANGED <<burn, asked, ran>>
      \/ asked' = FALSE /\ burn' = NoBurn /\ ran' = NoRun /\ UNCHANGED selected
  BY DEF AllEnds, BurnStops
<1>3. NoRun \in [TestRows -> Nat] BY DEF NoRun
<1>4. TestsTypeOK'
  <2>1. doing' \in [loop : {"idle", "all", "selected", "burn"}, row : 0..Len + 1]
    BY <1>1, LoopPlaces
  <2>2. selected' \in 0..Len
    <3>1. selected \in 0..Len BY DEF Inv, TestsTypeOK
    <3> QED BY <1>2, <3>1, LoopPlaces
  <2>3. burn' \in [cycles : 0..MaxCycles, fails : [TestRows -> Nat], norun : [TestRows -> Nat], total : Nat]
    <3>1. NoBurn \in [cycles : 0..MaxCycles, fails : [TestRows -> Nat], norun : [TestRows -> Nat], total : Nat]
      BY <1>3, LoopPlaces DEF NoBurn
    <3> QED BY <1>2, <3>1 DEF Inv, TestsTypeOK
  <2>4. asked' \in BOOLEAN /\ ran' \in [TestRows -> Nat] BY <1>2, <1>3 DEF Inv, TestsTypeOK
  <2> QED BY <1>1, <2>1, <2>2, <2>3, <2>4 DEF Inv, TestsTypeOK
<1>5. RunsInPlace' BY <1>1 DEF Inv, RunsInPlace
<1>6. InOrder' /\ CyclesEnd' BY <1>1 DEF InOrder, CyclesEnd
<1>7. GatedRows' /\ VerdictsAreEarned' BY <1>1 DEF Inv, GatedRows, VerdictsAreEarned
<1>8. FewFailures'
  <2>1. IsFiniteSet(Failures(burn.fails)) /\ IsFiniteSet(Failures(NoBurn.fails))
    BY NoFailure DEF Inv, FewFailures, NoBurn
  <2>2. burn' = burn \/ burn' = NoBurn BY <1>2
  <2>3. IsFiniteSet(Failures(burn'.fails)) BY <2>1, <2>2
  <2> QED BY <2>3 DEF FewFailures, Failures
<1>9. CountsAreTrue' BY <1>1 DEF Inv, CountsAreTrue
<1> QED BY <1>4, <1>5, <1>6, <1>7, <1>8, <1>9 DEF Inv

(* A choice on the desktop, a key, or nothing.                             *)
LEMMA ChoiceKeeps ==
  ASSUME Inv, Select \/ Esc \/ UNCHANGED testsVars
  PROVE  Inv'
<1>1. /\ UNCHANGED <<board, rows, tally, doing, on, inited, contacted, burn, got, ran>>
      /\ selected' \in 0..Len /\ asked' \in BOOLEAN
  BY DEF Select, Esc, testsVars, linkVars, Inv, TestsTypeOK
<1>2. TestsTypeOK' BY <1>1 DEF Inv, TestsTypeOK
<1>3. RunsInPlace' /\ InOrder' BY <1>1 DEF Inv, RunsInPlace, InOrder
<1>4. GatedRows' /\ VerdictsAreEarned' BY <1>1 DEF Inv, GatedRows, VerdictsAreEarned
<1>5. CyclesEnd' BY <1>1 DEF Inv, CyclesEnd
<1>6. FewFailures' /\ CountsAreTrue' BY <1>1 DEF Inv, FewFailures, CountsAreTrue, Failures
<1> QED BY <1>2, <1>3, <1>4, <1>5, <1>6 DEF Inv

---------------------------------------------------------------------------
(* The whole.                                                              *)

(* main() starts with a list nobody ran.                                   *)
LEMMA InitInv == ASSUME TestsInit PROVE Inv
<1>0. Len \in Nat \ {0} /\ TestRows = 1..Len /\ MaxCycles \in Nat \ {0} /\ Unknown \in Boards
  BY TestsAssumption DEF TestRows
<1>1. /\ board \in Boards /\ rows = Prepared(board) /\ tally = Tally(rows)
      /\ doing = IF board = Unknown THEN [loop |-> "idle", row |-> 0] ELSE [loop |-> "all", row |-> 1]
      /\ on = FALSE /\ selected = 0 /\ contacted = FALSE /\ asked = FALSE
      /\ burn = NoBurn /\ got = [i \in TestRows |-> Unknown] /\ ran = NoRun
  BY DEF TestsInit, In
<1>2. NoRun \in [TestRows -> Nat] /\ \A i \in TestRows : NoRun[i] = 0 BY DEF NoRun
<1>3. inited \in BOOLEAN
  <2>1. (Link \in Claimed[board]) \in BOOLEAN OBVIOUS
  <2> QED BY <2>1 DEF TestsInit
<1>4. TestsTypeOK
  <2>1. rows \in [TestRows -> States] BY <1>1, PreparedRows
  <2>2. tally \in [passed : 0..Len, failed : 0..Len, na : 0..Len,
                   norun : 0..Len, pending : 0..Len]
    BY <1>1, TallyType
  <2>3. doing \in [loop : {"idle", "all", "selected", "burn"}, row : 0..Len + 1]
    BY <1>0, <1>1
  <2>4. burn \in [cycles : 0..MaxCycles, fails : [TestRows -> Nat], norun : [TestRows -> Nat], total : Nat]
    BY <1>0, <1>1, <1>2 DEF NoBurn
  <2>5. got \in [TestRows -> Boards] /\ selected \in 0..Len BY <1>0, <1>1
  <2> QED BY <1>1, <1>2, <1>3, <2>1, <2>2, <2>3, <2>4, <2>5 DEF TestsTypeOK
<1>5. /\ \A i \in TestRows : rows[i] \in {"na", "norun", "pending"}
      /\ board # Unknown => \A i \in TestRows : rows[i] = IF Lacks(board, i) THEN "na" ELSE "pending"
  BY <1>1, PreparedRows
<1>6. RunsInPlace BY <1>1, <1>5 DEF RunsInPlace
<1>7. InOrder BY <1>0, <1>1, <1>5 DEF InOrder
<1>8. GatedRows /\ VerdictsAreEarned BY <1>5 DEF GatedRows, VerdictsAreEarned
<1>9. CyclesEnd BY <1>1 DEF CyclesEnd
<1>10. FewFailures BY <1>1, NoFailure DEF FewFailures, NoBurn
<1>11. CountsAreTrue BY <1>1 DEF CountsAreTrue
<1> QED BY <1>4, <1>6, <1>7, <1>8, <1>9, <1>10, <1>11 DEF Inv

(* Every step keeps the invariant.                                         *)
LEMMA NextInv == ASSUME Inv, [TestsNext]_testsVars PROVE Inv'
<1>1. CASE Work
  BY <1>1, SkipKeeps, LoopRowKeeps, AllRowEndsKeeps, LoopEndsKeeps, SelectedEndsKeeps,
     BurnRowEndsKeeps, BurnCycleEndsKeeps DEF Work
<1>2. CASE User
  BY <1>2, RunAllKeeps, RunSelectedKeeps, ChoiceKeeps, BurnInKeeps, SetBoardKeeps
  DEF User, RunAllCommand
<1>3. CASE SlaveAppears BY <1>3, RunAllKeeps DEF SlaveAppears
<1>4. CASE UNCHANGED testsVars BY <1>4, ChoiceKeeps
<1> QED BY <1>1, <1>2, <1>3, <1>4 DEF TestsNext

(* The invariant holds in every reachable state.                           *)
THEOREM Invariance == TestsSpec => []Inv
<1>1. TestsInit => Inv BY InitInv
<1>2. Inv /\ [TestsNext]_testsVars => Inv' BY NextInv
<1> QED BY <1>1, <1>2, PTL DEF TestsSpec

(* What the list says is so, for any list of tests, any boards and any     *)
(* number of cycles: the totals are those of the rows drawn with them, the *)
(* burn-in counts each row once per cycle and its headline is the number   *)
(* of failures there were, and no verdict outlives the board it was had    *)
(* on or comes from hardware that board has not got.                       *)
THEOREM RowsStayHonest == TestsSpec => []RowsAreHonest
<1>1. Inv => RowsAreHonest BY DEF Inv, RowsAreHonest
<1> QED BY <1>1, Invariance, PTL

(* A run of everything can only end with every row decided and none        *)
(* counted as pending.                                                     *)
THEOREM EveryRowIsTried == TestsSpec => NothingLeft
<1>1. ASSUME Inv, [TestsNext]_testsVars, doing.loop = "all", Idle'
      PROVE  tally'.pending = 0 /\ \A i \in TestRows : rows'[i] \notin {"pending", "running"}
  <2>1. AllEnds
    BY <1>1 DEF TestsNext, Work, User, Skip, AllRow, AllRowEnds, SelectedEnds, BurnRow, BurnStops,
       BurnRowEnds, BurnCycleEnds, RunAllCommand, RunSelected, Select, BurnIn, Esc, SetBoard,
       SlaveAppears, Idle, In, testsVars
  <2>2. doing.row > Len /\ UNCHANGED <<rows, tally>> BY <2>1 DEF AllEnds
  <2>3. \A i \in TestRows : i < doing.row BY <2>2, <1>1, LoopPlaces
  <2>4. \A i \in TestRows : rows[i] \notin {"pending", "running"}
    BY <1>1, <2>3 DEF Inv, InOrder
  <2>5. tally.pending = 0
    BY <1>1, <2>4, TallyDecided DEF Inv, CountsAreTrue
  <2> QED BY <2>2, <2>4, <2>5
<1>2. Inv /\ [TestsNext]_testsVars =>
        [doing.loop = "all" /\ Idle' =>
           tally'.pending = 0 /\ \A i \in TestRows : rows'[i] \notin {"pending", "running"}]_testsVars
  BY <1>1
<1> QED BY <1>2, Invariance, PTL DEF TestsSpec, NothingLeft
=============================================================================
