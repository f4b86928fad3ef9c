------------------------------ MODULE Desktop ------------------------------
(***************************************************************************)
(* The desktop: the menu bar, the list of tests with its scroll bar, and   *)
(* what has the keyboard when (app/main.c, ui/ui_desktop.c, ui/ui_menu.c), *)
(* or the text page that takes its place (ui/ui_textpage.c).  One pass of  *)
(* the event loop is five steps: pointer, wheel, key, poll, draw.  Heights *)
(* are in half rows: a plain row is 2, one whose detail wraps 3.           *)
(***************************************************************************)
EXTENDS Naturals, Sequences, FiniteSets, FiniteSetsExt

CONSTANTS
  Tests,      \* the rows of the list
  Window,     \* the height of its window: a whole number of plain rows
  PageLines,  \* the rows the text page has room for
  Descs,      \* boards, as gate_menus reads their descriptors
  Details,    \* bound: the details each row may come to have
  Narrating,  \* the rows that show a status line while they run
  Outputs     \* what the interface may be drawn on: "desk", "page"

(* The firmware's window and its page have room for some twenty rows each.   *)
ASSUME DeskAssumption ==
  /\ Tests \in Nat \ {0} /\ PageLines \in Nat \ {0}
  /\ Window \in Nat /\ Window >= 4
  /\ Outputs \in (SUBSET {"desk", "page"}) \ {{}}

(* A detail fits, wraps only where the scroll bar takes its width, or wraps. *)
Kinds == {"plain", "tight", "long"}

(* The menus, as <<command, key>>; the key is "" where there is none.        *)
Sep == <<"none", "">>
MarkItems == << <<"about", "">>, Sep, <<"help", "">>, <<"board_info", "I">>, <<"show_sig", "">> >>
FileItems == << <<"overclock", "">>, <<"report", "">>, <<"console", "">>, Sep, <<"restart", "R">>, <<"bootsel", "">> >>
BoardItems == << <<"set_board", "S">> >>
VideoItems == << <<"auto", "">>, Sep, <<"hdmi", "H">>, <<"vga", "V">>, <<"composite", "C">>, Sep, <<"testcard", "T">> >>
AudioItems == << <<"pwm", "P">>, <<"i2s", "2">>, <<"ts", "U">>, <<"pcm", "M">> >>
TestsItems == << <<"run_all", "A">>, <<"run_selected", "E">>, <<"burnin", "">>, Sep, <<"nespad", "G">>,
                 <<"ps2", "K">>, <<"keys", "Y">>, <<"led", "L">>, <<"tape", "N">> >>
Menus == << [alt |-> "A", items |-> MarkItems], [alt |-> "F", items |-> FileItems],
            [alt |-> "B", items |-> BoardItems], [alt |-> "V", items |-> VideoItems],
            [alt |-> "U", items |-> AudioItems], [alt |-> "T", items |-> TestsItems] >>
Cmd(m, i) == Menus[m].items[i][1]
Key(m, i) == Menus[m].items[i][2]
Items(m) == DOMAIN Menus[m].items

VARIABLES
  desc,                    \* the board in force
  out,                     \* what the interface is drawn on
  kinds, first, sel,       \* the details; rows scrolled off; selected row or 0
  geom, pfirst,            \* what the last draw laid out; the page's own scroll
  fresh, dirty, menuOnly,  \* whether the screen shows the list; the loop's two flags
  open, hl,                \* the open menu and its highlighted item, or 0
  at, resume, cur,         \* where the program is, comes back to, and the row that runs
  modal,                   \* what has the keyboard instead of the loop
  seated                   \* the list was last moved for the selection's sake
list == <<kinds, first, sel>>
drawn == <<geom, pfirst, fresh, dirty, menuOnly>>
flow == <<at, resume, cur, modal>>
deskVars == <<desc, out, list, drawn, open, hl, flow, seated>>

---------------------------------------------------------------------------
(* Menus                                                                   *)

(* gate_menus.                                                             *)
ByName == {"pwm", "i2s", "ts", "pcm", "nespad", "ps2", "led", "tape"}
Video == {"hdmi", "vga", "composite"}
Gated == ByName \cup Video \cup {"report"}
Enabled(c) ==
  CASE c \in ByName -> desc.known /\ c \in desc.has
    [] c \in Video  -> c \in desc.has /\ c # desc.mode
    [] c = "report" -> "sd" \in desc.has
    [] c \notin Gated -> c # "none"

Selectable(m, i) == i \in Items(m) /\ Enabled(Cmd(m, i))
Selectables(m) == {i \in Items(m) : Selectable(m, i)}
FirstSelectable(m) == IF Selectables(m) = {} THEN 0 ELSE Min(Selectables(m))

(* ui_menubar_move from item h on, by one way or the other: the next that   *)
(* can be selected, round the ends.                                         *)
Wrapped(m, i) == ((i - 1) % Len(Menus[m].items)) + 1
Reached(m, h, up, steps) ==
  LET n == Len(Menus[m].items) IN Wrapped(m, IF up THEN h + n - steps ELSE h + steps)
Step(m, h, up) ==
  IF h = 0 THEN FirstSelectable(m)
  ELSE LET hits == {s \in 1..Len(Menus[m].items) : Selectable(m, Reached(m, h, up, s))}
       IN IF hits = {} THEN 0 ELSE Reached(m, h, up, Min(hits))

(* cmd_for_key: the first enabled item, in the order of the bar.            *)
Drawn(k) == {p \in UNION {{m} \X Items(m) : m \in DOMAIN Menus} : Key(p[1], p[2]) = k}
Letters == (UNION {{Key(m, i) : i \in Items(m)} : m \in DOMAIN Menus}) \ {""}
DrawnBeside == [k \in Letters |-> Drawn(k)]
CmdForKey(k) ==
  LET found == {p \in DrawnBeside[k] : Enabled(Cmd(p[1], p[2]))}
      firsts == {p \in found : \A q \in found : p[1] < q[1] \/ (p[1] = q[1] /\ p[2] <= q[2])}
  IN IF found = {} THEN "none" ELSE Cmd((CHOOSE p \in firsts : TRUE)[1], (CHOOSE p \in firsts : TRUE)[2])

---------------------------------------------------------------------------
(* The list                                                                *)

Wraps(ks, i, w) == ks[i] = "long" \/ (ks[i] = "tight" /\ w = "bar")
Height(ks, rows, w) == 2 * Cardinality(rows) + Cardinality({i \in rows : Wraps(ks, i, w)})

(* draw_results_window.  Every row that starts in the window is drawn.      *)
Laid(ks, f) ==
  LET w == IF f > 0 \/ Height(ks, 1..Tests, "full") > Window THEN "bar" ELSE "full"
  IN [w |-> w, count |-> Cardinality({i \in (f + 1)..Tests : Height(ks, (f + 1)..(i - 1), w) < Window})]

(* ui_desktop_first_showing, at the width of the last draw.  A slip: the    *)
(* rows counted, the part-drawn one among them.                             *)
FirstCounting(i) ==
  IF i <= first THEN i - 1 ELSE Max({first, i - geom.count})
FirstShowing(i) ==
  IF i <= first THEN i - 1
  ELSE Max({first, Min({f \in 0..(i - 1) : Height(kinds, (f + 1)..i, geom.w) <= Window})})

MaxFirst == IF Tests > geom.count THEN Tests - geom.count ELSE 0
Clamped(f) == IF f > MaxFirst THEN MaxFirst ELSE f

(* ui_textpage_draw's window on the list.                                   *)
PageFirst(s, f) ==
  LET a == IF s - 1 < f THEN (IF s = 0 THEN 0 ELSE s - 1) ELSE f
      b == IF s > a + PageLines THEN s - PageLines ELSE a
  IN  IF Tests < PageLines THEN 0 ELSE Min({b, Tests - PageLines})

(* redraw, and paint_desktop under a dialog.                                *)
Draws ==
  /\ geom' = Laid(kinds', first') /\ fresh' = "yes" /\ dirty' = FALSE
  /\ pfirst' = IF out = "page" /\ open' = 0 THEN PageFirst(sel', pfirst) ELSE pfirst
  /\ UNCHANGED menuOnly
(* redraw_menu_area: the list is laid out, but not painted; a text page is  *)
(* drawn whole.                                                             *)
DrawsMenus ==
  /\ geom' = Laid(kinds, first) /\ dirty' = FALSE
  /\ fresh' = IF out = "page" THEN "yes" ELSE IF fresh = "no" THEN "clipped" ELSE fresh
  /\ pfirst' = IF out = "page" /\ open = 0 THEN PageFirst(sel, pfirst) ELSE pfirst
Unpainted == fresh' = "no" /\ UNCHANGED <<geom, pfirst, menuOnly>>
Touched == dirty' = TRUE /\ UNCHANGED <<geom, pfirst, fresh, menuOnly>>
---------------------------------------------------------------------------
(* Commands (do_command), called with the menus closed.  "after" is where   *)
(* the pass goes on; a press sets the dirty flag once its command returns.  *)

Goes(to) == at' = to /\ UNCHANGED <<resume, cur, modal>>
NotNa(i) == i \in 1..Tests /\ i \notin desc.na
Following(i) == IF \E j \in (i + 1)..Tests : NotNa(j)
                THEN Min({j \in (i + 1)..Tests : NotNa(j)}) ELSE 0

(* registry_prepare, and the redraw; an unidentified board runs nothing.    *)
RunAll(after) ==
  /\ kinds' = [i \in 1..Tests |-> "plain"] /\ UNCHANGED <<first, sel, seated>>
  /\ Draws
  /\ IF desc.known /\ Following(0) # 0
     THEN at' = "follow" /\ cur' = Following(0) /\ resume' = after /\ UNCHANGED modal
     ELSE Goes(after)

(* A test with a status line redraws while it runs, and nobody does when it *)
(* has ended: test_progress's redraw has taken the flag.                    *)
RunSelected(after) ==
  /\ \/ /\ NotNa(sel)
        /\ \E k \in Details[sel] : kinds' = [kinds EXCEPT ![sel] = k]
        /\ IF sel \in Narrating
           THEN /\ geom' = Laid([kinds EXCEPT ![sel] = "plain"], first)
                /\ fresh' = "narrated" /\ dirty' = (after = "wheel")
                /\ UNCHANGED <<pfirst, menuOnly>>
           ELSE Unpainted /\ dirty' = TRUE
        /\ seated' = FALSE
     \/ ~NotNa(sel) /\ Touched /\ UNCHANGED <<kinds, seated>>
  /\ Goes(after) /\ UNCHANGED <<first, sel>>

(* show_dialog, the dlg_* panels, the test card, and the picker.            *)
Panels == {"about", "help", "board_info", "show_sig", "overclock", "report", "console",
           "testcard", "burnin", "nespad", "ps2", "keys", "led", "tape", "pwm", "i2s", "ts", "pcm"}
Modal(c, after) ==
  /\ at' = "modal" /\ modal' = (IF c \in {"set_board", "burnin"} THEN c ELSE "panel")
  /\ resume' = after /\ UNCHANGED <<cur, list, seated>>
  /\ IF c = "testcard" THEN Unpainted /\ UNCHANGED dirty ELSE Draws

Boots ==
  /\ first' = 0 /\ sel' = 0 /\ kinds' = [i \in 1..Tests |-> "plain"]
  /\ geom' = Laid(kinds', 0) /\ pfirst' = 0
  /\ fresh' = "yes" /\ dirty' = TRUE /\ menuOnly' = FALSE /\ seated' = FALSE
  /\ at' = "tests" /\ resume' = "pointer" /\ cur' = 0 /\ modal' = "none"

Do(c, after) ==
  \/ c = "run_all" /\ RunAll(after)
  \/ c = "run_selected" /\ RunSelected(after)
  \/ c \in Panels \cup {"set_board"} /\ Modal(c, after)
  \/ c \in {"restart", "bootsel", "auto"} \cup Video /\ Boots
  \/ c = "none" /\ Touched /\ Goes(after) /\ UNCHANGED <<list, seated>>

ClosesMenu == open' = 0 /\ hl' = 0

---------------------------------------------------------------------------
(* The loop: the pointer.                                                  *)

(* Up to the first run of everything.                                      *)
BootRun ==
  /\ at = "tests" /\ UNCHANGED <<desc, out, open, hl>> /\ RunAll("pointer")

NoPress == at = "pointer" /\ Goes(IF out = "desk" THEN "wheel" ELSE "key")
        /\ UNCHANGED <<desc, out, list, drawn, open, hl, seated>>
Pointed == at = "pointer" /\ out = "desk" /\ UNCHANGED <<desc, out>>

Hover ==
  /\ Pointed /\ Goes("wheel") /\ Touched
  /\ \/ open # 0 /\ hl' \in Selectables(open)
     \/ UNCHANGED hl
  /\ UNCHANGED <<list, open, seated>>

Toggled(m) ==
  /\ open' = IF m = open THEN 0 ELSE m
  /\ hl' = IF m = open THEN 0 ELSE FirstSelectable(m)

PressTitle(m) ==
  /\ Pointed /\ Goes("wheel") /\ Touched /\ Toggled(m)
  /\ UNCHANGED <<list, seated>>
PressItem(i) ==
  /\ Pointed /\ open # 0 /\ Selectable(open, i)
  /\ ClosesMenu /\ Do(Cmd(open, i), "wheel")
PressAway ==
  /\ Pointed /\ Goes("wheel") /\ Touched
  /\ ClosesMenu /\ UNCHANGED <<list, seated>>

(* ui_desktop_scroll_hit: the arrows, and the thumb anywhere.               *)
BarTargets == {Clamped(f) : f \in 0..MaxFirst \cup {first + 1} \cup ({first - 1} \cap Nat)}
Scrolls(f) ==
  /\ first' = f /\ UNCHANGED <<kinds, sel>>
  /\ seated' = (seated /\ f = first)
PressBar(f) ==
  /\ Pointed /\ open = 0 /\ geom.w = "bar" /\ Goes("wheel")
  /\ Scrolls(f) /\ Unpainted /\ dirty' = TRUE /\ UNCHANGED <<open, hl>>
PressRow(k) ==
  /\ Pointed /\ open = 0 /\ first + k <= Tests /\ Goes("wheel")
  /\ sel' = first + k /\ seated' = FALSE
  /\ Unpainted /\ dirty' = TRUE /\ UNCHANGED <<kinds, first, open, hl>>
Drag(f) ==
  /\ Pointed /\ geom.w = "bar" /\ f # first /\ Goes("wheel")
  /\ Scrolls(f) /\ Unpainted /\ dirty' = TRUE /\ UNCHANGED <<open, hl>>

(* scroll_by.                                                               *)
Wheel ==
  /\ at = "wheel" /\ Goes("key")
  /\ \/ /\ \E f \in {Clamped(first + 1), Clamped(first), IF first = 0 THEN 0 ELSE Clamped(first - 1)} :
             Scrolls(f) /\ Unpainted /\ dirty' = TRUE
     \/ UNCHANGED <<list, drawn, seated>>
  /\ UNCHANGED <<desc, out, open, hl>>

---------------------------------------------------------------------------
(* The loop: the keyboard.                                                 *)

NoKey == at = "key" /\ Goes("poll")
      /\ UNCHANGED <<desc, out, list, drawn, open, hl, seated>>
Typed == at = "key" /\ UNCHANGED <<desc, out>>
MenuKey == Goes("poll") /\ dirty' = TRUE /\ menuOnly' = TRUE
        /\ UNCHANGED <<list, geom, pfirst, fresh, seated>>

F1 == Typed /\ ClosesMenu /\ Do("help", "poll")
AltLetter(m) == Typed /\ Toggled(m) /\ MenuKey

MenuEsc == Typed /\ open # 0 /\ ClosesMenu /\ MenuKey
MenuUpDown(up) == Typed /\ open # 0 /\ hl' = Step(open, hl, up) /\ MenuKey /\ UNCHANGED open
MenuSideways(d) ==
  /\ Typed /\ open # 0 /\ MenuKey
  /\ open' = ((open - 1 + d) % Len(Menus)) + 1 /\ hl' = FirstSelectable(open')
(* ui_menubar_current_cmd: no command unless the item can be selected.      *)
CurrentCmd == IF Selectable(open, hl) THEN Cmd(open, hl) ELSE "none"
MenuEnter == Typed /\ open # 0 /\ ClosesMenu /\ Do(CurrentCmd, "poll")

Letter(k) ==
  /\ Typed
  /\ LET c == CmdForKey(k) IN
       IF c = "none" THEN Goes("poll") /\ Touched /\ UNCHANGED <<list, open, hl, seated>>
       ELSE ClosesMenu /\ Do(c, "poll")

Selects(i) ==
  /\ Goes("poll") /\ sel' = i /\ first' = FirstShowing(i)
  /\ seated' = (fresh \in {"yes", "clipped"})
  /\ Unpainted /\ dirty' = TRUE /\ UNCHANGED <<kinds, open, hl>>
(* move_selection: the first key only selects.                              *)
Moved(down, n) ==
  IF sel = 0 THEN 1
  ELSE IF down THEN (IF sel + n > Tests THEN Tests ELSE sel + n)
  ELSE IF sel > n THEN sel - n ELSE 1
Shown == IF geom.count = 0 THEN 1 ELSE geom.count
ListKey ==
  /\ Typed /\ open = 0
  /\ \E i \in {Moved(d, n) : d \in BOOLEAN, n \in {1, Shown}} \cup {1, Tests} : Selects(i)
ListEnter == Typed /\ open = 0 /\ ClosesMenu /\ Do("run_selected", "poll")
ListEsc ==
  /\ Typed /\ open = 0 /\ Goes("poll") /\ sel' = 0
  /\ Unpainted /\ dirty' = TRUE /\ UNCHANGED <<kinds, first, open, hl, seated>>

---------------------------------------------------------------------------
(* The loop: a slave that appears, and the draw.                           *)

Poll ==
  /\ at = "poll" /\ UNCHANGED <<desc, out, open, hl>> /\ RunAll("draw")

DrawIfDirty ==
  /\ at \in {"poll", "draw"} /\ Goes("pointer") /\ UNCHANGED <<desc, out, list, open, hl, seated>>
  /\ IF ~dirty THEN UNCHANGED drawn
     ELSE /\ menuOnly' = FALSE
          /\ IF menuOnly THEN DrawsMenus
             ELSE /\ geom' = Laid(kinds, first) /\ fresh' = "yes" /\ dirty' = FALSE
                  /\ pfirst' = IF out = "page" /\ open = 0 THEN PageFirst(sel, pfirst) ELSE pfirst

---------------------------------------------------------------------------
(* run_all's loop, and what has the keyboard instead of the event loop.    *)

Follow ==
  /\ at = "follow" /\ Goes("result")
  /\ sel' = cur /\ first' = FirstShowing(cur) /\ UNCHANGED kinds
  /\ UNCHANGED <<desc, out, open, hl>> /\ Draws /\ seated' = TRUE
Result ==
  /\ at = "result"
  /\ \E k \in Details[cur] : kinds' = [kinds EXCEPT ![cur] = k]
  /\ UNCHANGED <<desc, out, first, sel, open, hl, resume, modal>>
  /\ Draws /\ seated' = FALSE
  /\ cur' = Following(cur) /\ at' = (IF cur' = 0 THEN "finish" ELSE "follow")
Returned == at' = resume /\ resume' = "pointer" /\ modal' = "none" /\ UNCHANGED cur
(* After a press the flag is set once more.                                 *)
DrawsBack ==
  /\ geom' = Laid(kinds', first') /\ fresh' = "yes" /\ dirty' = (resume = "wheel")
  /\ pfirst' = IF out = "page" /\ open = 0 THEN PageFirst(sel', pfirst) ELSE pfirst
  /\ UNCHANGED menuOnly
Finish ==
  /\ at = "finish" /\ Returned
  /\ sel' = 1 /\ first' = 0 /\ seated' = TRUE /\ UNCHANGED kinds
  /\ DrawsBack /\ UNCHANGED <<desc, out, open, hl>>

CloseModal ==
  /\ at = "modal" /\ Returned
  /\ IF modal = "burnin"
     THEN kinds' \in {k \in [1..Tests -> Kinds] : \A i \in 1..Tests :
                          k[i] = kinds[i] \/ (NotNa(i) /\ k[i] \in Details[i])}
          /\ seated' = FALSE
     ELSE UNCHANGED <<kinds, seated>>
  /\ UNCHANGED <<desc, out, first, sel, open, hl>> /\ DrawsBack
(* set_board_dialog: registry_prepare and gate_menus.                       *)
PickBoard(d) ==
  /\ at = "modal" /\ modal = "set_board" /\ Returned
  /\ desc' = d /\ kinds' = [i \in 1..Tests |-> "plain"]
  /\ UNCHANGED <<out, first, sel, open, hl, seated>> /\ DrawsBack

---------------------------------------------------------------------------
DeskInit(boards, outs) ==
  /\ desc \in boards /\ out \in outs
  /\ kinds = [i \in 1..Tests |-> "plain"] /\ first = 0 /\ sel = 0
  /\ geom = Laid(kinds, 0) /\ pfirst = 0
  /\ fresh = "yes" /\ dirty = TRUE /\ menuOnly = FALSE
  /\ open = 0 /\ hl = 0 /\ seated = FALSE
  /\ at = "tests" /\ resume = "pointer" /\ cur = 0 /\ modal = "none"

DeskNext ==
  \/ BootRun \/ NoPress \/ Hover \/ PressAway \/ Wheel
  \/ \E m \in DOMAIN Menus : PressTitle(m) \/ AltLetter(m)
  \/ \E i \in 1..9 : PressItem(i)
  \/ \E f \in BarTargets : PressBar(f) \/ Drag(f)
  \/ \E k \in 1..geom.count : PressRow(k)
  \/ NoKey \/ F1 \/ MenuEsc \/ MenuEnter \/ ListKey \/ ListEnter \/ ListEsc
  \/ \E up \in BOOLEAN : MenuUpDown(up)
  \/ \E d \in {1, Len(Menus) - 1} : MenuSideways(d)
  \/ \E k \in Letters : Letter(k)
  \/ Poll \/ DrawIfDirty \/ Follow \/ Result \/ Finish \/ CloseModal
  \/ \E d \in Descs : PickBoard(d)

---------------------------------------------------------------------------
DeskTypeOK ==
  /\ desc \in Descs /\ out \in Outputs
  /\ kinds \in [1..Tests -> Kinds] /\ first \in 0..(Tests - 1) /\ sel \in 0..Tests
  /\ geom \in [w : {"full", "bar"}, count : 1..Tests] /\ pfirst \in 0..Tests
  /\ fresh \in {"yes", "no", "clipped", "narrated"} /\ {dirty, menuOnly, seated} \subseteq BOOLEAN
  /\ open \in 0..Len(Menus) /\ (open = 0 => hl = 0)
  /\ at \in {"tests", "pointer", "wheel", "key", "poll", "draw", "follow", "result", "finish", "modal"}
  /\ cur \in 0..Tests

(* "Rows may be clipped by the bottom edge, but never the selected one"      *)
(* (ui_desktop.h:156): what the keyboard selects and what a run is at are    *)
(* drawn in full, though the scroll was worked out at the width of the draw  *)
(* before, and the draw after it may wrap more rows.                         *)
SelectionIsWhole ==
  (at = "pointer" /\ seated /\ sel # 0) \/ at = "result" =>
    first < sel /\ Height(kinds, (first + 1)..sel, geom.w) <= Window

(* When the loop rests the list on the screen is the list: no way to change  *)
(* it forgets to draw - but for a redraw of the menus alone, and the end of  *)
(* a test that has shown a status line.                                      *)
ListIsDrawn == at = "pointer" => fresh # "no"

(* The text page shows the selected row.                                     *)
PageShowsSelection ==
  at = "pointer" /\ out = "page" /\ open = 0 /\ sel # 0 /\ fresh = "yes" =>
    pfirst < sel /\ sel <= pfirst + PageLines

(* "Every command in the menu bar is reachable without a pointer"            *)
(* (main.c:1204), on every board: an open menu highlights something if it    *)
(* can, Down comes past all it offers, and a key is that of the item it is   *)
(* drawn beside.                                                             *)
Downs(m, h) ==
  LET f[n \in 0..9] == IF n = 0 THEN h ELSE Step(m, f[n - 1], FALSE)
  IN {f[n] : n \in 0..9}
MenusReachAll ==
  at = "pointer" /\ open # 0 =>
    /\ hl \in Selectables(open) \cup {0}
    /\ Selectables(open) # {} => hl # 0 /\ Downs(open, hl) = Selectables(open)
    /\ \A i \in Selectables(open) : Key(open, i) # "" => CmdForKey(Key(open, i)) = Cmd(open, i)

(* All four.                                                                 *)
DesktopIsTrue == SelectionIsWhole /\ ListIsDrawn /\ PageShowsSelection /\ MenusReachAll

(* A test's outcome is on the screen when it is over (main.c:776, "A status  *)
(* line the operator never sees is not a status line").                      *)
ResultsAreSeen == at = "pointer" => fresh # "narrated"
=============================================================================
