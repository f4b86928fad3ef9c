------------------------------ MODULE Interface ------------------------------
(* What the operator works with: the desktop on one bench, on another the
   dialogs and rows that take turns on the pads, and on a third the dialogs
   that only watch.  None reads a variable of another's, so a run takes one
   scene at a time.                                                           *)
EXTENDS Desktop, Pads, Panels

VARIABLE scene
vars == <<deskVars, padVars, panelVars, scene>>

One(S) == {CHOOSE x \in S : TRUE}
Init ==
  /\ scene \in {"desktop", "pads", "panels"}
  /\ IF scene = "desktop" THEN DeskInit(Descs, Outputs) ELSE DeskInit(One(Descs), One(Outputs))
  /\ PadsInit(IF scene = "pads" THEN Boards ELSE One(Boards))
  /\ PanelInit(IF scene = "panels" THEN PanelKinds ELSE {"keys"})

Next ==
  /\ \/ scene = "desktop" /\ DeskNext /\ UNCHANGED <<padVars, panelVars>>
     \/ scene = "pads" /\ PadsNext /\ UNCHANGED <<deskVars, panelVars>>
     \/ scene = "panels" /\ PanelNext /\ UNCHANGED <<deskVars, padVars>>
  /\ UNCHANGED scene
Spec == Init /\ [][Next]_vars
=============================================================================
