------------------------------ MODULE Verdicts ------------------------------
(* What a row's verdict says of the hardware under it: the memory rows on one
   bench, the link rows on another, a card and its drivers on a third, and
   what detection says of the board under it.                                *)
EXTENDS Memory, LinkVerdict, SdSpi, Detect

VARIABLE scene
vars == <<memVars, lvVars, sdVars, detectVars, scene>>

(* The benches nobody looks at in the other scenes.                          *)
Stock == [cpu |-> 252, ceiling |-> 133, rated |-> 133, stated |-> None,
         decode |-> [w \in Space |-> w], dead |-> {}]
EmptySocket == [kind |-> "none", csd |-> [v |-> 1, size |-> 0, mult |-> 0, len |-> 9]]
NoBoard == [is |-> "none", pads |-> {}]

Init ==
  /\ scene \in {"memory", "link", "card", "board"} /\ LvInit
  /\ MemInit(IF scene = "memory" THEN Benches ELSE {Stock})
  /\ SdInit(IF scene = "card" THEN Cards ELSE {EmptySocket})
  /\ DetectInit(IF scene = "board" THEN Fleet ELSE {NoBoard})
  /\ scene # "card" => image = "test"

Next ==
  /\ \/ scene = "memory" /\ MemNext /\ UNCHANGED <<lvVars, sdVars, detectVars>>
     \/ scene = "link" /\ LvNext /\ UNCHANGED <<memVars, sdVars, detectVars>>
     \/ scene = "card" /\ SdNext /\ UNCHANGED <<memVars, lvVars, detectVars>>
     \/ scene = "board" /\ DetectNext /\ UNCHANGED <<memVars, lvVars, sdVars>>
  /\ UNCHANGED scene
Spec == Init /\ [][Next]_vars
=============================================================================
