---------------------------- MODULE MCInterface ----------------------------
(* Three rows, one of whose details wraps beside the bar, one that may wrap
   on its own and one that shows a status line; a board with most things and
   one nobody knows.  Four boards with every sharing of pads there is.       *)
EXTENDS Interface

D(known, has, mode, na) == [known |-> known, has |-> has, mode |-> mode, na |-> na]
MCDescs ==
  {D(TRUE, {"pwm", "nespad", "ps2", "sd", "tape", "hdmi", "vga", "composite"}, "hdmi", {}),
   D(FALSE, {"led", "hdmi"}, "hdmi", {1})}
MCDetails == <<{"plain"}, {"tight"}, {"plain", "long"}>>

MCLeds == {{"plain"}, {"rgb"}, {"plain", "rgb"}}

Fleet == {Frank, Mega, NextBoard, Z0pa}
OneBoard == {Frank}
=============================================================================
