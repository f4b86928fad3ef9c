------------------------------- MODULE MCTests -------------------------------
(* An instance of Tests for TLC: a row that runs anywhere, one with        *)
(* alternatives, one for the card and two of the link; a board with a      *)
(* link, one without, and none; the probes have seen a card's pull-up and  *)
(* a doorbell.                                                             *)
EXTENDS Tests

MCNeeds ==
  <<[all |-> {}, any |-> {}], [all |-> {}, any |-> {"hdmi", "vga"}],
    [all |-> {Link}, any |-> {}], [all |-> {Link}, any |-> {}]>>
MCBoards == {"core2", "frank", "unknown"}
MCClaimed == [core2 |-> {Link, "hdmi"}, frank |-> {"vga"}, unknown |-> {}]
=============================================================================
