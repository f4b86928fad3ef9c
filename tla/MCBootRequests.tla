--------------------------- MODULE MCBootRequests ---------------------------
(* An instance of BootRequests for TLC: one descriptor of every kind in    *)
(* the board table, and four clocks: one that holds, the same without the  *)
(* voltage it needs, one that never holds, and the built-in one.           *)
EXTENDS BootRequests

MCBoards ==
  {[wired |-> {"hdmi"}, pio |-> TRUE], [wired |-> {"hdmi", "vga"}, pio |-> FALSE],
   [wired |-> Modes, pio |-> FALSE], [wired |-> {}, pio |-> FALSE]}
MCClocks == {"stock", "fast", "bare", "faster"}
MCCpu == [stock |-> 252, fast |-> 378, bare |-> 378, faster |-> 504]
MCVolt == [stock |-> 0, fast |-> 15, bare |-> 0, faster |-> 15]
MCReachable == {252, 378, 504}
MCHolds == {<<252, 0>>, <<252, 15>>, <<126, 0>>, <<126, 15>>, <<378, 15>>}
=============================================================================
