--------------------------- MODULE MCLinkSession ---------------------------
(* Instances of LinkSession for TLC.  The times are those of the firmware  *)
(* at its 252 MHz clock, in microseconds.                                  *)
EXTENDS LinkSession

MCOp == {"HELLO", "SELFTEST", "PING", "RATE", "BULK_M2S", "BULK_S2M",
         "DUPLEX", "VERIFY_M2S", "VERIFY_S2M"}
MCAllExchanges == MCOp \cup {"PROBE"}
MCDividers == {4, 8}
=============================================================================
