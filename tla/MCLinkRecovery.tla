--------------------------- MODULE MCLinkRecovery ---------------------------
(* Instances of LinkRecovery for TLC, with the times of the firmware.      *)
EXTENDS LinkRecovery

(* A boot takes 1.2 s for the self-test, a little less with a small PSRAM; *)
(* from power-on 2.1 s of console window come first, and 3 s more when no  *)
(* console is attached.                                                    *)
MCLongBoot == {6300}
MCWarmOnly == {1200}
MCDogFed == {8000}
MCExtremePhases == {0, 40}

(* The longest outage is a hang of which the watchdog has its 8 s left.    *)
ASSUME FirmwareTimings == Timings(9300)
=============================================================================
