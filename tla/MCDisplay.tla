------------------------------ MODULE MCDisplay ------------------------------
EXTENDS Display
Rig(mode, base, pointer) == [mode |-> mode, base |-> base, pointer |-> pointer]
Bench == {Rig("hdmi", 12, TRUE), Rig("vga", 12, TRUE), Rig("composite", 12, TRUE), Rig("hdmi", 32, FALSE)}
PiZero == {Rig("hdmi", 32, TRUE)}
Careful == {"audio", "plain"}
=============================================================================
