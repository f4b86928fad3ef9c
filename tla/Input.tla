------------------------------- MODULE Input -------------------------------
(* The event loop's inputs side by side.  ui_input.c keeps nothing in common
   between keys and pointer, and neither asks who is plugged in but for a flag
   each, so a run takes one scene at a time: USB keyboards while a letter is
   typed at the PS/2 one; the PS/2 keyboard alone; a PS/2 mouse on a bad wire;
   a PS/2 and a USB mouse; the PS/2 ports dialog; and the devices that come
   and go.                                                                   *)
EXTENDS Keyboards, Pointer, UsbDevices

VARIABLE inputScene
inputVars == <<keyVars, pointerVars, usbVars, inputScene>>

InputInit ==
  /\ KeyInit /\ PointerInit
  /\ inputScene \in {"usb keys", "ps2 keys", "ps2", "both", "dialog", "devices"}
  /\ loop.dialog = (inputScene = "dialog")
  /\ UsbDevInit(IF inputScene = "devices" THEN Shelves ELSE {{}})

InputNext ==
  /\ \/ /\ \/ inputScene = "usb keys" /\ (UsbKeyNext \/ SlowPs2KeyNext \/ Getkey)
           \/ inputScene = "ps2 keys" /\ (Ps2KeyNext \/ Getkey)
        /\ UNCHANGED <<pointerVars, usbVars>>
     \/ /\ \/ inputScene = "ps2" /\ (Ps2Next \/ LoopNext)
           \/ inputScene = "dialog" /\ (WholePs2Next \/ LoopNext)
           \/ inputScene = "both" /\ (WholePs2Next \/ UsbNext \/ LoopNext)
        /\ UNCHANGED <<keyVars, usbVars>>
     \/ inputScene = "devices" /\ UsbDevNext /\ UNCHANGED <<keyVars, pointerVars>>
  /\ UNCHANGED inputScene

InScene(A) == inputScene \in {"ps2", "both", "dialog"} /\ A /\ UNCHANGED <<keyVars, usbVars, inputScene>>
(* The loop goes round and time passes.                                     *)
InputSpec ==
  /\ InputInit /\ [][InputNext]_inputVars
  /\ WF_inputVars(InScene(PollByte \/ Deliver \/ ReadPanel)) /\ WF_inputVars(InScene(TwoSeconds))

TypeOK == KeyTypeOK /\ PointerTypeOK
=============================================================================
