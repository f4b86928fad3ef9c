------------------------------ MODULE MCInput ------------------------------
EXTENDS Input

(* What may be plugged in: a composite keyboard, a wireless dongle and a pad
   nobody captured; three HID pads, one with a second interface; a HID pad and
   two Xbox One pads, one captured; and one of each other Xbox kind.         *)
One(u) == [usage |-> u, id |-> 0]
Hid(name, itfs) == [name |-> name, driver |-> "hid", itfs |-> itfs]
Generic1(reports) == [protocol |-> "none", reports |-> reports]
Pad(name) == Hid(name, <<Generic1(<<One("gamepad")>>)>>)
Xbox(name, driver) ==
  [name |-> name, driver |-> driver,
   itfs |-> <<[protocol |-> "xinput", reports |-> <<One("gamepad")>>]>>]
Touchpad == Hid("1611:2800", <<[protocol |-> "keyboard", reports |-> <<One("keyboard")>>],
                               [protocol |-> "mouse", reports |-> <<[usage |-> "mouse", id |-> 1]>>]>>)
Dongle == Hid("dongle", <<Generic1(<<[usage |-> "keyboard", id |-> 1], [usage |-> "mouse", id |-> 2],
                                     [usage |-> "consumer", id |-> 3]>>)>>)
Fancy == Hid("FEED:2320", <<Generic1(<<One("gamepad")>>), Generic1(<<One("consumer")>>)>>)
MCShelves == {{Touchpad, Dongle, Pad("no name")},
              {Pad("046D:C219"), Pad("081F:E401"), Fancy},
              {Pad("046D:C219"), Xbox("no name", "one"), Xbox("046D:C21F", "one")},
              {Xbox("no name", "one"), Xbox("045E:028E", "wired"), Xbox("receiver", "wireless")}}

(* The theorem about devices is for those whose reports can be told apart.    *)
ASSUME WellDescribed
=============================================================================
