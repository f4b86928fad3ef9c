----------------------------- MODULE UsbDevices -----------------------------
(* Who is plugged in: the callbacks of drivers/usbhid/hid_app.c, the XInput
   class driver beside them, the inventory the USB rows read and the two
   gamepad slots.  The host stack is TinyUSB, which is not in the repository:
   it gives a device the lowest free address and its HID interfaces the lowest
   free instances, mounts them one by one, one device at a time, and closes all
   of them when the device leaves.  What a keyboard's and a mouse's report goes
   on to do is Keyboards and Pointer.                                        *)
EXTENDS Integers, Sequences, FiniteSets, SequencesExt

CONSTANTS
  Shelves,      \* the devices there may be at hand
  Addresses,    \* CFG_TUH_DEVICE_MAX, the hub's not counted
  Instances     \* CFG_TUH_HID, and USB_INV_MAX, which is as many

(* A device: the driver that takes it, its name (vendor and product), its     *)
(* interfaces with their boot protocol and the reports of their descriptors.  *)
Device ==
  [name : STRING, driver : {"hid", "wired", "wireless", "one", "og"},
   itfs : Seq([protocol : {"none", "keyboard", "mouse", "xinput"},
               reports : Seq([usage : {"keyboard", "mouse", "gamepad", "consumer"}, id : Nat])])]
ASSUME UsbAssumption ==
  /\ UNION Shelves \subseteq Device
  /\ \A k \in UNION Shelves : IF k.driver = "hid" THEN k.itfs # << >> ELSE Len(k.itfs) = 1
  /\ IsFiniteSet(Addresses) /\ Addresses = 1..Cardinality(Addresses) /\ Instances \in Nat \ {0}

VARIABLES
  shelf,    \* the devices at hand in this run
  bus,      \* address -> the device and the number of its next interface to mount
  hids,     \* instance -> its address and interface
  info,     \* hid_info: instance -> the reports of its descriptor
  inv,      \* s_inv
  slots,    \* gamepad_slots
  flags,    \* keyboard_connected, mouse_connected
  opening,  \* the address that is being enumerated
  waiting,  \* its set_config waits for a command to be sent, and everything goes on
  xpad,     \* _xinputh_dev: address -> the buttons of its pad
  armed,    \* the instances and XInput addresses with a transfer under way
  last,     \* history: address -> the last report of its pad
  heard,    \* history: the last report and what became of it
  cut       \* history: addresses of XInput pads that left while their set_config waited
usbVars == <<shelf, bus, hids, info, inv, slots, flags, opening, waiting, xpad, armed, last, heard, cut>>

Free == "free"
NoDevice == [kind |-> [name |-> "none", driver |-> "none", itfs |-> << >>], next |-> 0]
NoItf == [addr |-> 0, itf |-> 0]
Slots == 1..2
Empty == [connected |-> FALSE, addr |-> 0, inst |-> 0, source |-> "none", map |-> "null", shows |-> "rest"]
Unheard == [usage |-> "nothing", sink |-> "nobody", shifted |-> FALSE, room |-> FALSE, pad |-> FALSE]

UsbDevInit(shelves) ==
  /\ shelf \in shelves
  /\ bus = [a \in Addresses |-> NoDevice] /\ hids = [i \in 1..Instances |-> NoItf]
  /\ info = [i \in 1..Instances |-> << >>] /\ inv = << >>
  /\ slots = [s \in Slots |-> Empty]
  /\ flags = [keyboard |-> FALSE, mouse |-> FALSE]
  /\ opening = 0 /\ waiting = FALSE /\ xpad = [a \in Addresses |-> Free] /\ armed = {}
  /\ last = [a \in Addresses |-> "rest"] /\ cut = {}
  /\ heard = Unheard

(* The place of i among the members of S, in their order, and who is there.   *)
Rank(S, i) == Cardinality({j \in S : j <= i})
Nth(S, n) == CHOOSE i \in S : Rank(S, i) = n

Itf(i) == bus[hids[i].addr].kind.itfs[hids[i].itf]
InstancesOf(a) == {i \in 1..Instances : hids[i] # NoItf /\ hids[i].addr = a}
Mounted == {i \in 1..Instances : hids[i] # NoItf /\ hids[i].itf < bus[hids[i].addr].next}
MountedPads == {a \in Addresses : bus[a] # NoDevice /\ bus[a].kind.driver # "hid" /\ bus[a].next = 2}
----------------------------------------------------------------------------
(* The slots.                                                               *)

Holders(s, a, src) == {n \in Slots : s[n].connected /\ s[n].addr = a /\ s[n].source = src}
(* find_gamepad_slot_by_dev. *)
ByDev(s, a, src) == LET h == Holders(s, a, src) IN IF h = {} THEN 0 ELSE Min(h)

(* find_or_alloc_gamepad_slot. *)
FindOrAlloc(s, a, i, src) ==
  LET mine == {n \in Holders(s, a, src) : s[n].inst = i}
      idle == {n \in Slots : ~s[n].connected}
  IN  IF mine # {} THEN Min(mine) ELSE IF idle # {} THEN Min(idle) ELSE 0

(* A slot is somebody's from now on. *)
SlotClaimed(s, n, a, i, src) ==
  [s EXCEPT ![n] = [connected |-> TRUE, addr |-> a, inst |-> i, source |-> src,
                    map |-> @.map, shows |-> @.shows]]

(* find_hid_map, find_xinput_map: the layouts that were captured, by name,    *)
(* and one each for all others.                                              *)
KnownHid == {"046D:C219", "081F:E401", "11FF:3331", "2563:0575", "FEED:2320"}
KnownXinput == {"045E:028E", "046D:C21F"}
MapOf(kind) ==
  IF kind.driver = "hid" THEN IF kind.name \in KnownHid THEN kind.name ELSE "fallback"
  ELSE IF kind.name \in KnownXinput THEN kind.name ELSE "default"

(* process_gamepad_report: with another pad's map, a report is nonsense.      *)
ReadWith(map, kind, p) ==
  IF MapOf(kind) = (IF map = "null" THEN "fallback" ELSE map) THEN p ELSE "nonsense"
Padded(s, n, kind, p) == [s EXCEPT ![n].shows = ReadWith(s[n].map, kind, p)]
----------------------------------------------------------------------------
(* The inventory.                                                           *)

InvAdd(d) ==
  IF \E n \in DOMAIN inv : inv[n].addr = d.addr /\ inv[n].inst = d.inst THEN inv
  ELSE IF Len(inv) >= Instances THEN inv ELSE Append(inv, d)

(* inv_remove, of a device's instances: what stays moves up. *)
InvRemove(s, a, gone) ==
  LET stay == {n \in DOMAIN s : ~(s[n].addr = a /\ s[n].inst \in gone)}
  IN  [n \in 1..Cardinality(stay) |-> s[Nth(stay, n)]]

(* t_usb_host, t_usb_hub. *)
HostRow == IF inv = << >> THEN "norun" ELSE "pass"
HubRow == IF inv = << >> THEN "norun" ELSE "pass"
----------------------------------------------------------------------------
(* HID.                                                                     *)

Usages(itf) == {itf.reports[n].usage : n \in DOMAIN itf.reports}
IsGamepad(itf) == "gamepad" \in Usages(itf) \/ itf.reports = << >>
IsPad(kind) == kind.driver # "hid" \/ \E n \in DOMAIN kind.itfs :
                 kind.itfs[n].protocol = "none" /\ IsGamepad(kind.itfs[n])

(* A slip: boot keyboards and mice are not parsed. *)
ParsedIfGeneric(i, itf) == IF itf.protocol = "none" THEN itf.reports ELSE info[i]
(* tuh_hid_mount_cb parses the descriptor of every interface. *)
Parsed(i, itf) == itf.reports

Flagged(itf) ==
  LET is(w) == itf.protocol = w \/ (itf.protocol = "none" /\ w \in Usages(itf))
  IN  [keyboard |-> flags.keyboard \/ is("keyboard"), mouse |-> flags.mouse \/ is("mouse")]

Opened(a) ==      \* the next interface, or the end of the enumeration
  /\ bus' = [bus EXCEPT ![a].next = @ + 1]
  /\ opening' = IF bus[a].next = Len(bus[a].kind.itfs) THEN 0 ELSE a

(* tuh_hid_mount_cb. *)
HidMount ==
  \E i \in InstancesOf(opening) :
    /\ hids[i].itf = bus[opening].next
    /\ LET a == opening  kind == bus[a].kind  itf == Itf(i)
           n == FindOrAlloc(slots, a, i, "hid")
       IN  /\ info' = [info EXCEPT ![i] = Parsed(i, itf)]
           /\ inv' = InvAdd([addr |-> a, inst |-> i, kind |-> itf.protocol, name |-> kind.name])
           /\ flags' = Flagged(itf)
           /\ slots' = IF itf.protocol = "none" /\ IsGamepad(itf) /\ n # 0
                         THEN [SlotClaimed(slots, n, a, i, "hid") EXCEPT ![n].map = MapOf(kind)]
                         ELSE slots
           /\ armed' = armed \cup {<<"hid", i>>}
           /\ Opened(a)
    /\ UNCHANGED <<shelf, hids, waiting, xpad, last, cut>> /\ heard' = Unheard

(* tuh_hid_umount_cb, of a device's instances one after the other: a generic  *)
(* one clears the first slot the device still has.  (The slot's instance      *)
(* stays, where nobody reads it.)                                            *)
Unslotted(s, a, gone) ==
  LET mine == Holders(s, a, "hid")
      generic == {i \in gone : Itf(i).protocol = "none"}
      cleared == {n \in mine : Rank(mine, n) <= Cardinality(generic)}
  IN  [n \in Slots |-> IF n \in cleared THEN Empty ELSE s[n]]

(* process_generic_report: the report the descriptor has under this ID.      *)
Matched(reports, r) ==
  IF Len(reports) = 1 /\ reports[1].id = 0 THEN reports[1].usage
  ELSE LET m == {n \in DOMAIN reports : reports[n].id = r.id}
       IN  IF m = {} THEN "nothing" ELSE reports[Min(m)].usage

(* What becomes of report r, with payload p, of a generic interface: to the  *)
(* device's slot if it has one, else by its usage.                           *)
Generic(i, r, p) ==
  LET a == hids[i].addr  kind == bus[a].kind
      mine == ByDev(slots, a, "hid")
      usage == Matched(info[i], r)
      n == FindOrAlloc(slots, a, i, "hid")
  IN  IF mine # 0 THEN [sink |-> "slot", to |-> Padded(slots, mine, kind, p)]
      ELSE IF usage # "gamepad"
        THEN [sink |-> IF usage \in {"keyboard", "mouse"} THEN usage ELSE "nobody", to |-> slots]
      ELSE IF n = 0 THEN [sink |-> "nobody", to |-> slots]
      ELSE [sink |-> "slot", to |-> Padded(SlotClaimed(slots, n, a, i, "hid"), n, kind, p)]

(* hid_strip_report_id: the ID goes where the descriptor has one.            *)
Stripped(i) == \E n \in DOMAIN info[i] : info[i][n].id # 0

(* tuh_hid_report_received_cb. *)
HidReport(i) ==
  /\ <<"hid", i>> \in armed
  /\ \E n \in DOMAIN Itf(i).reports, p \in {"rest", "held"} :
       LET r == Itf(i).reports[n]  g == Generic(i, r, p)
           boot == Itf(i).protocol # "none"
       IN  /\ p = "held" => r.usage = "gamepad"
           /\ slots' = IF boot THEN slots ELSE g.to
           /\ heard' = [usage |-> r.usage, sink |-> IF boot THEN Itf(i).protocol ELSE g.sink,
                        shifted |-> boot /\ Stripped(i) # (r.id # 0),
                        room |-> \E s \in Slots : ~slots[s].connected,
                        pad |-> IsPad(bus[hids[i].addr].kind)]
           /\ last' = IF r.usage = "gamepad" THEN [last EXCEPT ![hids[i].addr] = p] ELSE last
  /\ UNCHANGED <<shelf, bus, hids, info, inv, flags, opening, waiting, xpad, armed, cut>>
----------------------------------------------------------------------------
(* XInput.                                                                  *)

Initialised(kind) == kind.driver \in {"one", "wireless"}

(* tuh_xinput_mount_cb asks for the first transfer, slot or no slot. *)
Listens(n, a) == {<<"xinput", a>>}

(* tuh_xinput_mount_cb.  A pad that left in the meantime has nothing to      *)
(* transfer and no name, but takes its slot all the same.                    *)
XinputMount(a) ==
  LET n == FindOrAlloc(slots, a, 0, "xinput")
  IN  /\ slots' = IF n = 0 THEN slots
                  ELSE [SlotClaimed(slots, n, a, 0, "xinput") EXCEPT
                          ![n].map = IF bus[a] = NoDevice THEN "default" ELSE MapOf(bus[a].kind),
                          ![n].shows = "rest"]
      /\ armed' = IF bus[a] = NoDevice THEN armed ELSE armed \cup Listens(n, a)

(* xinputh_set_config: a wired pad is mounted at once; an Xbox One pad and a *)
(* wireless receiver are sent commands first, and the host stack runs on     *)
(* while they go out.                                                        *)
SetConfig ==
  /\ opening # 0 /\ ~waiting /\ bus[opening].kind.driver # "hid"
  /\ IF Initialised(bus[opening].kind)
       THEN waiting' = TRUE /\ UNCHANGED <<bus, slots, armed, opening>>
       ELSE XinputMount(opening) /\ Opened(opening) /\ UNCHANGED waiting
  /\ UNCHANGED <<shelf, hids, info, inv, flags, xpad, last, cut>> /\ heard' = Unheard

(* The wait of wait_for_tx_complete is over: the transfer is done, or the     *)
(* device is not there any more.                                             *)
Sent ==
  /\ waiting /\ waiting' = FALSE /\ XinputMount(opening)
  /\ IF bus[opening] = NoDevice THEN opening' = 0 /\ UNCHANGED bus ELSE Opened(opening)
  /\ UNCHANGED <<shelf, hids, info, inv, flags, xpad, last, cut>> /\ heard' = Unheard

(* What may come from a pad: its state, or something else.                   *)
Packets(driver) ==
  {"input", "error", "other"}
    \cup (IF driver = "one" THEN {"guide", "announce"} ELSE {})
    \cup (IF driver = "wireless" THEN {"connected", "disconnected"} ELSE {})
NewData(packet) == packet \in {"input", "guide"}
Reported(packet) == NewData(packet) \/ packet = "error"

(* xinputh_xfer_cb and tuh_xinput_report_received_cb: a state replaces the   *)
(* pad's, and whatever is reported goes to the device's slot.  The transfer   *)
(* is asked for again on every path.                                         *)
XinputReport(a) ==
  /\ <<"xinput", a>> \in armed
  /\ \E packet \in Packets(bus[a].kind.driver), p \in {"rest", "held"} :
       LET n == ByDev(slots, a, "xinput")
       IN  /\ packet # "input" => p = xpad[a]
           /\ xpad' = [xpad EXCEPT ![a] = p]
           /\ slots' = IF Reported(packet) /\ n # 0
                         THEN Padded(slots, n, bus[a].kind, p) ELSE slots
           /\ last' = IF packet = "input" THEN [last EXCEPT ![a] = p] ELSE last
  /\ UNCHANGED <<shelf, bus, hids, info, inv, flags, opening, waiting, armed, cut>> /\ heard' = Unheard

(* tuh_xinput_umount_cb. *)
XinputUnslotted(s, a) ==
  [n \in Slots |-> IF s[n].connected /\ s[n].source = "xinput" /\ s[n].addr = a
                     THEN Empty ELSE s[n]]
----------------------------------------------------------------------------
(* A device comes: an address, instances for its interfaces (hidh_open), or  *)
(* the one XInput instance an address has (xinputh_open).                    *)
Attach(k) ==
  LET spare == {a \in Addresses : bus[a] = NoDevice}
      idle == {i \in 1..Instances : hids[i] = NoItf}
      place(n) == Nth(idle, n)
      a == Min(spare)
  IN  /\ opening = 0 /\ spare # {} /\ \A b \in Addresses : bus[b].kind # k
      /\ k.driver = "hid" => Cardinality(idle) >= Len(k.itfs)
      /\ opening' = a
      /\ bus' = [bus EXCEPT ![a] = [kind |-> k, next |-> 1]]
      /\ IF k.driver = "hid"
           THEN /\ hids' = [i \in 1..Instances |->
                     IF \E n \in DOMAIN k.itfs : place(n) = i
                       THEN [addr |-> a, itf |-> CHOOSE n \in DOMAIN k.itfs : place(n) = i]
                       ELSE hids[i]]
                /\ UNCHANGED <<xpad, cut>>
           ELSE /\ xpad' = [xpad EXCEPT ![a] = "rest"] /\ cut' = cut \ {a}
                /\ UNCHANGED hids
      /\ UNCHANGED <<shelf, info, inv, slots, flags, waiting, armed, last>> /\ heard' = Unheard

(* A device leaves: hidh_close unmounts its interfaces one after the other,  *)
(* xinputh_close its pad, and forgets it.                                    *)
Detach(a) ==
  LET gone == InstancesOf(a)  was == bus[a].kind
      protocols == {Itf(i).protocol : i \in gone}
  IN  /\ bus[a] # NoDevice
      /\ bus' = [bus EXCEPT ![a] = NoDevice]
      /\ hids' = [i \in 1..Instances |-> IF i \in gone THEN NoItf ELSE hids[i]]
      /\ inv' = InvRemove(inv, a, gone)
      /\ slots' = IF was.driver = "hid" THEN Unslotted(slots, a, gone) ELSE XinputUnslotted(slots, a)
      /\ flags' = [w \in {"keyboard", "mouse"} |-> flags[w] /\ w \notin protocols]
      /\ xpad' = [xpad EXCEPT ![a] = Free]
      /\ armed' = armed \ ({<<"hid", i>> : i \in gone} \cup {<<"xinput", a>>})
      /\ opening' = IF opening = a /\ ~waiting THEN 0 ELSE opening
      /\ cut' = IF opening = a /\ waiting THEN cut \cup {a} ELSE cut
      /\ last' = [last EXCEPT ![a] = "rest"]
      /\ UNCHANGED <<shelf, info, waiting>> /\ heard' = Unheard

UsbDevNext ==
  \/ \E k \in shelf : Attach(k)
  \/ \E a \in Addresses : Detach(a) \/ XinputReport(a)
  \/ \E i \in 1..Instances : HidReport(i)
  \/ HidMount \/ SetConfig \/ Sent
----------------------------------------------------------------------------
Alone(kind) == Len(kind.itfs) = 1 /\ Len(kind.itfs[1].reports) <= 1

(* What the USB rows and the interface say is attached is what is: each      *)
(* mounted HID interface once, with its device's name, and no other.         *)
InventoryIsTheBus ==
  /\ {[addr |-> hids[i].addr, inst |-> i, kind |-> Itf(i).protocol,
       name |-> bus[hids[i].addr].kind.name] : i \in Mounted} = ToSet(inv)
  /\ Len(inv) = Cardinality(Mounted)
  /\ HostRow = "pass" <=> Mounted # {}
  /\ HubRow = "pass" <=> Mounted # {}

(* No slot outlives its pad or belongs to two - unless an XInput pad was      *)
(* pulled while its set_config waited.                                       *)
SlotsBelongToPads ==
  \A s \in Slots : slots[s].connected =>
    /\ \/ slots[s].source = "xinput" /\ slots[s].addr \in cut
       \/ LET b == bus[slots[s].addr]
          IN  b # NoDevice /\ IsPad(b.kind) /\ (b.kind.driver = "hid") = (slots[s].source = "hid")
    /\ \A t \in Slots \ {s} : slots[t].connected =>
         <<slots[t].addr, slots[t].inst, slots[t].source>> # <<slots[s].addr, slots[s].inst, slots[s].source>>

(* A slot shows what its pad reported last, and at first nothing pressed,     *)
(* whoever had the slot before; it may be wrong only where the pad shares its *)
(* device with other reports, or had to wait for a slot and has no map.      *)
SlotsShowTheirPads ==
  \A s \in Slots : LET a == slots[s].addr IN
    slots[s].connected /\ bus[a] # NoDevice /\ a \notin cut
      /\ Alone(bus[a].kind) /\ slots[s].map # "null"
      => slots[s].shows = last[a]

(* HID devices whose reports can be told apart: a boot protocol's are all its  *)
(* own, with an ID each or none, a generic interface's have IDs of their own,  *)
(* and a pad has no keyboard or mouse on a generic interface beside it.      *)
TellsApart(kind, itf) ==
  \A n \in DOMAIN itf.reports : LET r == itf.reports[n] IN
    IF itf.protocol = "none"
      THEN Matched(itf.reports, r) = r.usage /\ (IsPad(kind) => r.usage \notin {"keyboard", "mouse"})
      ELSE r.usage = itf.protocol /\ \A m \in DOMAIN itf.reports : itf.reports[m].id # 0 <=> r.id # 0
WellDescribed ==
  \A k \in UNION Shelves : k.driver = "hid" => \A n \in DOMAIN k.itfs : TellsApart(k, k.itfs[n])

(* A keyboard's report is taken for a keyboard's, a mouse's for a mouse's,    *)
(* with the ID where the descriptor says and not elsewhere; other controls   *)
(* are nobody's, except on a pad; and a HID pad that reports has a slot if   *)
(* there is room.                                                            *)
ReportsArriveWhole ==
  /\ ~heard.shifted
  /\ heard.usage \in {"keyboard", "mouse"} => heard.sink = heard.usage
  /\ heard.usage = "consumer" /\ ~heard.pad => heard.sink = "nobody"
  /\ heard.usage = "gamepad" /\ heard.room => heard.sink = "slot"

(* Every interface that is mounted has a transfer under way: no path through *)
(* a callback leaves a device unheard.                                       *)
EverybodyIsListenedTo ==
  /\ \A i \in Mounted : <<"hid", i>> \in armed
  /\ \A a \in MountedPads : <<"xinput", a>> \in armed

(* The devices the program sees are the devices there are: all five.         *)
DevicesAreTrue ==
  /\ InventoryIsTheBus /\ SlotsBelongToPads /\ SlotsShowTheirPads
  /\ ReportsArriveWhole /\ EverybodyIsListenedTo

(* usbhid.h: "Check if USB gamepad at specific slot (0 or 1) is connected".  *)
ConnectedMeansThere ==
  \A s \in Slots : slots[s].connected => bus[slots[s].addr] # NoDevice
=============================================================================
