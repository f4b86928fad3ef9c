------------------------------ MODULE LinkWire ------------------------------
(***************************************************************************)
(* The wires between the two RP2350s of a FRANK Core 2 and what the two    *)
(* firmwares can do to them (common/link_bus.c): one doorbell line each    *)
(* way, one byte-wide bus each way, and for each side a DMA receiver that  *)
(* hears a transmission only if it was armed before it started.            *)
(*                                                                         *)
(* Side "M" is the master, "S" the slave; db[p] is the doorbell p drives   *)
(* and Peer(p) samples.  left[p] is the time p is still prepared to spend  *)
(* in the blocking call it is in.  All times are microseconds.             *)
(***************************************************************************)
EXTENDS Integers

CONSTANTS
  Op,          \* the opcodes of link_proto.h in use
  Divider,     \* bulk dividers, in quarters of the fastest rate (4 = 1.00x)
  VerifyBlocks,\* blocks of a verified transfer (VERIFY_BLOCKS)
  FrameUs,     \* wire time of a control frame
  BlockUs,     \* wire time of one bulk block at 1.00x
  MaxFaults    \* bound on the number of wire faults and spurious reboots

ASSUME WireAssumption ==
  /\ Divider \subseteq Nat \ {0} /\ 4 \in Divider
  /\ VerifyBlocks \in Nat \ {0}
  /\ FrameUs \in Nat /\ BlockUs \in Nat /\ MaxFaults \in Nat
  /\ "block" \notin Op

VARIABLES
  db,      \* db[p]: level of the doorbell side p drives
  rx,      \* rx[p]: the receiver of side p
  left,    \* left[p]: patience left in p's current wait
  faults   \* wire faults and reboots that may still happen

wireVars == <<db, rx, left, faults>>

Side == {"M", "S"}
Peer(p) == IF p = "M" THEN "S" ELSE "M"

Lesser(a, b) == IF a <= b THEN a ELSE b

(***************************************************************************)
(* What a transfer carries.  A control frame names an opcode, says whether *)
(* it is the acknowledgement, and carries a divider (RATE) and the tally   *)
(* of a bulk phase.  `cur` stands for hdr.seq = the master's s->seq of the *)
(* request it belongs to: a call bumps s->seq, so it makes every frame in  *)
(* existence stale.  `good` is what link_frame_check (or, for a block,     *)
(* link_bulk_verify) finds.                                                *)
(***************************************************************************)
Tally == [blocks : 0..VerifyBlocks, bad : 0..VerifyBlocks]
NoTally == [blocks |-> 0, bad |-> 0]

Frame == [op : Op \cup {"block"}, ack : BOOLEAN, cur : BOOLEAN,
          arg : Divider, sum : Tally, good : BOOLEAN]

Block == [op |-> "block", ack |-> FALSE, cur |-> TRUE,
          arg |-> 4, sum |-> NoTally, good |-> TRUE]
Noise == [Block EXCEPT !.good = FALSE]

Kind == {"ctrl", "bulk"}

(* A receiver is disabled ("off"), waits for a transfer to begin ("armed") *)
(* or for the rest of one it heard only in part ("partial"), or its DMA is *)
(* complete ("done"), after which the wire can no longer touch the buffer. *)
(* "late" is a receiver armed after the transfer in progress had begun:    *)
(* all it can get of that one is the tail.                                 *)
Receiver == [st : {"off", "armed", "late", "partial", "done"},
             want : Kind, got : Frame]

RxOff == [st |-> "off", want |-> "ctrl", got |-> Noise]
RxArmed(st, kind) == [st |-> st, want |-> kind, got |-> Noise]
Listening(r) == r.st \in {"armed", "late", "partial"}

(* What becomes of a transfer on the wire: a marginal rate flips bits or   *)
(* loses a clock edge, after which the receiver waits for words that never *)
(* come.                                                                   *)
Fate == IF faults > 0 THEN {"whole", "corrupt", "short"} ELSE {"whole"}
Spend(fate) == faults' = IF fate = "whole" THEN faults ELSE faults - 1

(* The receiver r after a transfer of frame f has ended.  A control frame  *)
(* cannot fill a receiver armed for a block; leftovers of one transfer     *)
(* shift the words of the next, which then fails its check.                *)
Landed(r, kind, f, fate) ==
  IF ~Listening(r) THEN r
  ELSE IF \/ r.st = "late"
          \/ r.want = "bulk" /\ kind = "ctrl"
          \/ r.st = "armed" /\ r.want = kind /\ fate = "short"
       THEN [r EXCEPT !.st = "partial"]
       ELSE [r EXCEPT !.st  = "done",
                      !.got = IF r.st = "armed" /\ r.want = kind
                              THEN [f EXCEPT !.good = @ /\ fate = "whole"]
                              ELSE Noise]

(* Wire time of `blocks` blocks at divider q, and the patience derived     *)
(* from it: four times the expected time and a tenth of a second, capped.  *)
BulkUs(blocks, q) == (blocks * BlockUs * q) \div 4
BulkTimeout(blocks, q) == Lesser(4 * BulkUs(blocks, q) + 100000, 30000000)

WireTypeOK ==
  /\ db \in [Side -> BOOLEAN]
  /\ rx \in [Side -> Receiver]
  /\ left \in [Side -> Nat]
  /\ faults \in 0..MaxFaults

WireInit ==
  /\ db = [p \in Side |-> FALSE]
  /\ rx = [p \in Side |-> RxOff]
  /\ faults = MaxFaults
=============================================================================
