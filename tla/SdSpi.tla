------------------------------- MODULE SdSpi -------------------------------
(***************************************************************************)
(* A card on four wires and the three drivers that talk to it: the rows of *)
(* tests/tests_sd.c (bit-banged), drivers/sdblock under the report, and    *)
(* drivers/sdcard in the bring-up image (master/src).  One step is a       *)
(* command with what answers it, or a block.  Each driver brings the card  *)
(* up in its own way and remembers different things about it; rows and     *)
(* report share one card.                                                  *)
(***************************************************************************)
EXTENDS Integers

CONSTANTS
  Cards,      \* what can be in the socket: [kind, csd]
  Width,      \* bits of a uint32_t, scaled with the register's fields
  LeastSize,  \* sectors of a card t_sd_write touches: 1 MB, scaled likewise
  ZeroTries,  \* CMD0s of sd_bring_up
  Patience,   \* ACMD41s a driver has time for
  MaxFaults,  \* bound: answers or blocks that get lost, and slow commits
  MaxSwaps    \* bound: changes of card

(* Registers a card can have: the bytes that version 1 counts, the sectors  *)
(* of version 2, which the physical layer keeps below 2^32.                 *)
Bytes(csd) == (csd.size + 1) * 2^(csd.mult + 2) * 2^csd.len
Kinds == {"none", "mmc", "sdsc1", "sdsc2", "sdhc"}
ASSUME SdAssumption ==
  /\ ZeroTries \in Nat \ {0} /\ Patience \in Nat \ {0, 1}
  /\ MaxFaults \in Nat /\ MaxSwaps \in Nat /\ Width \in Nat /\ LeastSize \in Nat
  /\ \A k \in Cards : /\ k.kind \in Kinds /\ k.csd.size \in Nat
                      /\ IF k.csd.v = 1 THEN Bytes(k.csd) \in Nat
                         ELSE (k.csd.size + 1) * 1024 < 2^Width

(* R1, as far as anybody tells values apart.                               *)
Ok == 0
Idle == 1
Illegal == 5
Silent == 255

Sectors == {0, 1}  \* the first, whose address is 0 in bytes too, and the last
Elsewhere == 2
Drivers == {"rows", "report", "fatfs"}

VARIABLES
  image,    \* which program runs
  card,     \* the card: kind, csd, mode, polls it still needs, busy, doing
  who, sdAt, tries,  \* the driver that talks, its place, its loop
  v2, mmc,  \* what the bring-up has learnt
  sees,     \* per driver: up, block addressed, capacity
  failed,   \* how the last call ended
  sdFaults, swaps,   \* bounds, counted down
  ill,      \* history: something went wrong for the call
  blind,    \* history: driver's bring-up got no answer to CMD58
  changed,  \* history: the card was changed since driver's bring-up
  moved,    \* history: the transfer last reported as done, asked for and real
  astray    \* history: the last call was a speed row that took data for a token
callVars == <<image, who, sdAt, tries, v2, mmc, sees, failed>>
histVars == <<blind, changed, moved, astray>>
sdVars == <<callVars, card, sdFaults, swaps, ill, histVars>>

Unseen == [up |-> FALSE, block |-> FALSE, size |-> 0]
Fresh(k) == [kind |-> k.kind, csd |-> k.csd, mode |-> "native", polls |-> 1,
             busy |-> FALSE, doing |-> "nothing", place |-> 0]

---------------------------------------------------------------------------
(* Capacity, in sectors of 512 bytes.                                      *)

(* csd_capacity: 64-bit arithmetic.                                        *)
RowsCapacity(csd) ==
  IF csd.v = 1 THEN Bytes(csd) \div 512
  ELSE (csd.size + 1) * 1024
(* sectors_from_csd: 32-bit arithmetic.                                    *)
ReportCapacity(csd) ==
  IF csd.v = 1 THEN (Bytes(csd) % 2^Width) \div 512
  ELSE ((csd.size + 1) * 1024) % 2^Width
(* A standard card of 4 GB is one byte too big for the second.             *)
Fits(csd) == csd.v = 1 => Bytes(csd) < 2^Width

---------------------------------------------------------------------------
(* The card and the wires.                                                 *)

Talks == card.kind # "none"
Ready == card.mode = "ready"
(* Sector, when the address is of the kind the card takes.                 *)
Place(lba, block) == IF lba = 0 \/ block = (card.kind = "sdhc") THEN lba ELSE Elsewhere

OpCondDone == [card EXCEPT !.mode = "ready"]
(* An ACMD41 or CMD1 the card accepts; one of high capacity waits for a    *)
(* host that says it can do that.                                          *)
Polled(hcs) ==
  IF Ready THEN <<Ok, card>>
  ELSE IF card.kind = "sdhc" /\ ~hcs THEN <<Idle, card>>
  ELSE IF card.polls > 0 THEN <<Idle, [card EXCEPT !.polls = @ - 1]>>
  ELSE <<Ok, OpCondDone>>

(* What a card that hears the command answers, and does.  While it commits *)
(* a block it holds the line low, which reads as R1 = 0.                   *)
Reply(cmd, arg) ==
  IF ~Talks THEN <<Silent, card>>
  ELSE IF card.busy THEN <<0, card>>
  ELSE IF cmd = "CMD0" THEN <<Idle, [card EXCEPT !.mode = "idle", !.polls = 1]>>
  ELSE IF card.mode = "native" THEN <<Silent, card>>
  ELSE IF cmd = "CMD8" THEN <<IF card.kind \in {"sdsc2", "sdhc"} THEN Idle ELSE Illegal, card>>
  ELSE IF cmd = "ACMD41" THEN IF card.kind = "mmc" THEN <<Illegal, card>> ELSE Polled(arg)
  ELSE IF cmd = "CMD1" THEN Polled(FALSE)
  ELSE IF cmd = "CMD58" THEN <<IF Ready THEN Ok ELSE Idle, card>>
  ELSE IF ~Ready THEN <<Idle, card>>
  ELSE IF cmd \in {"CMD17", "CMD18", "CMD24"}
       THEN <<Ok, [card EXCEPT !.doing = cmd, !.place = arg]>>
  ELSE <<Ok, [card EXCEPT !.doing = cmd]>>

(* The command, or its answer, may get lost.                               *)
Exchange(cmd, arg) ==
  {[r |-> Reply(cmd, arg)[1], card |-> Reply(cmd, arg)[2], lost |-> 0]}
  \cup IF sdFaults = 0 THEN {}
       ELSE {[r |-> Silent, card |-> c, lost |-> 1] : c \in {card, Reply(cmd, arg)[2]}}
Heard(e) == card' = e.card /\ sdFaults' = sdFaults - e.lost /\ ill' = (ill \/ e.lost = 1)

(* The card has been given that command and sends or takes a block: what   *)
(* hw_rx_block and sd_rx_block see is a token, what sd_tx_block sees is    *)
(* data accepted.  Seeded fault: an R1 of 0 is taken for both.             *)
AcceptsBlindly(c, cmd) == TRUE
Accepts(c, cmd) == c.doing = cmd
Done(c) == [c EXCEPT !.doing = "nothing"]

---------------------------------------------------------------------------
(* Calls.                                                                  *)

StepTo(to) == sdAt' = to
Fails == StepTo("idle") /\ failed' = TRUE
Works == StepTo("idle") /\ failed' = FALSE
Still == UNCHANGED failed
Same == UNCHANGED <<image, who, swaps, changed, astray>>

(* Three begin it.                                                         *)
BringUp(d) ==
  /\ sdAt = "idle" /\ (d = "fatfs") = (image = "bring-up")
  /\ who' = d /\ StepTo("CMD0") /\ tries' = 1
  /\ v2' = FALSE /\ mmc' = FALSE
  /\ sees' = [sees EXCEPT ![d] = Unseen] /\ ill' = card.busy
  /\ blind' = [blind EXCEPT ![d] = FALSE] /\ changed' = [changed EXCEPT ![d] = FALSE]
  /\ astray' = FALSE
  /\ UNCHANGED <<image, card, failed, sdFaults, swaps, moved>>

IdentifyCard == BringUp("rows")       \* t_sd
SdblockInit == BringUp("report")
DiskInitialize == BringUp("fatfs")

GoIdle ==
  /\ sdAt = "CMD0"
  /\ \E e \in Exchange("CMD0", 0) :
       /\ Heard(e)
       /\ IF e.r = Idle THEN StepTo("CMD8") /\ tries' = 1 /\ Still
          ELSE IF who = "rows" /\ tries < ZeroTries THEN tries' = tries + 1 /\ UNCHANGED sdAt /\ Still
          ELSE Fails /\ UNCHANGED tries
  /\ Same /\ UNCHANGED <<v2, mmc, sees, blind, moved>>

(* The voltage is echoed; sdblock reads the four bytes and ignores them.   *)
IfCond ==
  /\ sdAt = "CMD8"
  /\ \E e \in Exchange("CMD8", 0), garbled \in 0..1 :
       /\ garbled + e.lost <= sdFaults /\ (garbled = 1 => e.r = Idle)
       /\ card' = e.card /\ sdFaults' = sdFaults - e.lost - garbled
       /\ ill' = (ill \/ e.lost + garbled > 0)
       /\ v2' = (e.r = Idle)
       /\ IF garbled = 1 /\ who # "report" THEN Fails
          ELSE Still /\ StepTo(IF who = "fatfs" /\ e.r # Idle THEN "which" ELSE "ACMD41")
  /\ Same /\ UNCHANGED <<tries, mmc, sees, blind, moved>>

(* disk_initialize: a card that is not version 2 is asked what it is.      *)
Which ==
  /\ sdAt = "which"
  /\ \E e \in Exchange("ACMD41", FALSE) : Heard(e) /\ mmc' = (e.r > Idle)
  /\ StepTo("ACMD41")
  /\ Same /\ UNCHANGED <<tries, v2, sees, failed, blind, moved>>

NextAfterOpCond == IF v2 THEN "CMD58" ELSE IF who = "fatfs" THEN "CMD16" ELSE "registers"

(* Rows: one error ends it.  Report: nothing ends it but Ok and the end of *)
(* the loop, and the second is not told from the first.  Fatfs: nothing    *)
(* but Ok, in time.                                                        *)
OpCond ==
  /\ sdAt = "ACMD41"
  /\ \E e \in Exchange(IF mmc THEN "CMD1" ELSE "ACMD41", v2) :
       /\ Heard(e)
       /\ IF e.r = Ok THEN StepTo(NextAfterOpCond) /\ Still /\ UNCHANGED tries
          ELSE IF who = "rows" /\ e.r # Idle THEN Fails /\ UNCHANGED tries
          ELSE IF tries < Patience THEN tries' = tries + 1 /\ UNCHANGED sdAt /\ Still
          ELSE /\ UNCHANGED tries
               /\ IF who = "report" THEN StepTo(NextAfterOpCond) /\ Still ELSE Fails
  /\ Same /\ UNCHANGED <<v2, mmc, sees, blind, moved>>

(* The bit that says whether an address is a sector or a byte.  Only the   *)
(* bring-up image gives up without it.                                     *)
Ocr ==
  /\ sdAt = "CMD58"
  /\ \E e \in Exchange("CMD58", 0) :
       /\ Heard(e)
       /\ sees' = [sees EXCEPT ![who].block = e.r = Ok /\ card.kind = "sdhc",
                               ![who].up = who = "fatfs" /\ e.r = Ok]
       /\ blind' = [blind EXCEPT ![who] = e.r # Ok]
       /\ IF who # "fatfs" THEN StepTo("registers") /\ Still
          ELSE IF e.r = Ok THEN Works ELSE Fails
  /\ Same /\ UNCHANGED <<tries, v2, mmc, moved>>

BlockLength ==
  /\ sdAt = "CMD16"
  /\ \E e \in Exchange("CMD16", 0) :
       /\ Heard([e EXCEPT !.card = Done(e.card)])
       /\ sees' = [sees EXCEPT ![who].up = e.r = Ok]
       /\ IF e.r = Ok THEN Works ELSE Fails
  /\ Same /\ UNCHANGED <<tries, v2, mmc, blind, moved>>

(* CID and CSD for the rows, CSD for the report.                           *)
Registers ==
  /\ sdAt = "registers"
  /\ \E e \in Exchange("CMD9", 0), late \in 0..1 :
       LET got == e.r = Ok /\ Accepts(e.card, "CMD9") /\ late = 0
       IN  /\ late + e.lost <= sdFaults
           /\ card' = Done(e.card) /\ sdFaults' = sdFaults - e.lost - late
           /\ ill' = (ill \/ e.lost + late > 0)
           /\ sees' = IF got
                      THEN [sees EXCEPT ![who].up = TRUE, ![who].size =
                              IF who = "rows" THEN RowsCapacity(card.csd)
                              ELSE ReportCapacity(card.csd)]
                      ELSE sees
           /\ IF got THEN Works ELSE Fails
  /\ Same /\ UNCHANGED <<tries, v2, mmc, blind, moved>>

---------------------------------------------------------------------------
(* Transfers.                                                              *)

(* disk_status, for the report: a card without sectors is none.            *)
CanTransfer(d) ==
  /\ sdAt = "idle" /\ sees[d].up /\ (d = "fatfs") = (image = "bring-up")
  /\ d = "report" => sees[d].size > 0
Asked(d, lba, p) ==
  moved' = [lba |-> lba, place |-> p, mode |-> card.mode, excused |-> blind[d] \/ changed[d]]

(* CMD17 with its block, for whichever driver.                             *)
Read(d, lba) ==
  /\ CanTransfer(d) /\ who' = d /\ tries' = 0 /\ astray' = FALSE
  /\ \E e \in Exchange("CMD17", Place(lba, sees[d].block)), late \in 0..1, refused \in BOOLEAN :
       LET got == e.r = Ok /\ Accepts(e.card, "CMD17") /\ late = 0 /\ ~refused
       IN  /\ late + e.lost <= sdFaults
           /\ refused => e.card.place = Elsewhere
           /\ card' = Done(e.card) /\ sdFaults' = sdFaults - e.lost - late
           /\ ill' = (card.busy \/ e.lost + late > 0)
           /\ IF got THEN Works /\ Asked(d, lba, e.card.place) ELSE Fails /\ UNCHANGED moved
  /\ UNCHANGED <<image, v2, mmc, sees, swaps, blind, changed>>

ReadRow == Read("rows", 0)            \* t_sd_read
ReadLast == Read("rows", 1)           \* t_sd_write
SdblockRead(lba) == Read("report", lba)
DiskRead(lba) == Read("fatfs", lba)

(* CMD18 from sector 0 for the speed row.  Its buffer is a pointer, whose  *)
(* sizeof is 4: of each block it takes four bytes and two for a CRC, and   *)
(* then waits for the next block's token in the middle of this one's data. *)
(* aligned: the first of them that is not FF is FE, every time.            *)
Speed ==
  /\ CanTransfer("rows") /\ who' = "rows" /\ tries' = 0
  /\ \E e \in Exchange("CMD18", 0), late \in 0..1, aligned \in BOOLEAN :
       LET token == e.r = Ok /\ Accepts(e.card, "CMD18") /\ late = 0
       IN  /\ late + e.lost <= sdFaults
           /\ card' = Done(e.card) /\ sdFaults' = sdFaults - e.lost - late
           /\ ill' = (card.busy \/ e.lost + late > 0)
           /\ astray' = (token /\ ~aligned)
           /\ IF token /\ aligned THEN Works /\ Asked("rows", 0, e.card.place)
              ELSE Fails /\ UNCHANGED moved
  /\ UNCHANGED <<image, v2, mmc, sees, swaps, blind, changed>>

(* CMD24: the block is taken, then the card is busy with it, for longer    *)
(* than the driver waits if it is worn.                                    *)
Write(d, lba) ==
  /\ CanTransfer(d) /\ (d = "rows" => sees[d].size >= LeastSize)
  /\ who' = d /\ tries' = 0 /\ astray' = FALSE
  /\ \E e \in Exchange("CMD24", Place(lba, sees[d].block)), slow \in 0..1, refused \in BOOLEAN :
       LET took == e.r = Ok /\ Accepts(e.card, "CMD24") /\ ~refused
       IN  /\ slow + e.lost <= sdFaults /\ (slow = 1 => took)
           /\ refused => e.card.place = Elsewhere
           /\ card' = [Done(e.card) EXCEPT !.busy = @ \/ slow = 1]
           /\ sdFaults' = sdFaults - e.lost - slow
           /\ ill' = (card.busy \/ e.lost + slow > 0)
           /\ IF took /\ slow = 0 THEN Works /\ Asked(d, lba, e.card.place)
              ELSE Fails /\ UNCHANGED moved
  /\ UNCHANGED <<image, v2, mmc, sees, swaps, blind, changed>>

WriteRow == Write("rows", 1)
SdblockWrite(lba) == Write("report", lba)

(* sdblock_release, when the report is done.                               *)
Release ==
  /\ sdAt = "idle" /\ sees["report"].up
  /\ sees' = [sees EXCEPT !["report"] = Unseen]
  /\ UNCHANGED <<image, card, who, sdAt, tries, v2, mmc, failed, sdFaults, swaps, ill, histVars>>

(* The commit ends.                                                        *)
Settles ==
  /\ card.busy /\ card' = [card EXCEPT !.busy = FALSE]
  /\ ill' = TRUE
  /\ UNCHANGED <<callVars, sdFaults, swaps, histVars>>
Swap ==
  /\ sdAt = "idle" /\ swaps > 0 /\ swaps' = swaps - 1
  /\ \E k \in Cards : card' = Fresh(k)
  /\ changed' = [d \in Drivers |-> TRUE]
  /\ UNCHANGED <<callVars, sdFaults, ill, blind, moved, astray>>

SdInit(cards) ==
  /\ image \in {"test", "bring-up"} /\ \E k \in cards : card = Fresh(k)
  /\ who = "rows" /\ sdAt = "idle" /\ tries = 0 /\ v2 = FALSE /\ mmc = FALSE
  /\ sees = [d \in Drivers |-> Unseen] /\ failed = FALSE
  /\ sdFaults = MaxFaults /\ swaps = MaxSwaps /\ ill = FALSE
  /\ blind = [d \in Drivers |-> FALSE] /\ changed = [d \in Drivers |-> FALSE]
  /\ moved = [lba |-> 0, place |-> 0, mode |-> "ready", excused |-> FALSE]
  /\ astray = FALSE

SdNext ==
  \/ IdentifyCard \/ SdblockInit \/ DiskInitialize
  \/ GoIdle \/ IfCond \/ Which \/ OpCond \/ Ocr \/ BlockLength \/ Registers
  \/ ReadRow \/ ReadLast \/ WriteRow \/ Speed
  \/ \E lba \in Sectors : SdblockRead(lba) \/ SdblockWrite(lba) \/ DiskRead(lba)
  \/ Release \/ Settles \/ Swap

---------------------------------------------------------------------------
(* When a call works, the card has left idle and speaks SPI, whatever got  *)
(* lost on the way and although one bring-up ignores the end of its wait;  *)
(* and its size is what its register says.                                 *)
UpMeansReady ==
  sees[who].up /\ ~failed /\ ~changed[who] /\ sdAt = "idle" =>
    /\ Ready
    /\ who # "fatfs" /\ Fits(card.csd) => sees[who].size = RowsCapacity(card.csd)

(* A transfer that is reported as done was of the sector asked for: busy   *)
(* is not mistaken for consent, an address in sectors not for one in       *)
(* bytes - provided the driver was told which the card takes (section 14   *)
(* of the README) and the card has not been changed under it.              *)
SectorsAreTheOnesAskedFor ==
  moved.excused \/ (moved.place = moved.lba /\ moved.mode = "ready")

(* Nothing went wrong, so the call worked: any SD card for any driver, the *)
(* bring-up image takes an MMC too.  A transfer needs the card as it was   *)
(* brought up: the other driver's failed attempt leaves it idle.           *)
SoundCallsWork ==
  failed /\ sdAt = "idle" /\ ~ill /\ ~changed[who] /\ ~blind[who] =>
    \/ card.kind = "none" \/ (card.kind = "mmc" /\ who # "fatfs")
    \/ tries = 0 /\ ~Ready
GoodCardsWork == astray \/ SoundCallsWork

(* All that of a card at once.                                            *)
CardsAreTrue == UpMeansReady /\ SectorsAreTheOnesAskedFor /\ GoodCardsWork
=============================================================================
