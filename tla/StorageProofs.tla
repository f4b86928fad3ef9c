---------------------------- MODULE StorageProofs ----------------------------
(* What Save Report and the SD write row leave of a card, for every geometry *)
(* of it, every length of report and however many transfers fail: the boot   *)
(* sector as it was, nothing but entries in the FAT, the last sector as the  *)
(* row found it, and, in the second half, the reports that were there and    *)
(* the chains of the other files.                                            *)
EXTENDS Storage, FiniteSetTheorems, SequenceTheorems, WellFoundedInduction, TLAPS

---------------------------------------------------------------------------
(* The invariant.                                                          *)

SectorSet ==
  {Boot, FsInfo} \cup FatSectors
  \cup {DataSector(c, s) : c \in Clusters, s \in 0..(ClusterSectors - 1)}
  \cup {<<"root", s>> : s \in 0..(RootSectors - 1)}

(* What a sector holds: a FAT sector the entries of its clusters, each of    *)
(* them free, the next cluster or the end; a sector of a cluster or of the   *)
(* root directory units, of which one that is taken for the report's entry   *)
(* has a cluster, or none, and a size.                                       *)
FatEntries == {0} \cup Clusters \cup {Eoc}
Tables(s) == [{c \in Clusters : FatSector(c) = s} -> FatEntries]
UnitIs(u) == IsReport(u) => u[2] \in {0} \cup Clusters /\ u[3] \in Nat
IsText(data) ==
  /\ data = [j \in 1..SectorUnits |-> data[j]]
  /\ \A j \in 1..SectorUnits : UnitIs(data[j])
Texts == {"data", "root"}
Holds(s, data) ==
  /\ s \in FatSectors => data \in Tables(s)
  /\ s \in SectorSet /\ s[1] \in Texts => IsText(data)

CardHolds ==
  /\ DOMAIN card = SectorSet /\ card[Boot] \in {"fat32", "fat16", "none"}
  /\ \A s \in SectorSet : Holds(s, card[s])

(* Where a call is in the directory: in a sector of it.                      *)
DirIs ==
  /\ dir = [c |-> dir.c, s |-> dir.s, i |-> dir.i]
  /\ dir.c \in {0} \cup Clusters /\ dir.i \in 1..SectorUnits
  /\ dir.s \in 0..((IF dir.c = 0 THEN RootSectors ELSE ClusterSectors) - 1)

(* The window holds it too; the boot sector is in it until the directory is read, *)
(* and never dirty.                                                          *)
RowPlaces == {"row_write", "row_back", "row_restore", "row_confirm"}
Early == {"idle", "boot", "fsinfo", "find", "leave"} \cup RowPlaces
WindowHolds ==
  /\ win = [s |-> win.s, data |-> win.data, dirty |-> win.dirty] /\ win.dirty \in BOOLEAN
  /\ Holds(win.s, win.data)
  /\ win.s = Boot => ~win.dirty /\ at \in Early

(* A call that has the file open knows its entry, where it is in the file    *)
(* and, once it is inside a sector, which one that is.                       *)
InFile ==
  at \in {"seek", "write", "sector", "copy", "close"} \/ (at \in Chaining /\ chain.for = "file")
FileIs ==
  /\ fp = [entry |-> fp.entry, i |-> fp.i, scl |-> fp.scl, size |-> fp.size, ptr |-> fp.ptr,
           c |-> fp.c, sect |-> fp.sect, modified |-> fp.modified]
  /\ done \in 0..ReportUnits
  /\ InFile => /\ fp.entry[1] \in Texts /\ fp.scl \in {0} \cup Clusters
               /\ fp.size \in Nat /\ fp.ptr \in Nat
  /\ at \in {"sector", "copy"} => Left > 0
  /\ at = "copy" => fp.sect[1] = "data"
  /\ at = "write" /\ Left > 0 /\ fp.ptr % SectorUnits # 0 => fp.sect[1] = "data"
  /\ at = "sector" \/ (at \in Chaining /\ chain.for = "file") => Left > 0 /\ fp.ptr % SectorUnits = 0
ChainIs ==
  /\ chain = [for |-> chain.for, clst |-> chain.clst, scl |-> chain.scl, ncl |-> chain.ncl]
  /\ at \in Chaining \cup {"clear"} => chain.for \in {"file", "dir"}
  /\ chain.ncl \in {0} \cup Clusters
  /\ at \in {"probe", "hunt", "mark", "link"} =>
       chain.ncl \in Clusters /\ chain.clst \in {0} \cup Clusters
  /\ at = "link" => chain.clst # 0
  /\ at = "probe" => chain.scl \in Clusters

(* Files[] holds the file exactly while a call has it open.                  *)
LockIs == locked => InFile \/ at \in {"sync", "leave"}

(* The row keeps what it read, until that is back.                           *)
RowSays == {"row_passed", "row_failed"}
RowIs ==
  /\ at \in RowPlaces => sd = [orig |-> sd.orig, ok |-> sd.ok, was |-> sd.was] /\ IsText(sd.orig)
  /\ at \notin RowPlaces \cup {"idle"} => result \notin RowSays
  /\ ~MayGarble /\ (at = "row_confirm" \/ (at = "idle" /\ result \in RowSays)) =>
       card[LastSector] = sd.orig

StorageInv == CardHolds /\ WindowHolds /\ DirIs /\ FileIs /\ ChainIs /\ LockIs /\ RowIs

---------------------------------------------------------------------------
(* Numbers.                                                                *)

(* A multiple of m that is less than m either way is zero.                 *)
LEMMA Small ==
  ASSUME NEW m \in Nat \ {0}, NEW x \in Int, x * m < m, x * m > -m
  PROVE  x = 0
  <1>1. CASE x >= 1
    <2>1. x * m = (x - 1) * m + m OBVIOUS
    <2>2. (x - 1) * m >= 0 BY <1>1
    <2> QED BY <2>1, <2>2
  <1>2. CASE x <= -1
    <2>1. x * m = (x + 1) * m - m OBVIOUS
    <2>2. (x + 1) * m <= 0 BY <1>2
    <2> QED BY <2>1, <2>2
  <1> QED BY <1>1, <1>2

(* Whole sectors more leave the place in the sector what it was.           *)
LEMMA Mod ==
  ASSUME NEW a \in Nat, NEW k \in Nat, NEW m \in Nat \ {0}
  PROVE  (a + k * m) % m = a % m
  <1> DEFINE q == a \div m
             r == a % m
             b == a + k * m
             q2 == b \div m
             r2 == b % m
  <1>0. b \in Nat OBVIOUS
  <1>1. a = q * m + r /\ 0 <= r /\ r < m /\ q \in Int /\ r \in Int OBVIOUS
  <1>2. b = q2 * m + r2 /\ 0 <= r2 /\ r2 < m /\ q2 \in Int /\ r2 \in Int BY <1>0
  <1> HIDE DEF q, r, q2, r2
  <1>3. (q2 - q - k) * m = r - r2
    <2>1. q2 * m + r2 = q * m + r + k * m BY <1>1, <1>2
    <2>2. (q2 - q - k) * m = q2 * m - q * m - k * m BY <1>1, <1>2
    <2> QED BY <1>1, <1>2, <2>1, <2>2
  <1>4. q2 - q - k = 0 BY <1>1, <1>2, <1>3, Small
  <1>5. r = r2 BY <1>1, <1>2, <1>3, <1>4
  <1> QED BY <1>5 DEF r, r2

(* No more whole sectors than fit.                                         *)
LEMMA Parts ==
  ASSUME NEW l \in Nat, NEW m \in Nat \ {0}, NEW k \in Nat, k <= l \div m
  PROVE  k * m <= l
  <1> DEFINE q == l \div m
  <1>1. q \in Int /\ q * m <= l OBVIOUS
  <1>2. k <= q OBVIOUS
  <1> HIDE DEF q
  <1>3. (q - k) * m >= 0 BY <1>1, <1>2
  <1>4. (q - k) * m = q * m - k * m BY <1>1
  <1> QED BY <1>1, <1>3, <1>4

---------------------------------------------------------------------------
(* Sectors and what they hold.                                             *)

(* What kind of sector it is says which it can be.                         *)
LEMMA Names ==
  /\ Boot[1] = "boot" /\ FsInfo[1] = "fsinfo" /\ Nowhere[1] = "none"
  /\ \A c, s : DataSector(c, s)[1] = "data" /\ <<"root", s>>[1] = "root"
  /\ \A c : FatSector(c)[1] = "fat"
  /\ \A s \in FatSectors : s[1] = "fat"
BY DEF Boot, FsInfo, Nowhere, DataSector, FatSector, FatSectors

(* The sectors there are.                                                  *)
LEMMA Sectors ==
  /\ FatSectors \subseteq SectorSet /\ \A c \in Clusters : FatSector(c) \in FatSectors
  /\ Boot \in SectorSet /\ FsInfo \in SectorSet
  /\ LastSector \in SectorSet /\ LastSector[1] = "data"
<1>1. MaxCluster \in Clusters /\ ClusterSectors - 1 \in 0..(ClusterSectors - 1)
  BY StorageAssumption DEF Clusters
<1> QED BY <1>1, Names DEF SectorSet, FatSectors, LastSector

(* A unit that is no report's entry may be anything.                       *)
LEMMA Plain ==
  /\ UnitIs(EndOfDir) /\ UnitIs(Gone) /\ UnitIs(Junk)
  /\ \A a, b : UnitIs(<<a, b>>)
  /\ \A a, b : UnitIs(Entry("other", a, b)) /\ UnitIs(Entry("label", a, b))
BY DEF UnitIs, IsReport, EndOfDir, Gone, Junk, Entry

(* The entry of the report's file.                                         *)
LEMMA ReportUnit ==
  ASSUME NEW c \in {0} \cup Clusters, NEW size \in Nat
  PROVE  UnitIs(Entry("report", c, size))
BY DEF UnitIs, IsReport, Entry

(* A sector of one thing.                                                  *)
LEMMA FilledIs == ASSUME NEW u, UnitIs(u) PROVE IsText(Filled(u))
BY DEF IsText, Filled

(* Text of a report may be anywhere units are.                             *)
LEMMA TextIs == ASSUME NEW x PROVE IsText(Text(x))
BY Plain DEF IsText, Text

(* One unit of a sector changed.                                           *)
LEMMA UnitSet ==
  ASSUME NEW data, IsText(data), NEW j, NEW v, UnitIs(v)
  PROVE  IsText([data EXCEPT ![j] = v])
<1> DEFINE d == [data EXCEPT ![j] = v]
<1>1. data = [i \in 1..SectorUnits |-> data[i]] BY DEF IsText
<1>2. d = [i \in 1..SectorUnits |-> IF i = j THEN v ELSE data[i]] BY <1>1
<1>3. \A i \in 1..SectorUnits : d[i] = IF i = j THEN v ELSE data[i] BY <1>2
<1> HIDE DEF d
<1>4. \A i \in 1..SectorUnits : UnitIs(d[i]) BY <1>3 DEF IsText
<1>5. d = [i \in 1..SectorUnits |-> d[i]] BY <1>2, <1>3
<1>6. IsText(d) BY <1>4, <1>5 DEF IsText
<1> QED BY <1>6 DEF d

(* One entry of the FAT changed.                                           *)
LEMMA EntrySet ==
  ASSUME NEW s, NEW t \in Tables(s), NEW c, NEW v \in FatEntries
  PROVE  [t EXCEPT ![c] = v] \in Tables(s)
BY DEF Tables

(* A sector written with what belongs there.                               *)
LEMMA SectorWritten ==
  ASSUME CardHolds, NEW s, s # Boot, NEW data, Holds(s, data)
  PROVE  LET k == [card EXCEPT ![s] = data]
         IN  /\ DOMAIN k = SectorSet /\ k[Boot] = card[Boot]
             /\ \A x \in SectorSet : Holds(x, k[x])
<1> DEFINE k == [card EXCEPT ![s] = data]
<1>1. DOMAIN k = SectorSet BY DEF CardHolds
<1>2. \A x \in SectorSet : k[x] = IF x = s THEN data ELSE card[x] BY DEF CardHolds
<1> HIDE DEF k
<1>3. k[Boot] = card[Boot] BY <1>2, Sectors
<1>4. \A x \in SectorSet : Holds(x, k[x]) BY <1>2 DEF CardHolds
<1> QED BY <1>1, <1>3, <1>4 DEF k

(* Data sectors written with text.                                         *)
LEMMA TextWritten ==
  ASSUME CardHolds, NEW k, k = [x \in SectorSet |-> k[x]],
         \A x \in SectorSet : k[x] = card[x] \/ (x[1] = "data" /\ IsText(k[x]))
  PROVE  /\ DOMAIN k = SectorSet /\ k[Boot] = card[Boot]
         /\ \A x \in SectorSet : Holds(x, k[x])
<1>1. DOMAIN k = SectorSet OBVIOUS
<1>2. k[Boot] = card[Boot] BY Names, Sectors
<1>3. ASSUME NEW x \in SectorSet PROVE Holds(x, k[x])
  <2>1. CASE k[x] = card[x] BY <2>1 DEF CardHolds
  <2>2. CASE x[1] = "data" /\ IsText(k[x]) BY <2>2, Names DEF Holds
  <2> QED BY <2>1, <2>2
<1> QED BY <1>1, <1>2, <1>3

(* Every card that is put in is one the invariant is true of.              *)
LEMMA VolumeHolds ==
  ASSUME NEW kd \in {"fat32", "fat16", "none"}, NEW fill, NEW info
  PROVE  LET k == Volume(kd, fill, info)
         IN  /\ DOMAIN k = SectorSet /\ k[Boot] = kd
             /\ \A x \in SectorSet : Holds(x, k[x])
<1> DEFINE used == IF fill = "taken" THEN Clusters ELSE IF kd = "fat32" THEN {Root, 3} ELSE {3}
           size == IF kd = "fat32" THEN ClusterUnits ELSE RootSectors * SectorUnits
           At(j) == IF j = 1 THEN Entry("other", 3, 1)
                    ELSE IF fill \in {"room", "taken"} THEN EndOfDir
                    ELSE IF j = size /\ fill = "gone" THEN Gone
                    ELSE Entry("label", 0, 0)
           Table(s) == [i \in 1..SectorUnits |-> At(s * SectorUnits + i)]
           Fats(k) == [c \in {x \in Clusters : FatSector(x) = k} |-> IF c \in used THEN Eoc ELSE 0]
           k == Volume(kd, fill, info)
<1>1. \A j : UnitIs(At(j)) BY Plain
<1> HIDE DEF At
<1>2. \A s : IsText(Table(s)) BY <1>1 DEF IsText
<1>3. IsText(Filled(Junk)) BY Plain, FilledIs
<1>4. \A x : Fats(x) \in Tables(x) BY DEF Tables, FatEntries
<1> HIDE DEF Fats, Table
<1>5. k = [x \in SectorSet |->
        CASE x = Boot -> kd
          [] x = FsInfo -> info
          [] x[1] = "fat" -> Fats(x)
          [] x[1] = "root" -> Table(x[2])
          [] x[1] = "data" /\ x[2] = Root /\ kd = "fat32" -> Table(x[3])
          [] OTHER -> Filled(Junk)]
  BY DEF Volume, SectorSet, Fats, Table, At
<1> HIDE DEF k
<1>6. DOMAIN k = SectorSet /\ k[Boot] = kd BY <1>5, Names, Sectors
<1>7. ASSUME NEW x \in SectorSet, x[1] \in Texts PROVE IsText(k[x])
  BY <1>2, <1>3, <1>5, <1>7, Names DEF Texts
<1>8. ASSUME NEW x \in FatSectors PROVE k[x] \in Tables(x)
  BY <1>4, <1>5, Names, Sectors
<1> QED BY <1>6, <1>7, <1>8 DEF k, Holds

---------------------------------------------------------------------------
(* Places.                                                                 *)

(* Places outside the file system's calls.                                   *)
Resting == RowPlaces \cup {"idle"}

(* What each place has in the window.                                      *)
LEMMA WantedAt ==
  /\ at = "boot" => Wanted = Boot
  /\ at = "fsinfo" => Wanted = FsInfo
  /\ at \in {"find", "alloc"} => Wanted = DirSector
  /\ at \in {"find_next", "alloc_next"} => Wanted = FatOf(dir.c)
  /\ at = "seek" /\ fp.ptr > ClusterUnits => Wanted = FatOf(fp.c)
  /\ at \in {"stretch", "link"} => Wanted = FatOf(chain.clst)
  /\ at \in {"probe", "hunt", "mark"} => Wanted = FatOf(chain.ncl)
  /\ at = "copy" => Wanted = fp.sect
  /\ at = "close" => Wanted = fp.entry
BY DEF Wanted

(* Any sector a place wants is a part of a directory, a table, the file's   *)
(* sector or entry, unless a volume is being mounted.                       *)
LEMMA Wishes ==
  \/ Wanted = Nowhere /\ at # "boot"
  \/ at = "boot" /\ Wanted = Boot
  \/ at = "fsinfo" /\ Wanted = FsInfo
  \/ at \in {"find", "alloc"} /\ Wanted = DirSector
  \/ at \notin {"idle", "boot", "fsinfo", "find", "alloc"} \cup RowPlaces
       /\ \E c : Wanted = FatOf(c)
  \/ at = "copy" /\ Wanted = fp.sect
  \/ at = "close" /\ Wanted = fp.entry
BY DEF Wanted, Chaining, RowPlaces

(* Between calls, and in the row, nothing is wanted and nothing flushed.   *)
LEMMA Rests == ASSUME at \in Resting PROVE Wanted = Nowhere /\ ~Syncs
BY DEF Wanted, Syncs, Resting, RowPlaces, Chaining

(* The directory's sector is one of its sectors.                           *)
LEMMA DirSectorIs == ASSUME DirIs PROVE DirSector \in SectorSet /\ DirSector[1] \in Texts
<1>1. CASE dir.c = 0
  <2>1. dir.s \in 0..(RootSectors - 1) BY <1>1 DEF DirIs
  <2> QED BY <1>1, <2>1, Names DEF DirSector, SectorSet, Texts
<1>2. CASE dir.c # 0
  <2>1. dir.c \in Clusters /\ dir.s \in 0..(ClusterSectors - 1) BY <1>2 DEF DirIs
  <2> QED BY <1>2, <2>1, Names DEF DirSector, SectorSet, Texts
<1> QED BY <1>1, <1>2

(* With the directory in the window its units are those of the window.     *)
LEMMA DirHere ==
  ASSUME StorageInv, at \in {"find", "alloc"}, Wanted \in {Nowhere, win.s}
  PROVE  /\ win.s = DirSector /\ win.s \in SectorSet /\ win.s[1] \in Texts
         /\ IsText(win.data) /\ UnitIs(win.data[dir.i])
<1>1. win.s = DirSector BY WantedAt, DirSectorIs, Names DEF StorageInv, Texts
<1>2. win.s \in SectorSet /\ win.s[1] \in Texts BY <1>1, DirSectorIs DEF StorageInv
<1>3. IsText(win.data) BY <1>2 DEF StorageInv, WindowHolds, Holds
<1>4. dir.i \in 1..SectorUnits BY DEF StorageInv, DirIs
<1> QED BY <1>1, <1>2, <1>3, <1>4 DEF IsText

(* get_fat gives an entry of the table, or 1.                              *)
LEMMA FatHere ==
  ASSUME StorageInv, NEW c, Wanted = FatOf(c), Wanted \in {Nowhere, win.s}
  PROVE  /\ GetFat(c) \in {1} \cup FatEntries
         /\ c \in Clusters => /\ win.s = FatSector(c) /\ win.s \in FatSectors
                              /\ win.data \in Tables(win.s)
         /\ GetFat(c) # 1 => c \in Clusters
<1>1. CASE c \notin Clusters BY <1>1 DEF GetFat, Valid
<1>2. CASE c \in Clusters
  <2>1. win.s = FatSector(c) /\ win.s \in FatSectors
    BY <1>2, Names, Sectors DEF FatOf, Valid
  <2>2. win.data \in Tables(win.s) BY <2>1 DEF StorageInv, WindowHolds, Holds
  <2>3. win.data[c] \in FatEntries BY <1>2, <2>1, <2>2 DEF Tables
  <2> QED BY <1>2, <2>1, <2>2, <2>3 DEF GetFat, Valid
<1> QED BY <1>1, <1>2

(* Entries of the FAT are numbers; 1 is none of them.                      *)
LEMMA EntryIs ==
  ASSUME NEW e \in {1} \cup FatEntries
  PROVE  e \in Nat /\ (Valid(e) <=> e \in Clusters) /\ (e < 2 \/ e \in Clusters \/ e = Eoc)
BY StorageAssumption DEF FatEntries, Clusters, Eoc, Valid

---------------------------------------------------------------------------
(* Parts of a step.                                                        *)

(* A step of a call leaves what is said of the row alone.                  *)
LEMMA RowKept ==
  ASSUME RowIs, at \notin Resting, at' \notin RowPlaces,
         result' = result \/ result' \in {"no_write", "no_fs"}
  PROVE  RowIs'
<1>1. result' \notin RowSays BY DEF RowIs, Resting, RowSays
<1> QED BY <1>1 DEF RowIs, RowPlaces, RowSays

(* A failed transfer leaves the file as it is, and closed or to be closed.  *)
LEMMA FailsKeep ==
  ASSUME StorageInv, Fails, at \notin Resting, UNCHANGED <<dir, fp, chain, done>>
  PROVE  /\ DirIs' /\ FileIs' /\ ChainIs' /\ LockIs' /\ RowIs'
         /\ at' \in {"idle", "find", "leave"} \/ (InFile /\ at' = "close")
<1>1. at' \in {"idle", "find", "leave"} \/ (InFile /\ at' = "close")
  BY DEF Fails, Close, InFile
<1>2. DirIs' BY DEF StorageInv, DirIs
<1>3. FileIs' BY <1>1 DEF StorageInv, FileIs, InFile, Chaining
<1>4. ChainIs' BY <1>1 DEF StorageInv, ChainIs, Chaining
<1>5. LockIs'
  <2>1. CASE at' = "idle"
    BY <2>1 DEF Fails, Close, StorageInv, LockIs, InFile, Chaining
  <2>2. CASE at' = "find"
    BY <2>2 DEF Fails, Close, StorageInv, LockIs, InFile, Chaining
  <2>3. CASE at' \in {"leave", "close"}
    BY <2>3 DEF LockIs, InFile
  <2> QED BY <1>1, <2>1, <2>2, <2>3
<1>6. RowIs'
  <2>1. at' \notin RowPlaces BY <1>1 DEF RowPlaces
  <2>2. result' = result \/ result' \in {"no_write", "no_fs"} BY DEF Fails
  <2> QED BY <2>1, <2>2, RowKept DEF StorageInv
<1> QED BY <1>1, <1>2, <1>3, <1>4, <1>5, <1>6

(* The window as the card has the sector.                                  *)
LEMMA NoWindowHolds == ASSUME win' = NoWindow PROVE WindowHolds'
BY Names DEF NoWindow, WindowHolds, Holds, Texts

---------------------------------------------------------------------------
(* The window and the card.                                                *)

(* sync_window: what is written is what belongs there.                     *)
LEMMA FlushKeeps == ASSUME StorageInv, Flush PROVE StorageInv'
<1>0. /\ win.dirty /\ at \notin Resting /\ win.s # Boot /\ Holds(win.s, win.data)
      /\ win = [s |-> win.s, data |-> win.data, dirty |-> win.dirty]
      /\ UNCHANGED <<dir, fp, chain, done, sd>>
  BY Rests DEF Flush, StorageInv, WindowHolds, sdVars
<1> DEFINE written == [card EXCEPT ![win.s] = win.data]
<1>1. /\ DOMAIN written = SectorSet /\ written[Boot] = card[Boot]
      /\ \A x \in SectorSet : Holds(x, written[x])
  BY <1>0, SectorWritten DEF StorageInv
<1>2. card' \in {card, written} BY DEF Flush
<1> HIDE DEF written
<1>3. CardHolds' BY <1>1, <1>2 DEF StorageInv, CardHolds
<1>4. \/ UNCHANGED <<at, result, locked>> /\ win' = [win EXCEPT !.dirty = FALSE]
      \/ Fails /\ UNCHANGED win
  BY DEF Flush
<1>5. CASE UNCHANGED <<at, result, locked>> /\ win' = [win EXCEPT !.dirty = FALSE]
  <2>1. win' = [s |-> win.s, data |-> win.data, dirty |-> FALSE] BY <1>0, <1>5
  <2>2. WindowHolds' BY <1>0, <2>1 DEF WindowHolds
  <2>3. DirIs' /\ FileIs' /\ ChainIs' /\ LockIs'
    BY <1>0, <1>5 DEF StorageInv, DirIs, FileIs, InFile, ChainIs, LockIs, Left
  <2>4. RowIs'
    <3>1. at' \notin RowPlaces BY <1>0, <1>5 DEF Resting
    <3> QED BY <1>0, <1>5, <3>1, RowKept DEF StorageInv
  <2> QED BY <1>3, <2>2, <2>3, <2>4 DEF StorageInv
<1>6. CASE Fails /\ UNCHANGED win
  <2>1. WindowHolds' BY <1>0, <1>6 DEF StorageInv, WindowHolds
  <2> QED BY <1>0, <1>3, <1>6, <2>1, FailsKeep DEF StorageInv
<1> QED BY <1>4, <1>5, <1>6

(* move_window: what is read is what the card holds.                       *)
LEMMA FetchKeeps == ASSUME StorageInv, Fetch PROVE StorageInv'
<1>0. /\ Wanted # Nowhere /\ at \notin Resting /\ UNCHANGED <<card, dir, fp, chain, done, sd>>
  BY Rests DEF Fetch, sdVars
<1>1. CardHolds' BY <1>0 DEF StorageInv, CardHolds
<1>2. CASE win' = NoWindow /\ Fails
  BY <1>0, <1>1, <1>2, NoWindowHolds, FailsKeep DEF StorageInv
<1>3. CASE /\ win' = [s |-> Wanted, data |-> card[Wanted], dirty |-> FALSE]
           /\ UNCHANGED <<at, result, locked>>
  <2>1. Holds(Wanted, card[Wanted])
    BY Sectors DEF StorageInv, CardHolds, Holds
  <2>2. Wanted = Boot => at \in Early
    <3>1. CASE \E c : Wanted = FatOf(c)
      BY <1>0, <3>1, Names DEF FatOf
    <3>2. CASE at = "copy" /\ Wanted = fp.sect
      BY <3>2, Names DEF StorageInv, FileIs
    <3>3. CASE at = "close" /\ Wanted = fp.entry
      BY <3>3, Names DEF StorageInv, FileIs, InFile, Texts
    <3>4. CASE at \in {"boot", "fsinfo", "find"}
      BY <3>4 DEF Early
    <3>5. CASE at = "alloc" /\ Wanted = DirSector
      BY <3>5, Names, DirSectorIs DEF StorageInv, Texts
    <3> QED BY <1>0, <3>1, <3>2, <3>3, <3>4, <3>5, Wishes
  <2>3. WindowHolds' BY <1>3, <2>1, <2>2 DEF WindowHolds
  <2>4. DirIs' /\ FileIs' /\ ChainIs' /\ LockIs'
    BY <1>0, <1>3 DEF StorageInv, DirIs, FileIs, InFile, ChainIs, LockIs, Left
  <2>5. RowIs'
    <3>1. at' \notin RowPlaces BY <1>0, <1>3 DEF Resting
    <3> QED BY <1>0, <1>3, <3>1, RowKept DEF StorageInv
  <2> QED BY <1>1, <2>3, <2>4, <2>5 DEF StorageInv
<1> QED BY <1>2, <1>3 DEF Fetch

---------------------------------------------------------------------------
(* A call up to the file's end.                                            *)

(* A call begins with nothing in the window and no file open.              *)
LEMMA CallKeeps == ASSUME StorageInv, Call PROVE StorageInv'
<1>0. /\ UNCHANGED <<card, dir, fp, chain>> /\ done' = 0 /\ sd' = NoRow /\ at = "idle"
      /\ \/ at' = "boot" /\ result' = "ok" /\ win' = NoWindow /\ locked' = FALSE
         \/ at' = "idle" /\ result' = "no_card" /\ UNCHANGED <<win, locked>>
  BY DEF Call, Invalidate, ClearShare
<1>1. CardHolds' BY <1>0 DEF StorageInv, CardHolds
<1>2. WindowHolds'
  <2>1. CASE win' = NoWindow BY <2>1, NoWindowHolds
  <2>2. CASE UNCHANGED <<win, at>> BY <2>2 DEF StorageInv, WindowHolds
  <2> QED BY <1>0, <2>1, <2>2
<1>3. DirIs' BY <1>0 DEF StorageInv, DirIs
<1>4. FileIs' BY <1>0, StorageAssumption DEF StorageInv, FileIs, InFile, Chaining
<1>5. ChainIs' BY <1>0 DEF StorageInv, ChainIs, Chaining
<1>6. LockIs' BY <1>0 DEF StorageInv, LockIs, InFile, Chaining
<1>7. RowIs' BY <1>0 DEF RowIs, RowPlaces, RowSays
<1> QED BY <1>1, <1>2, <1>3, <1>4, <1>5, <1>6, <1>7 DEF StorageInv

(* A directory is read from its first sector.                              *)
LEMMA TopIs == ASSUME NEW kd, dir' = Top(kd) PROVE DirIs'
BY StorageAssumption DEF Top, DirIs, Root, Clusters

(* check_fs looks at the boot sector, and at nothing that is dirty.        *)
LEMMA MountKeeps == ASSUME StorageInv, Mount \/ MountInfo PROVE StorageInv'
<1>0. /\ UNCHANGED <<card, win, fp, chain, locked, sd, done>> /\ at \in {"boot", "fsinfo"}
      /\ at' \in {"idle", "find", "fsinfo"} /\ (result' = result \/ result' = "no_fs")
      /\ UNCHANGED dir \/ dir' = Top(win.data)
  BY DEF Mount, MountInfo, Here, sdVars
<1>1. CardHolds' BY <1>0 DEF StorageInv, CardHolds
<1>2. WindowHolds' BY <1>0 DEF StorageInv, WindowHolds, Early
<1>3. DirIs' BY <1>0, TopIs DEF StorageInv, DirIs
<1>4. FileIs' BY <1>0 DEF StorageInv, FileIs, InFile, Chaining
<1>5. ChainIs' BY <1>0 DEF StorageInv, ChainIs, Chaining
<1>6. LockIs' BY <1>0 DEF StorageInv, LockIs, InFile, Chaining
<1>7. RowIs' BY <1>0, RowKept DEF StorageInv, RowPlaces, Resting
<1> QED BY <1>1, <1>2, <1>3, <1>4, <1>5, <1>6, <1>7 DEF StorageInv

(* The next entry is in the directory too.                                 *)
LEMMA DirNextIs ==
  ASSUME DirIs, NEW CONSTANT table, NEW ACTION end, DirNext(end, table)
  PROVE  \/ DirIs' /\ UNCHANGED <<at, result>>
         \/ at' = table /\ dir.c # 0 /\ UNCHANGED <<dir, result>>
         \/ end
<1>1. CASE dir.i < SectorUnits /\ dir' = [dir EXCEPT !.i = @ + 1] /\ UNCHANGED <<at, result>>
  <2>1. dir' = [c |-> dir.c, s |-> dir.s, i |-> dir.i + 1] BY <1>1 DEF DirIs
  <2>2. dir.i + 1 \in 1..SectorUnits BY <1>1, StorageAssumption DEF DirIs
  <2> QED BY <1>1, <2>1, <2>2 DEF DirIs
<1>2. CASE /\ dir.s + 1 < (IF dir.c = 0 THEN RootSectors ELSE ClusterSectors)
           /\ dir' = [dir EXCEPT !.s = @ + 1, !.i = 1] /\ UNCHANGED <<at, result>>
  <2>1. dir' = [c |-> dir.c, s |-> dir.s + 1, i |-> 1] BY <1>2 DEF DirIs
  <2>2. 1 \in 1..SectorUnits BY StorageAssumption
  <2>3. dir.s + 1 \in 0..((IF dir.c = 0 THEN RootSectors ELSE ClusterSectors) - 1)
    BY <1>2, StorageAssumption DEF DirIs
  <2> QED BY <1>2, <2>1, <2>2, <2>3 DEF DirIs
<1> QED BY <1>1, <1>2 DEF DirNext

(* A file that is opened is where its entry says.                          *)
LEMMA OpenedIs ==
  ASSUME NEW e, NEW CONSTANT new, Opened(e, new), at \in {"find", "alloc"},
         e[2] \in {0} \cup Clusters, e[3] \in Nat, win.s[1] \in Texts,
         done \in 0..ReportUnits, UNCHANGED done
  PROVE  /\ FileIs' /\ locked' /\ at' \in {"seek", "write"} /\ UNCHANGED result
<1>1. /\ fp' = [entry |-> win.s, i |-> dir.i, scl |-> e[2], size |-> e[3], ptr |-> e[3],
                c |-> e[2], sect |-> Nowhere, modified |-> new]
      /\ at' = IF e[3] > 0 THEN "seek" ELSE "write"
      /\ locked' = TRUE /\ UNCHANGED result
  BY DEF Opened, NoFile, IncShare
<1>2. at' = "write" => fp'.ptr % SectorUnits = 0 BY <1>1, StorageAssumption
<1> QED BY <1>1, <1>2 DEF FileIs, InFile, Chaining

(* No file is open: what is known of one is nothing.                       *)
LEMMA FileLeft == ASSUME FileIs, UNCHANGED <<fp, done>>, ~InFile' PROVE FileIs'
BY DEF FileIs, InFile

(* What is known of a file stays known while the call is in it.            *)
LEMMA FileStays ==
  ASSUME FileIs, InFile, UNCHANGED done,
         fp' = [entry |-> fp.entry, i |-> fp'.i, scl |-> fp'.scl, size |-> fp.size,
                ptr |-> fp.ptr, c |-> fp'.c, sect |-> fp'.sect, modified |-> fp'.modified],
         fp'.scl \in {0} \cup Clusters,
         at' = "close"
  PROVE  FileIs'
BY DEF FileIs, InFile, Chaining

(* A unit or an entry of the sector in the window changed.                 *)
LEMMA ChangeIs ==
  ASSUME WindowHolds, NEW j, NEW v, Change(j, v), win.s # Boot,
         Holds(win.s, [win.data EXCEPT ![j] = v])
  PROVE  WindowHolds'
<1> DEFINE d == [win.data EXCEPT ![j] = v]
<1>1. win' = [s |-> win.s, data |-> d, dirty |-> TRUE] BY DEF Change, WindowHolds
<1>2. Holds(win.s, d) OBVIOUS
<1> HIDE DEF d
<1> QED BY <1>1, <1>2 DEF WindowHolds

(* Sectors of a directory or of data hold units.                           *)
LEMMA UnitsHold ==
  ASSUME NEW s, s[1] \in Texts, NEW data, s \in SectorSet => IsText(data)
  PROVE  Holds(s, data)
BY Names DEF Holds, Texts

(* Tables, entries.                                                        *)
LEMMA EntriesHold ==
  ASSUME NEW s \in FatSectors, NEW data \in Tables(s)
  PROVE  Holds(s, data)
BY Names DEF Holds, Texts

(* dir_find.                                                               *)
LEMMA FindKeeps == ASSUME StorageInv, Find PROVE StorageInv'
<1> DEFINE e == win.data[dir.i]
<1>0. /\ at = "find" /\ Wanted \in {Nowhere, win.s} /\ ~locked
      /\ UNCHANGED <<card, win, chain, sd, done>>
  BY DEF Find, Here, sdVars, StorageInv, LockIs, InFile, Chaining
<1>1. /\ win.s = DirSector /\ win.s \in SectorSet /\ win.s[1] \in Texts /\ UnitIs(e)
  BY <1>0, DirHere
<1>2. \/ at' = "alloc" /\ DirIs' /\ UNCHANGED <<fp, locked, result>>
      \/ at' = "leave" /\ UNCHANGED <<dir, fp, locked>> /\ result' = "no_write"
      \/ IsReport(e) /\ Opened(e, FALSE) /\ UNCHANGED dir
      \/ at' = "find_next" /\ UNCHANGED <<dir, fp, locked, result>>
      \/ DirIs' /\ UNCHANGED <<at, fp, locked, result>>
  <2>1. NotFound => at' = "alloc" /\ DirIs' /\ UNCHANGED result
    BY TopIs DEF NotFound
  <2>2. DirNext(NotFound, "find_next") =>
          \/ DirIs' /\ UNCHANGED <<at, result>>
          \/ at' = "find_next" /\ UNCHANGED <<dir, result>>
          \/ NotFound
    <3> HIDE DEF e
    <3> QED BY DirNextIs DEF StorageInv
  <2> QED BY <2>1, <2>2 DEF Find, Refused
<1> HIDE DEF e
<1>3. IsReport(e) => e[2] \in {0} \cup Clusters /\ e[3] \in Nat BY <1>1 DEF UnitIs
<1>4. IsReport(e) /\ Opened(e, FALSE) =>
        FileIs' /\ locked' /\ at' \in {"seek", "write"} /\ UNCHANGED result
  BY <1>0, <1>1, <1>3, OpenedIs DEF StorageInv, FileIs
<1>5. CardHolds' BY <1>0 DEF StorageInv, CardHolds
<1>6. WindowHolds'
  <2>1. win.s # Boot BY <1>1, Names DEF Texts
  <2> QED BY <1>0, <2>1 DEF StorageInv, WindowHolds
<1>7. DirIs' BY <1>2 DEF StorageInv, DirIs
<1>8. FileIs'
  <2>1. CASE at' \in {"alloc", "leave", "find_next", "find"} /\ UNCHANGED fp
    BY <1>0, <2>1, FileLeft DEF StorageInv, InFile, Chaining
  <2> QED BY <1>0, <1>2, <1>4, <2>1
<1>9. ChainIs' BY <1>0, <1>2, <1>4 DEF StorageInv, ChainIs, Chaining
<1>10. LockIs' BY <1>0, <1>2, <1>4 DEF LockIs, InFile
<1>11. RowIs'
  <2>1. at' \notin RowPlaces BY <1>0, <1>2, <1>4 DEF RowPlaces
  <2>2. result' = result \/ result' = "no_write" BY <1>2, <1>4
  <2> QED BY <1>0, <2>1, <2>2, RowKept DEF StorageInv, Resting, RowPlaces
<1> QED BY <1>5, <1>6, <1>7, <1>8, <1>9, <1>10, <1>11 DEF StorageInv

(* dir_alloc and dir_register.                                             *)
LEMMA AllocKeeps == ASSUME StorageInv, Alloc PROVE StorageInv'
<1> DEFINE e == Entry("report", 0, 0)
<1>0. /\ at = "alloc" /\ Wanted \in {Nowhere, win.s} /\ ~locked
      /\ UNCHANGED <<card, chain, sd, done>>
  BY DEF Alloc, Here, sdVars, StorageInv, LockIs, InFile, Chaining
<1>1. /\ win.s = DirSector /\ win.s \in SectorSet /\ win.s[1] \in Texts /\ IsText(win.data)
      /\ win.s # Boot
  BY <1>0, DirHere, Names DEF Texts
<1>2. e[2] = 0 /\ e[3] = 0 /\ UnitIs(e) BY ReportUnit DEF Entry
<1> HIDE DEF e
<1>3. \/ Change(dir.i, e) /\ Opened(e, TRUE) /\ UNCHANGED dir
      \/ at' = "leave" /\ UNCHANGED <<win, dir, fp, locked>> /\ result' = "no_write"
      \/ at' = "alloc_next" /\ UNCHANGED <<win, dir, fp, locked, result>>
      \/ DirIs' /\ UNCHANGED <<at, win, fp, locked, result>>
  <2>1. DirNext(Refused /\ UNCHANGED dir, "alloc_next") =>
          \/ DirIs' /\ UNCHANGED <<at, result>>
          \/ at' = "alloc_next" /\ UNCHANGED <<dir, result>>
          \/ Refused /\ UNCHANGED dir
    BY DirNextIs DEF StorageInv
  <2> QED BY <2>1 DEF Alloc, Refused, e
<1>4. Opened(e, TRUE) => FileIs' /\ locked' /\ at' \in {"seek", "write"} /\ UNCHANGED result
  <2>1. done \in 0..ReportUnits BY DEF StorageInv, FileIs
  <2>2. e[2] \in {0} \cup Clusters /\ e[3] \in Nat BY <1>2
  <2> QED BY <1>0, <1>1, <2>1, <2>2, OpenedIs
<1>5. CardHolds' BY <1>0 DEF StorageInv, CardHolds
<1>6. WindowHolds'
  <2>1. CASE Change(dir.i, e)
    <3>1. IsText([win.data EXCEPT ![dir.i] = e]) BY <1>1, <1>2, UnitSet
    <3>2. Holds(win.s, [win.data EXCEPT ![dir.i] = e]) BY <1>1, <3>1, UnitsHold
    <3> QED BY <1>1, <2>1, <3>2, ChangeIs DEF StorageInv
  <2>2. CASE UNCHANGED win BY <1>1, <2>2 DEF StorageInv, WindowHolds
  <2> QED BY <1>3, <2>1, <2>2
<1>7. DirIs' BY <1>3 DEF StorageInv, DirIs
<1>8. FileIs'
  <2>1. CASE at' \in {"alloc", "leave", "alloc_next"} /\ UNCHANGED fp
    BY <1>0, <2>1, FileLeft DEF StorageInv, InFile, Chaining
  <2> QED BY <1>0, <1>3, <1>4, <2>1
<1>9. ChainIs' BY <1>0, <1>3, <1>4 DEF StorageInv, ChainIs, Chaining
<1>10. LockIs' BY <1>0, <1>3, <1>4 DEF LockIs, InFile
<1>11. RowIs'
  <2>1. at' \notin RowPlaces BY <1>0, <1>3, <1>4 DEF RowPlaces
  <2>2. result' = result \/ result' = "no_write" BY <1>3, <1>4
  <2> QED BY <1>0, <2>1, <2>2, RowKept DEF StorageInv, Resting, RowPlaces
<1> QED BY <1>5, <1>6, <1>7, <1>8, <1>9, <1>10, <1>11 DEF StorageInv

(* dir_next from one cluster to the next.                                  *)
LEMMA NextClusterKeeps == ASSUME StorageInv, NextCluster PROVE StorageInv'
<1> DEFINE c == GetFat(dir.c)
<1>0. /\ at \in {"find_next", "alloc_next"} /\ Wanted \in {Nowhere, win.s} /\ ~locked
      /\ UNCHANGED <<card, win, fp, locked, sd, done>>
  BY DEF NextCluster, Here, sdVars, StorageInv, LockIs, InFile, Chaining
<1>1. \/ Valid(c) /\ dir' = [c |-> c, s |-> 0, i |-> 1] /\ at' \in {"find", "alloc"}
           /\ UNCHANGED <<chain, result>>
      \/ NotFound /\ UNCHANGED chain
      \/ /\ chain' = [NoChain EXCEPT !.for = "dir", !.clst = dir.c] /\ at' = "stretch"
         /\ UNCHANGED <<dir, result>>
      \/ Refused /\ UNCHANGED <<dir, chain>>
  BY <1>0 DEF NextCluster
<1> HIDE DEF c
<1>2. at' \in {"find", "alloc", "stretch", "leave"} /\ (result' = result \/ result' = "no_write")
  BY <1>1 DEF NotFound, Refused
<1>3. win.s # Boot BY <1>0 DEF StorageInv, WindowHolds, Early, RowPlaces
<1>4. CardHolds' BY <1>0 DEF StorageInv, CardHolds
<1>5. WindowHolds' BY <1>0, <1>3 DEF StorageInv, WindowHolds
<1>6. DirIs'
  <2>1. CASE Valid(c) /\ dir' = [c |-> c, s |-> 0, i |-> 1]
    BY <2>1, StorageAssumption DEF Valid, Clusters, DirIs
  <2>2. CASE NotFound BY <2>2, TopIs DEF NotFound
  <2>3. CASE UNCHANGED dir BY <2>3 DEF StorageInv, DirIs
  <2> QED BY <1>1, <2>1, <2>2, <2>3
<1>7. ChainIs' /\ (at' = "stretch" => chain'.for = "dir")
  <2>1. CASE chain' = [NoChain EXCEPT !.for = "dir", !.clst = dir.c] /\ at' = "stretch"
    <3>1. chain' = [for |-> "dir", clst |-> dir.c, scl |-> 0, ncl |-> 0]
      BY <2>1 DEF NoChain
    <3>2. chain'.for = "dir" /\ chain'.ncl = 0 BY <3>1
    <3>3. chain' = [for |-> chain'.for, clst |-> chain'.clst, scl |-> chain'.scl,
                    ncl |-> chain'.ncl]
      BY <3>1
    <3> QED BY <2>1, <3>2, <3>3 DEF ChainIs
  <2>2. CASE UNCHANGED chain /\ at' \in {"find", "alloc", "leave"}
    BY <2>2 DEF StorageInv, ChainIs, Chaining
  <2> QED BY <1>1, <2>1, <2>2 DEF NotFound, Refused
<1>8. ~InFile' BY <1>2, <1>7 DEF InFile, Chaining
<1>9. FileIs' BY <1>0, <1>8, FileLeft DEF StorageInv
<1>10. LockIs' BY <1>0 DEF LockIs
<1>11. RowIs' BY <1>0, <1>2, RowKept DEF StorageInv, Resting, RowPlaces
<1> QED BY <1>4, <1>5, <1>6, <1>7, <1>9, <1>10, <1>11 DEF StorageInv

(* dir_clear.                                                              *)
LEMMA DirClearKeeps == ASSUME StorageInv, DirClear PROVE StorageInv'
<1>0. /\ at = "clear" /\ at \notin Resting /\ UNCHANGED <<fp, chain, sd, done>>
  BY DEF DirClear, Here, sdVars, Resting, RowPlaces
<1>1. IsText(Filled(EndOfDir)) BY Plain, FilledIs
<1>2. CardHolds'
  <2>1. PICK j \in 0..ClusterSectors :
          card' = [k \in DOMAIN card |->
                     IF \E s \in 0..(j - 1) : k = DataSector(chain.ncl, s)
                     THEN Filled(EndOfDir) ELSE card[k]]
    BY DEF DirClear
  <2>2. card' = [k \in SectorSet |-> card'[k]]
    BY <2>1 DEF StorageInv, CardHolds
  <2>3. \A x \in SectorSet : card'[x] = card[x] \/ (x[1] = "data" /\ IsText(card'[x]))
    BY <1>1, <2>1, Names DEF StorageInv, CardHolds
  <2>4. DOMAIN card' = SectorSet /\ card'[Boot] = card[Boot]
        /\ \A x \in SectorSet : Holds(x, card'[x])
    BY <2>2, <2>3, TextWritten DEF StorageInv
  <2> QED BY <2>4 DEF StorageInv, CardHolds
<1>3. WindowHolds'
  <2>1. win' = [s |-> DataSector(chain.ncl, 0), data |-> Filled(EndOfDir), dirty |-> FALSE]
    BY DEF DirClear
  <2>2. Holds(DataSector(chain.ncl, 0), Filled(EndOfDir))
    BY <1>1, Names, UnitsHold DEF Texts
  <2> QED BY <2>1, <2>2, Names DEF WindowHolds
<1>4. \/ /\ dir' = [c |-> chain.ncl, s |-> 0, i |-> 1] /\ at' = "alloc"
         /\ UNCHANGED <<result, locked>>
      \/ Fails /\ UNCHANGED dir
  BY DEF DirClear
<1>5. CASE Fails /\ UNCHANGED dir
  BY <1>0, <1>2, <1>3, <1>5, FailsKeep DEF StorageInv
<1>6. CASE /\ dir' = [c |-> chain.ncl, s |-> 0, i |-> 1] /\ at' = "alloc"
           /\ UNCHANGED <<result, locked>>
  <2>1. DirIs' BY <1>6, StorageAssumption DEF StorageInv, ChainIs, DirIs
  <2>2. FileIs' BY <1>0, <1>6, FileLeft DEF StorageInv, InFile, Chaining
  <2>3. ChainIs' BY <1>0, <1>6 DEF StorageInv, ChainIs, Chaining
  <2>4. LockIs' BY <1>0, <1>6 DEF StorageInv, LockIs, InFile, Chaining
  <2>5. RowIs' BY <1>0, <1>6, RowKept DEF StorageInv, RowPlaces
  <2> QED BY <1>2, <1>3, <2>1, <2>2, <2>3, <2>4, <2>5 DEF StorageInv
<1> QED BY <1>4, <1>5, <1>6

(* To the end of the file.                                                 *)
LEMMA SeekKeeps == ASSUME StorageInv, Seek PROVE StorageInv'
<1> DEFINE c == GetFat(fp.c)
<1>0. /\ at = "seek" /\ at \notin Resting /\ UNCHANGED <<card, win, dir, chain, sd, done>>
      /\ win.s # Boot
  BY DEF Seek, Here, sdVars, Resting, RowPlaces, StorageInv, WindowHolds, Early
<1>1. \/ Fails /\ UNCHANGED fp
      \/ /\ fp.ptr > ClusterUnits /\ fp' = [fp EXCEPT !.c = c, !.ptr = @ - ClusterUnits]
         /\ UNCHANGED <<at, result, locked>>
      \/ /\ fp' = [fp EXCEPT !.ptr = fp.size,
                       !.sect = IF fp.size % SectorUnits = 0 THEN Nowhere
                                ELSE DataSector(fp.c, fp.ptr \div SectorUnits)]
         /\ at' = "write" /\ UNCHANGED <<result, locked>>
  BY DEF Seek
<1> HIDE DEF c
<1>2. CardHolds' BY <1>0 DEF StorageInv, CardHolds
<1>3. WindowHolds' BY <1>0 DEF StorageInv, WindowHolds
<1>4. CASE Fails /\ UNCHANGED fp
  BY <1>0, <1>2, <1>3, <1>4, FailsKeep DEF StorageInv
<1>5. CASE at' \in {"seek", "write"} /\ UNCHANGED <<result, locked>> /\ FileIs'
  <2>1. DirIs' BY <1>0 DEF StorageInv, DirIs
  <2>2. ChainIs' BY <1>0, <1>5 DEF StorageInv, ChainIs, Chaining
  <2>3. LockIs' BY <1>5 DEF LockIs, InFile
  <2>4. RowIs' BY <1>0, <1>5, RowKept DEF StorageInv, RowPlaces
  <2> QED BY <1>2, <1>3, <1>5, <2>1, <2>2, <2>3, <2>4 DEF StorageInv
<1>6. CASE /\ fp.ptr > ClusterUnits /\ fp' = [fp EXCEPT !.c = c, !.ptr = @ - ClusterUnits]
           /\ UNCHANGED <<at, result, locked>>
  <2>0. ClusterUnits \in Nat /\ fp.ptr \in Nat
    BY <1>0, StorageAssumption DEF ClusterUnits, StorageInv, FileIs, InFile
  <2>1. fp' = [entry |-> fp.entry, i |-> fp.i, scl |-> fp.scl, size |-> fp.size,
               ptr |-> fp.ptr - ClusterUnits, c |-> c, sect |-> fp.sect,
               modified |-> fp.modified]
    BY <1>6 DEF StorageInv, FileIs
  <2>2. fp.ptr - ClusterUnits \in Nat BY <1>6, <2>0
  <2>3. FileIs' BY <1>0, <1>6, <2>1, <2>2 DEF StorageInv, FileIs, InFile, Chaining
  <2> QED BY <1>0, <1>5, <1>6, <2>3
<1>7. CASE /\ fp' = [fp EXCEPT !.ptr = fp.size,
                       !.sect = IF fp.size % SectorUnits = 0 THEN Nowhere
                                ELSE DataSector(fp.c, fp.ptr \div SectorUnits)]
           /\ at' = "write" /\ UNCHANGED <<result, locked>>
  <2>1. fp' = [entry |-> fp.entry, i |-> fp.i, scl |-> fp.scl, size |-> fp.size,
               ptr |-> fp.size, c |-> fp.c,
               sect |-> IF fp.size % SectorUnits = 0 THEN Nowhere
                        ELSE DataSector(fp.c, fp.ptr \div SectorUnits),
               modified |-> fp.modified]
    BY <1>7 DEF StorageInv, FileIs
  <2>2. fp'.ptr % SectorUnits # 0 => fp'.sect[1] = "data" BY <2>1, Names
  <2>3. FileIs' BY <1>0, <1>7, <2>1, <2>2 DEF StorageInv, FileIs, InFile, Chaining
  <2> QED BY <1>5, <1>7, <2>3
<1> QED BY <1>1, <1>4, <1>6, <1>7

---------------------------------------------------------------------------
(* create_chain.                                                           *)

(* It ends with no cluster, with one, or goes on to another entry.         *)
GoesOn ==
  /\ at' \in {"probe", "hunt", "mark", "link"} /\ UNCHANGED <<fp, result>>
  /\ chain' = [for |-> chain.for, clst |-> chain'.clst, scl |-> chain'.scl, ncl |-> chain'.ncl]
  /\ chain'.ncl \in Clusters /\ chain'.clst \in {0} \cup Clusters
  /\ at' = "probe" => chain'.scl \in Clusters
  /\ at' = "link" => chain'.clst # 0

(* Whichever, the invariant is kept if window and card are kept.           *)
LEMMA ChainSteps ==
  ASSUME StorageInv, at \in Chaining, UNCHANGED <<card, dir, sd, done, locked>>, WindowHolds',
         \/ NoRoom /\ UNCHANGED chain
         \/ UNCHANGED chain /\ \E c \in Clusters : GotCluster(c)
         \/ GoesOn
  PROVE  StorageInv'
<1>0. at \notin Resting /\ chain.for \in {"file", "dir"}
  BY DEF Resting, RowPlaces, Chaining, StorageInv, ChainIs
<1>1. CardHolds' BY DEF StorageInv, CardHolds
<1>2. DirIs' BY DEF StorageInv, DirIs
<1>3. CASE NoRoom /\ UNCHANGED chain
  <2>0. at' \in {"leave", "close"} /\ (chain.for = "file" <=> at' = "close")
        /\ result' = "no_write"
    BY <1>0, <1>3 DEF NoRoom, Refused
  <2>1. FileIs'
    <3>1. CASE chain.for = "dir"
      BY <1>3, <2>0, <3>1, FileLeft DEF NoRoom, StorageInv, InFile, Chaining
    <3>2. CASE chain.for = "file"
      <4>1. InFile BY <3>2 DEF InFile
      <4>2. fp' = [entry |-> fp.entry, i |-> fp.i, scl |-> fp.scl, size |-> fp.size,
                   ptr |-> fp.ptr, c |-> fp.c, sect |-> fp.sect, modified |-> TRUE]
        BY <1>3, <3>2 DEF NoRoom, StorageInv, FileIs
      <4>3. fp.scl \in {0} \cup Clusters BY <4>1 DEF StorageInv, FileIs
      <4> QED BY <2>0, <3>2, <4>1, <4>2, <4>3, FileStays DEF StorageInv
    <3> QED BY <1>0, <3>1, <3>2
  <2>2. ChainIs' BY <1>3, <2>0 DEF StorageInv, ChainIs, Chaining
  <2>3. LockIs' BY <2>0 DEF LockIs, InFile
  <2>4. RowIs' BY <1>0, <2>0, RowKept DEF StorageInv, RowPlaces
  <2> QED BY <1>1, <1>2, <2>1, <2>2, <2>3, <2>4 DEF StorageInv
<1>4. CASE UNCHANGED chain /\ \E c \in Clusters : GotCluster(c)
  <2> PICK c \in Clusters : GotCluster(c) BY <1>4
  <2>0. at' \in {"clear", "sector"} /\ (chain.for = "dir" <=> at' = "clear")
        /\ UNCHANGED result
    BY <1>0 DEF GotCluster
  <2>1. FileIs'
    <3>1. CASE chain.for = "dir"
      BY <1>4, <2>0, <3>1, FileLeft DEF GotCluster, StorageInv, InFile, Chaining
    <3>2. CASE chain.for = "file"
      <4>1. InFile /\ at' = "sector" /\ Left > 0 /\ fp.ptr % SectorUnits = 0
        BY <1>0, <2>0, <3>2 DEF InFile, StorageInv, FileIs
      <4>2. fp' = [entry |-> fp.entry, i |-> fp.i, scl |-> IF fp.scl = 0 THEN c ELSE fp.scl,
                   size |-> fp.size, ptr |-> fp.ptr, c |-> c, sect |-> fp.sect,
                   modified |-> fp.modified]
        BY <3>2 DEF GotCluster, StorageInv, FileIs
      <4>3. Left' = Left BY DEF Left
      <4> QED BY <4>1, <4>2, <4>3 DEF StorageInv, FileIs, Chaining
    <3> QED BY <1>0, <3>1, <3>2
  <2>2. ChainIs' BY <1>0, <1>4, <2>0 DEF StorageInv, ChainIs, Chaining
  <2>3. LockIs' BY <2>0 DEF StorageInv, LockIs, InFile, Chaining
  <2>4. RowIs' BY <1>0, <2>0, RowKept DEF StorageInv, RowPlaces
  <2> QED BY <1>1, <1>2, <2>1, <2>2, <2>3, <2>4 DEF StorageInv
<1>5. CASE GoesOn
  <2>1. Left' = Left /\ chain'.for = chain.for /\ at' \in Chaining
    BY <1>5 DEF Left, GoesOn, Chaining
  <2>2. FileIs' BY <1>5, <2>1 DEF StorageInv, FileIs, InFile, GoesOn, Chaining
  <2>3. ChainIs' BY <1>0, <1>5, <2>1 DEF ChainIs, GoesOn
  <2>4. LockIs' BY <1>5, <2>1 DEF StorageInv, LockIs, InFile, Chaining
  <2>5. RowIs' BY <1>0, <1>5, RowKept DEF StorageInv, GoesOn, RowPlaces
  <2> QED BY <1>1, <1>2, <2>2, <2>3, <2>4, <2>5 DEF StorageInv
<1> QED BY <1>3, <1>4, <1>5

(* The entry looked at next is an entry.                                   *)
LEMMA HuntFromIs ==
  ASSUME StorageInv, at \in {"probe", "hunt"}, NEW scl, NEW ncl \in Clusters,
         HuntFrom(scl, ncl)
  PROVE  (NoRoom /\ UNCHANGED chain) \/ GoesOn
<1> DEFINE next == IF ncl + 1 > MaxCluster THEN 2 ELSE ncl + 1
<1>1. next \in Clusters BY StorageAssumption DEF Clusters
<1>2. \/ NoRoom /\ UNCHANGED chain
      \/ chain' = [chain EXCEPT !.scl = scl, !.ncl = next] /\ at' = "hunt"
           /\ UNCHANGED <<fp, result>>
  BY DEF HuntFrom
<1> HIDE DEF next
<1>3. CASE chain' = [chain EXCEPT !.scl = scl, !.ncl = next] /\ at' = "hunt"
             /\ UNCHANGED <<fp, result>>
  <2>1. chain' = [for |-> chain.for, clst |-> chain.clst, scl |-> scl, ncl |-> next]
    BY <1>3 DEF StorageInv, ChainIs
  <2>2. chain.clst \in {0} \cup Clusters BY DEF StorageInv, ChainIs
  <2> QED BY <1>1, <1>3, <2>1, <2>2 DEF GoesOn
<1> QED BY <1>2, <1>3

(* In the middle of it the window never is the boot sector.                *)
LEMMA ChainWindow ==
  ASSUME StorageInv, at \in Chaining, UNCHANGED win
  PROVE  WindowHolds'
BY DEF StorageInv, WindowHolds, Early, RowPlaces, Chaining

(* The first look: at the end that is to be stretched.                     *)
LEMMA StretchKeeps == ASSUME StorageInv, Stretch PROVE StorageInv'
<1> DEFINE cs == GetFat(chain.clst)
           next == IF Valid(chain.clst + 1) THEN chain.clst + 1 ELSE 2
<1>0. /\ at = "stretch" /\ at \in Chaining /\ at \notin Resting
      /\ Wanted = FatOf(chain.clst) /\ Wanted \in {Nowhere, win.s}
      /\ UNCHANGED <<card, win, dir, sd, done>>
  BY WantedAt DEF Stretch, Here, sdVars, Chaining, Resting, RowPlaces
<1>1. cs \in {1} \cup FatEntries /\ (cs # 1 => chain.clst \in Clusters)
  BY <1>0, FatHere
<1>2. next \in Clusters BY StorageAssumption DEF Valid, Clusters
<1>3. \/ Fails /\ UNCHANGED <<fp, chain>>
      \/ Valid(cs) /\ GotCluster(cs) /\ UNCHANGED <<chain, locked>>
      \/ NoRoom /\ UNCHANGED <<chain, locked>>
      \/ /\ cs = Eoc /\ chain' = [chain EXCEPT !.scl = chain.clst, !.ncl = next]
         /\ at' = "probe" /\ UNCHANGED <<fp, result, locked>>
  BY DEF Stretch
<1> HIDE DEF cs, next
<1>4. WindowHolds' BY <1>0, ChainWindow
<1>5. CASE Fails /\ UNCHANGED <<fp, chain>>
  <2>1. CardHolds' BY <1>0 DEF StorageInv, CardHolds
  <2> QED BY <1>0, <1>4, <1>5, <2>1, FailsKeep DEF StorageInv
<1>6. CASE Valid(cs) /\ GotCluster(cs) /\ UNCHANGED <<chain, locked>>
  BY <1>0, <1>4, <1>6, ChainSteps DEF Valid
<1>7. CASE NoRoom /\ UNCHANGED <<chain, locked>>
  BY <1>0, <1>4, <1>7, ChainSteps
<1>8. CASE /\ cs = Eoc /\ chain' = [chain EXCEPT !.scl = chain.clst, !.ncl = next]
           /\ at' = "probe" /\ UNCHANGED <<fp, result, locked>>
  <2>1. chain' = [for |-> chain.for, clst |-> chain.clst, scl |-> chain.clst, ncl |-> next]
    BY <1>8 DEF StorageInv, ChainIs
  <2>2. cs # 1 BY <1>8, StorageAssumption DEF Eoc
  <2>3. GoesOn BY <1>1, <1>2, <1>8, <2>1, <2>2 DEF GoesOn
  <2> QED BY <1>0, <1>4, <1>8, <2>3, ChainSteps
<1> QED BY <1>3, <1>5, <1>6, <1>7, <1>8

(* The search for a free cluster.                                          *)
LEMMA HuntKeeps == ASSUME StorageInv, Probe \/ Hunt PROVE StorageInv'
<1>0. /\ at \in {"probe", "hunt"} /\ at \in Chaining /\ chain.ncl \in Clusters
      /\ at = "probe" => chain.scl \in Clusters
      /\ UNCHANGED <<card, win, dir, sd, done, locked>>
  BY DEF Probe, Hunt, Here, sdVars, Chaining, StorageInv, ChainIs
<1>1. WindowHolds' BY <1>0, ChainWindow
<1>2. at' = "mark" /\ UNCHANGED <<fp, chain, result>> => GoesOn
  BY <1>0 DEF StorageInv, ChainIs, GoesOn
<1>3. CASE Probe
  <2> DEFINE scl == IF Valid(fs.last) THEN fs.last ELSE chain.scl
  <2>1. scl \in Clusters BY <1>0, <1>3 DEF Valid, Probe, Here
  <2>2. (at' = "mark" /\ UNCHANGED <<fp, chain, result>>) \/ HuntFrom(scl, scl)
    BY <1>3 DEF Probe
  <2> HIDE DEF scl
  <2> QED BY <1>0, <1>1, <1>2, <2>1, <2>2, HuntFromIs, ChainSteps
<1>4. CASE Hunt
  <2>1. \/ at' = "mark" /\ UNCHANGED <<fp, chain, result>>
        \/ NoRoom /\ UNCHANGED chain
        \/ HuntFrom(chain.scl, chain.ncl)
    BY <1>4 DEF Hunt
  <2> QED BY <1>0, <1>1, <1>2, <2>1, HuntFromIs, ChainSteps
<1> QED BY <1>3, <1>4

(* The cluster found becomes the end of the chain, in its table.           *)
LEMMA MarkKeeps == ASSUME StorageInv, Mark PROVE StorageInv'
<1>0. /\ at = "mark" /\ at \in Chaining /\ chain.ncl \in Clusters
      /\ Wanted = FatOf(chain.ncl) /\ Wanted \in {Nowhere, win.s}
      /\ UNCHANGED <<card, dir, sd, done, locked, chain>> /\ Change(chain.ncl, Eoc)
      /\ \/ GotCluster(chain.ncl)
         \/ chain.clst # 0 /\ at' = "link" /\ UNCHANGED <<fp, result>>
  BY WantedAt DEF Mark, Here, sdVars, Chaining, StorageInv, ChainIs
<1>1. win.s \in FatSectors /\ win.data \in Tables(win.s) /\ win.s # Boot
  BY <1>0, FatHere, Names
<1>2. Holds(win.s, [win.data EXCEPT ![chain.ncl] = Eoc])
  BY <1>1, EntrySet, EntriesHold DEF FatEntries
<1>3. WindowHolds' BY <1>0, <1>1, <1>2, ChangeIs DEF StorageInv
<1>4. chain.clst # 0 /\ at' = "link" /\ UNCHANGED <<fp, result>> => GoesOn
  BY <1>0 DEF StorageInv, ChainIs, GoesOn
<1> QED BY <1>0, <1>3, <1>4, ChainSteps

(* And the next of the one that was the end.                               *)
LEMMA LinkKeeps == ASSUME StorageInv, Link PROVE StorageInv'
<1>0. /\ at = "link" /\ at \in Chaining /\ chain.ncl \in Clusters
      /\ Wanted = FatOf(chain.clst) /\ Wanted \in {Nowhere, win.s}
      /\ UNCHANGED <<card, dir, sd, done, locked, chain>> /\ Change(chain.clst, chain.ncl)
      /\ GotCluster(chain.ncl) /\ chain.clst \in Clusters
  BY WantedAt DEF Link, Here, sdVars, Chaining, StorageInv, ChainIs
<1>1. win.s \in FatSectors /\ win.data \in Tables(win.s) /\ win.s # Boot
  BY <1>0, FatHere, Names
<1>2. Holds(win.s, [win.data EXCEPT ![chain.clst] = chain.ncl])
  BY <1>0, <1>1, EntrySet, EntriesHold DEF FatEntries
<1>3. WindowHolds' BY <1>0, <1>1, <1>2, ChangeIs DEF StorageInv
<1> QED BY <1>0, <1>3, ChainSteps

---------------------------------------------------------------------------
(* f_write, f_close.                                                       *)

(* The end of the report.                                                  *)
LEMMA WriteEndsKeeps == ASSUME StorageInv, WriteEnds PROVE StorageInv'
<1>0. /\ at = "write" /\ at' = "close" /\ fp' = [fp EXCEPT !.modified = TRUE]
      /\ UNCHANGED <<card, win, dir, chain, locked, result, sd, done>>
  BY DEF WriteEnds, Here, sdVars
<1>1. CardHolds' BY <1>0 DEF StorageInv, CardHolds
<1>2. WindowHolds' BY <1>0 DEF StorageInv, WindowHolds, Early, RowPlaces
<1>3. DirIs' BY <1>0 DEF StorageInv, DirIs
<1>4. FileIs'
  <2>1. fp' = [entry |-> fp.entry, i |-> fp.i, scl |-> fp.scl, size |-> fp.size,
               ptr |-> fp.ptr, c |-> fp.c, sect |-> fp.sect, modified |-> TRUE]
    BY <1>0 DEF StorageInv, FileIs
  <2>2. InFile /\ fp.scl \in {0} \cup Clusters BY <1>0 DEF InFile, StorageInv, FileIs
  <2> QED BY <1>0, <2>1, <2>2, FileStays DEF StorageInv
<1>5. ChainIs' BY <1>0 DEF StorageInv, ChainIs, Chaining
<1>6. LockIs' BY <1>0 DEF LockIs, InFile
<1>7. RowIs' BY <1>0, RowKept DEF StorageInv, RowPlaces, Resting
<1> QED BY <1>1, <1>2, <1>3, <1>4, <1>5, <1>6, <1>7 DEF StorageInv

(* More of it: into the sector the window has, into the next, or into a    *)
(* cluster that has to be found.                                           *)
LEMMA WriteMoreKeeps == ASSUME StorageInv, WriteMore PROVE StorageInv'
<1> DEFINE scl == IF Valid(fs.last) THEN fs.last ELSE 1
           next == IF Valid(scl + 1) THEN scl + 1 ELSE 2
<1>0. /\ at = "write" /\ Left > 0 /\ UNCHANGED <<card, win, dir, locked, sd, done>>
      /\ InFile
  BY DEF WriteMore, Here, sdVars, InFile
<1>1. next \in Clusters BY StorageAssumption DEF Valid, Clusters
<1>2. \/ /\ fp.ptr % SectorUnits # 0 /\ at' = "copy" /\ UNCHANGED <<fp, chain, result>>
      \/ /\ fp.ptr % SectorUnits = 0 /\ at' = "sector" /\ UNCHANGED <<chain, result>>
         /\ fp' = fp \/ fp' = [fp EXCEPT !.c = fp.scl]
      \/ /\ fp.ptr % SectorUnits = 0 /\ at' = "stretch" /\ UNCHANGED <<fp, result>>
         /\ chain' = [NoChain EXCEPT !.for = "file", !.clst = fp.c]
      \/ /\ fp.ptr % SectorUnits = 0 /\ at' = "hunt" /\ UNCHANGED <<fp, result>>
         /\ chain' = [NoChain EXCEPT !.for = "file", !.scl = scl, !.ncl = next]
      \/ /\ at' = "close" /\ result' = "no_write" /\ fp' = [fp EXCEPT !.modified = TRUE]
         /\ chain' = [NoChain EXCEPT !.for = "file", !.scl = scl, !.ncl = next]
  BY DEF WriteMore
<1> HIDE DEF scl, next
<1>3. CardHolds' BY <1>0 DEF StorageInv, CardHolds
<1>4. WindowHolds' BY <1>0 DEF StorageInv, WindowHolds, Early, RowPlaces
<1>5. DirIs' BY <1>0 DEF StorageInv, DirIs
<1>6. ChainIs'
  <2>1. CASE UNCHANGED chain /\ at' \in {"copy", "sector"}
    BY <2>1 DEF StorageInv, ChainIs, Chaining
  <2>2. CASE chain' = [NoChain EXCEPT !.for = "file", !.clst = fp.c] /\ at' = "stretch"
    <3>1. chain' = [for |-> "file", clst |-> fp.c, scl |-> 0, ncl |-> 0] BY <2>2 DEF NoChain
    <3>2. chain'.for = "file" /\ chain'.ncl = 0 BY <3>1
    <3>3. chain' = [for |-> chain'.for, clst |-> chain'.clst, scl |-> chain'.scl,
                    ncl |-> chain'.ncl]
      BY <3>1
    <3> QED BY <2>2, <3>2, <3>3 DEF ChainIs
  <2>3. CASE /\ chain' = [NoChain EXCEPT !.for = "file", !.scl = scl, !.ncl = next]
             /\ at' \in {"hunt", "close"}
    <3>1. chain' = [for |-> "file", clst |-> 0, scl |-> scl, ncl |-> next]
      BY <2>3 DEF NoChain
    <3>2. chain'.for = "file" /\ chain'.ncl = next /\ chain'.clst = 0 BY <3>1
    <3>3. chain' = [for |-> chain'.for, clst |-> chain'.clst, scl |-> chain'.scl,
                    ncl |-> chain'.ncl]
      BY <3>1
    <3> QED BY <1>1, <2>3, <3>2, <3>3 DEF ChainIs
  <2> QED BY <1>2, <2>1, <2>2, <2>3
<1>7. FileIs' /\ InFile'
  <2>0. Left' = Left BY <1>0 DEF Left
  <2>1. CASE UNCHANGED <<fp, chain>> /\ at' = "copy" /\ fp.ptr % SectorUnits # 0
    BY <1>0, <2>0, <2>1 DEF StorageInv, FileIs, InFile, Chaining
  <2>2. CASE fp.ptr % SectorUnits = 0 /\ at' = "sector"
             /\ (fp' = fp \/ fp' = [fp EXCEPT !.c = fp.scl])
    <3>1. fp' = [entry |-> fp.entry, i |-> fp.i, scl |-> fp.scl, size |-> fp.size,
                 ptr |-> fp.ptr, c |-> fp'.c, sect |-> fp.sect, modified |-> fp.modified]
      BY <2>2 DEF StorageInv, FileIs
    <3> QED BY <1>0, <2>0, <2>2, <3>1 DEF StorageInv, FileIs, InFile, Chaining
  <2>3. CASE fp.ptr % SectorUnits = 0 /\ at' \in {"stretch", "hunt"} /\ UNCHANGED fp
             /\ chain'.for = "file"
    BY <1>0, <2>0, <2>3 DEF StorageInv, FileIs, InFile, Chaining
  <2>4. CASE at' = "close" /\ fp' = [fp EXCEPT !.modified = TRUE]
    <3>1. fp' = [entry |-> fp.entry, i |-> fp.i, scl |-> fp.scl, size |-> fp.size,
                 ptr |-> fp.ptr, c |-> fp.c, sect |-> fp.sect, modified |-> TRUE]
      BY <2>4 DEF StorageInv, FileIs
    <3>2. fp.scl \in {0} \cup Clusters BY <1>0 DEF InFile, StorageInv, FileIs
    <3> QED BY <1>0, <2>4, <3>1, <3>2, FileStays DEF StorageInv, InFile
  <2>5. /\ [NoChain EXCEPT !.for = "file", !.clst = fp.c].for = "file"
        /\ [NoChain EXCEPT !.for = "file", !.scl = scl, !.ncl = next].for = "file"
    BY DEF NoChain
  <2> QED BY <1>2, <2>1, <2>2, <2>3, <2>4, <2>5
<1>8. LockIs' BY <1>7 DEF LockIs
<1>9. RowIs'
  <2>1. at' \notin RowPlaces /\ (result' = result \/ result' = "no_write")
    BY <1>2 DEF RowPlaces
  <2> QED BY <1>0, <2>1, RowKept DEF StorageInv, Resting, RowPlaces
<1> QED BY <1>3, <1>4, <1>5, <1>6, <1>7, <1>8, <1>9 DEF StorageInv

(* The window becomes the sector that less than a sector goes to.          *)
LEMMA EdgeKeeps == ASSUME StorageInv, Edge PROVE StorageInv'
<1> DEFINE s == DataSector(fp.c, Csect)
<1>0. /\ at = "sector" /\ at' = "copy" /\ InFile /\ Left > 0
      /\ win' = [s |-> s, data |-> Filled(Junk), dirty |-> FALSE]
      /\ fp' = [fp EXCEPT !.sect = s]
      /\ UNCHANGED <<card, dir, chain, locked, result, sd, done>>
  BY DEF Edge, Here, sdVars, InFile, StorageInv, FileIs
<1>1. s[1] = "data" BY Names
<1> HIDE DEF s
<1>2. CardHolds' BY <1>0 DEF StorageInv, CardHolds
<1>3. WindowHolds'
  <2>1. Holds(s, Filled(Junk)) BY <1>1, Plain, FilledIs, UnitsHold DEF Texts
  <2> QED BY <1>0, <1>1, <2>1, Names DEF WindowHolds
<1>4. DirIs' BY <1>0 DEF StorageInv, DirIs
<1>5. FileIs'
  <2>1. fp' = [entry |-> fp.entry, i |-> fp.i, scl |-> fp.scl, size |-> fp.size,
               ptr |-> fp.ptr, c |-> fp.c, sect |-> s, modified |-> fp.modified]
    BY <1>0 DEF StorageInv, FileIs
  <2>2. Left' = Left BY <1>0 DEF Left
  <2> QED BY <1>0, <1>1, <2>1, <2>2 DEF StorageInv, FileIs, InFile, Chaining
<1>6. ChainIs' BY <1>0 DEF StorageInv, ChainIs, Chaining
<1>7. LockIs' BY <1>0 DEF LockIs, InFile
<1>8. RowIs' BY <1>0, RowKept DEF StorageInv, RowPlaces, Resting
<1> QED BY <1>2, <1>3, <1>4, <1>5, <1>6, <1>7, <1>8 DEF StorageInv

(* What was written moves the file's end on, no further than the report's. *)
LEMMA WrittenIs ==
  ASSUME StorageInv, InFile, NEW u \in Nat, u <= Left, Written(u),
         \/ fp.sect[1] = "data"
         \/ (fp.ptr + u) % SectorUnits = 0
  PROVE  FileIs' /\ at' = "write"
<1>1. /\ fp' = [entry |-> fp.entry, i |-> fp.i, scl |-> fp.scl, size |-> fp.ptr + u,
                ptr |-> fp.ptr + u, c |-> fp.c, sect |-> fp.sect, modified |-> fp.modified]
      /\ done' = done + u /\ at' = "write"
  BY DEF Written, StorageInv, FileIs
<1>2. fp.ptr + u \in Nat /\ done + u \in 0..ReportUnits
  BY StorageAssumption DEF StorageInv, FileIs, Left
<1> QED BY <1>1, <1>2 DEF StorageInv, FileIs, InFile, Chaining

(* Whole sectors, past the window.                                         *)
LEMMA DirectKeeps == ASSUME StorageInv, Direct PROVE StorageInv'
<1> DEFINE cc == IF Csect + Left \div SectorUnits > ClusterSectors THEN ClusterSectors - Csect
                 ELSE Left \div SectorUnits
           Goes(k, j) == \E i \in 0..(j - 1) : k = DataSector(fp.c, Csect + i)
           With(j) == [k \in DOMAIN card |->
                         IF Goes(k, j) THEN Text(done + (k[3] - Csect) * SectorUnits)
                         ELSE card[k]]
<1>0. /\ at = "sector" /\ at \notin Resting /\ InFile /\ UNCHANGED <<dir, chain, sd>>
      /\ fp.ptr \in Nat /\ fp.ptr % SectorUnits = 0 /\ Left \in Nat /\ win.s # Boot
      /\ SectorUnits \in Nat \ {0} /\ ClusterSectors \in Nat \ {0} /\ ReportUnits \in Nat
  <2>1. at = "sector" /\ UNCHANGED <<dir, chain, sd>> BY DEF Direct, Here, sdVars
  <2>2. InFile BY <2>1 DEF InFile
  <2> QED BY <2>1, <2>2, StorageAssumption
          DEF StorageInv, FileIs, Left, Resting, RowPlaces, WindowHolds, Early
<1>1. Csect \in 0..(ClusterSectors - 1)
  <2>1. fp.ptr \div SectorUnits \in Nat BY <1>0
  <2> QED BY <1>0, <2>1 DEF Csect
<1>2. cc \in Nat /\ cc <= Left \div SectorUnits
  <2>1. Left \div SectorUnits \in Nat BY <1>0
  <2> QED BY <1>0, <1>1, <2>1
<1>3. cc * SectorUnits <= Left /\ cc * SectorUnits \in Nat BY <1>0, <1>2, Parts
<1>4. (fp.ptr + cc * SectorUnits) % SectorUnits = 0 BY <1>0, <1>2, Mod
<1> HIDE DEF cc
<1>5. \A k, j : Goes(k, j) => k[1] = "data" BY Names
<1> HIDE DEF Goes
<1>6. ASSUME NEW j
      PROVE  /\ DOMAIN With(j) = SectorSet /\ With(j)[Boot] = card[Boot]
             /\ \A x \in SectorSet : Holds(x, With(j)[x])
  <2> DEFINE k == With(j)
  <2>1. k = [x \in SectorSet |-> k[x]] BY DEF StorageInv, CardHolds
  <2>2. \A x \in SectorSet : k[x] = card[x] \/ (x[1] = "data" /\ IsText(k[x]))
    BY <1>5, TextIs DEF StorageInv, CardHolds
  <2> HIDE DEF k
  <2>3. /\ DOMAIN k = SectorSet /\ k[Boot] = card[Boot]
        /\ \A x \in SectorSet : Holds(x, k[x])
    BY <2>1, <2>2, TextWritten DEF StorageInv
  <2> QED BY <2>3 DEF k
<1> HIDE DEF With
<1>7. \/ /\ card' = With(cc)
         /\ win' = IF Goes(win.s, cc) THEN [s |-> win.s, data |-> With(cc)[win.s], dirty |-> FALSE]
                   ELSE win
         /\ Written(cc * SectorUnits) /\ UNCHANGED <<result, locked>>
      \/ /\ \E j : card' = With(j)
         /\ Fails /\ UNCHANGED <<win, fp, done>>
  BY DEF Direct, With, Goes, cc
<1>8. CardHolds' BY <1>6, <1>7 DEF StorageInv, CardHolds
<1>9. CASE Fails /\ UNCHANGED <<win, fp, done>>
  <2>1. WindowHolds' BY <1>0, <1>9 DEF StorageInv, WindowHolds
  <2> QED BY <1>0, <1>8, <1>9, <2>1, FailsKeep DEF StorageInv
<1>10. CASE /\ win' = IF Goes(win.s, cc) THEN [s |-> win.s, data |-> With(cc)[win.s], dirty |-> FALSE]
                      ELSE win
            /\ Written(cc * SectorUnits) /\ UNCHANGED <<result, locked>>
  <2>1. FileIs' /\ at' = "write" BY <1>0, <1>3, <1>4, <1>10, WrittenIs
  <2>2. WindowHolds'
    <3>1. CASE Goes(win.s, cc)
      <4>1. win' = [s |-> win.s, data |-> With(cc)[win.s], dirty |-> FALSE] BY <1>10, <3>1
      <4>2. win.s \in SectorSet => Holds(win.s, With(cc)[win.s]) BY <1>6
      <4>3. Holds(win.s, With(cc)[win.s])
        BY <1>5, <3>1, <4>2, Names, Sectors DEF Holds
      <4> QED BY <1>0, <4>1, <4>3 DEF WindowHolds
    <3>2. CASE UNCHANGED win BY <1>0, <3>2 DEF StorageInv, WindowHolds
    <3> QED BY <1>10, <3>1, <3>2
  <2>3. DirIs' BY <1>0 DEF StorageInv, DirIs
  <2>4. ChainIs' BY <1>0, <2>1 DEF StorageInv, ChainIs, Chaining
  <2>5. LockIs' BY <2>1 DEF LockIs, InFile
  <2>6. RowIs' BY <1>0, <1>10, <2>1, RowKept DEF StorageInv, RowPlaces
  <2> QED BY <1>8, <2>1, <2>2, <2>3, <2>4, <2>5, <2>6 DEF StorageInv
<1> QED BY <1>7, <1>9, <1>10

(* Less than a sector, into the window.                                    *)
LEMMA CopyKeeps == ASSUME StorageInv, Copy PROVE StorageInv'
<1> DEFINE o == fp.ptr % SectorUnits
           u == IF SectorUnits - o < Left THEN SectorUnits - o ELSE Left
           d == [i \in 1..SectorUnits |->
                   IF i \in (o + 1)..(o + u) THEN <<n, done + i - o>> ELSE win.data[i]]
<1>0. /\ at = "copy" /\ InFile /\ UNCHANGED <<card, dir, chain, locked, result, sd>>
      /\ fp.sect[1] = "data" /\ win.s = fp.sect /\ win.s # Boot
      /\ fp.ptr \in Nat /\ Left \in Nat /\ SectorUnits \in Nat \ {0}
  <2>1. /\ at = "copy" /\ Wanted \in {Nowhere, win.s}
        /\ UNCHANGED <<card, dir, chain, locked, result, sd>>
    BY DEF Copy, Here, sdVars
  <2>2. InFile /\ fp.sect[1] = "data" BY <2>1 DEF InFile, StorageInv, FileIs
  <2>3. win.s = fp.sect BY <2>1, <2>2, WantedAt, Names
  <2> QED BY <2>1, <2>2, <2>3, Names, StorageAssumption DEF StorageInv, FileIs, Left
<1>1. u \in Nat /\ u <= Left
  <2>1. o \in 0..(SectorUnits - 1) BY <1>0
  <2> QED BY <1>0, <2>1
<1>2. win.s \in SectorSet => IsText(d)
  <2> SUFFICES ASSUME win.s \in SectorSet PROVE IsText(d) OBVIOUS
  <2>1. IsText(win.data) BY <1>0 DEF StorageInv, WindowHolds, Holds, Texts
  <2> HIDE DEF o, u
  <2>2. \A i \in 1..SectorUnits : UnitIs(d[i]) BY <2>1, Plain DEF IsText
  <2>3. d = [i \in 1..SectorUnits |-> d[i]] OBVIOUS
  <2> HIDE DEF d
  <2> QED BY <2>2, <2>3 DEF IsText
<1>3. win' = [win EXCEPT !.dirty = TRUE, !.data = d] /\ Written(u) BY DEF Copy
<1> HIDE DEF o, u, d
<1>4. CardHolds' BY <1>0 DEF StorageInv, CardHolds
<1>5. WindowHolds'
  <2>1. win' = [s |-> win.s, data |-> d, dirty |-> TRUE] BY <1>3 DEF StorageInv, WindowHolds
  <2>2. Holds(win.s, d) BY <1>0, <1>2, UnitsHold DEF Texts
  <2> QED BY <1>0, <2>1, <2>2 DEF WindowHolds
<1>6. DirIs' BY <1>0 DEF StorageInv, DirIs
<1>7. FileIs' /\ at' = "write" BY <1>0, <1>1, <1>3, WrittenIs
<1>8. ChainIs' BY <1>0, <1>7 DEF StorageInv, ChainIs, Chaining
<1>9. LockIs' BY <1>7 DEF LockIs, InFile
<1>10. RowIs' BY <1>0, <1>7, RowKept DEF StorageInv, RowPlaces, Resting
<1> QED BY <1>4, <1>5, <1>6, <1>7, <1>8, <1>9, <1>10 DEF StorageInv

(* The entry, with what the file has become.                               *)
LEMMA SyncEntryKeeps == ASSUME StorageInv, SyncEntry PROVE StorageInv'
<1> DEFINE e == Entry("report", fp.scl, fp.size)
<1>0. /\ at = "close" /\ at' = "sync" /\ Change(fp.i, e)
      /\ UNCHANGED <<card, dir, fp, chain, locked, result, sd, done>>
      /\ win.s[1] \in Texts /\ fp.scl \in {0} \cup Clusters /\ fp.size \in Nat
  <2>1. /\ at = "close" /\ at' = "sync" /\ Change(fp.i, e) /\ Wanted \in {Nowhere, win.s}
        /\ UNCHANGED <<card, dir, fp, chain, locked, result, sd, done>>
    BY DEF SyncEntry, Here, sdVars
  <2>2. fp.entry[1] \in Texts /\ fp.scl \in {0} \cup Clusters /\ fp.size \in Nat
    BY <2>1 DEF InFile, StorageInv, FileIs
  <2>3. win.s = fp.entry BY <2>1, <2>2, WantedAt, Names DEF Texts
  <2> QED BY <2>1, <2>2, <2>3
<1>1. UnitIs(e) BY <1>0, ReportUnit
<1> HIDE DEF e
<1>2. CardHolds' BY <1>0 DEF StorageInv, CardHolds
<1>3. WindowHolds'
  <2>1. win.s \in SectorSet => IsText(win.data)
    BY <1>0 DEF StorageInv, WindowHolds, Holds
  <2>2. win.s \in SectorSet => IsText([win.data EXCEPT ![fp.i] = e]) BY <1>1, <2>1, UnitSet
  <2>3. Holds(win.s, [win.data EXCEPT ![fp.i] = e]) BY <1>0, <2>2, UnitsHold
  <2>4. win.s # Boot BY <1>0, Names DEF Texts
  <2> QED BY <1>0, <2>3, <2>4, ChangeIs DEF StorageInv
<1>4. DirIs' BY <1>0 DEF StorageInv, DirIs
<1>5. FileIs' BY <1>0, FileLeft DEF StorageInv, InFile, Chaining
<1>6. ChainIs' BY <1>0 DEF StorageInv, ChainIs, Chaining
<1>7. LockIs' BY <1>0 DEF LockIs
<1>8. RowIs' BY <1>0, RowKept DEF StorageInv, RowPlaces, Resting
<1> QED BY <1>2, <1>3, <1>4, <1>5, <1>6, <1>7, <1>8 DEF StorageInv

(* FSInfo, and the end of the call.                                        *)
LEMMA SyncFsKeeps == ASSUME StorageInv, SyncFs PROVE StorageInv'
<1> DEFINE info == <<fs.free, fs.last>>
<1>0. /\ at = "sync" /\ at' = "leave" /\ locked' = FALSE
      /\ UNCHANGED <<dir, fp, chain, result, sd, done>>
      /\ \/ UNCHANGED <<card, win>>
         \/ /\ win' = [s |-> FsInfo, data |-> info, dirty |-> FALSE]
            /\ card' \in {card, [card EXCEPT ![FsInfo] = info]}
  BY DEF SyncFs, Here, sdVars, DecShare
<1>1. Holds(FsInfo, info) /\ FsInfo # Boot BY Names DEF Holds, Texts
<1> HIDE DEF info
<1>2. CardHolds' BY <1>0, <1>1, SectorWritten DEF StorageInv, CardHolds
<1>3. WindowHolds'
  <2>1. CASE UNCHANGED win BY <1>0, <2>1 DEF StorageInv, WindowHolds, Early
  <2>2. CASE win' = [s |-> FsInfo, data |-> info, dirty |-> FALSE]
    BY <1>1, <2>2 DEF WindowHolds
  <2> QED BY <1>0, <2>1, <2>2
<1>4. DirIs' BY <1>0 DEF StorageInv, DirIs
<1>5. FileIs' BY <1>0, FileLeft DEF StorageInv, InFile, Chaining
<1>6. ChainIs' BY <1>0 DEF StorageInv, ChainIs, Chaining
<1>7. LockIs' BY <1>0 DEF LockIs
<1>8. RowIs' BY <1>0, RowKept DEF StorageInv, RowPlaces, Resting
<1> QED BY <1>2, <1>3, <1>4, <1>5, <1>6, <1>7, <1>8 DEF StorageInv

(* f_mount(NULL), or no power: nothing is open, and nothing in the window  *)
(* will be written.                                                        *)
LEMMA LeaveKeeps == ASSUME StorageInv, Leave \/ PowerOff PROVE StorageInv'
<1>0. /\ at \notin {"idle"} /\ at' = "idle" /\ locked' = FALSE /\ UNCHANGED <<card, done>>
      /\ fp' = NoFile /\ chain' = NoChain /\ dir' = Top("none")
      /\ \/ win' = NoWindow /\ result' = "off"
         \/ UNCHANGED <<win, result>> /\ at = "leave"
  BY DEF Leave, PowerOff, ClearShare
<1>1. CardHolds' BY <1>0 DEF StorageInv, CardHolds
<1>2. WindowHolds'
  <2>1. CASE win' = NoWindow BY <2>1, NoWindowHolds
  <2>2. CASE UNCHANGED win BY <1>0, <2>2 DEF StorageInv, WindowHolds, Early
  <2> QED BY <1>0, <2>1, <2>2
<1>3. DirIs' BY <1>0, TopIs
<1>4. FileIs'
  <2>1. fp' = [entry |-> fp'.entry, i |-> fp'.i, scl |-> fp'.scl, size |-> fp'.size,
               ptr |-> fp'.ptr, c |-> fp'.c, sect |-> fp'.sect, modified |-> fp'.modified]
    BY <1>0 DEF NoFile
  <2> QED BY <1>0, <2>1 DEF StorageInv, FileIs, InFile, Chaining
<1>5. ChainIs'
  <2>1. chain' = [for |-> chain'.for, clst |-> chain'.clst, scl |-> chain'.scl,
                  ncl |-> chain'.ncl] /\ chain'.ncl = 0
    BY <1>0 DEF NoChain
  <2> QED BY <1>0, <2>1 DEF ChainIs, Chaining
<1>6. LockIs' BY <1>0 DEF LockIs
<1>7. RowIs'
  <2>1. result' \notin RowSays BY <1>0 DEF StorageInv, RowIs, RowPlaces, RowSays
  <2> QED BY <1>0, <2>1 DEF RowIs, RowPlaces
<1> QED BY <1>1, <1>2, <1>3, <1>4, <1>5, <1>6, <1>7 DEF StorageInv

---------------------------------------------------------------------------
(* The row, and other cards.                                               *)

(* A row touches nothing of a call.                                        *)
LEMMA RowApart ==
  ASSUME StorageInv, at \in Resting, at' \in Resting, UNCHANGED <<win, dir, fp, chain, locked, done>>
  PROVE  WindowHolds' /\ DirIs' /\ FileIs' /\ ChainIs' /\ LockIs'
<1>1. WindowHolds' BY DEF StorageInv, WindowHolds, Early, Resting
<1>2. DirIs' BY DEF StorageInv, DirIs
<1>3. FileIs' BY FileLeft DEF StorageInv, InFile, Resting, RowPlaces, Chaining
<1>4. ChainIs' BY DEF StorageInv, ChainIs, Resting, RowPlaces, Chaining
<1>5. LockIs' BY DEF StorageInv, LockIs, InFile, Resting, RowPlaces, Chaining
<1> QED BY <1>1, <1>2, <1>3, <1>4, <1>5

(* A block sent, garbled or not, is a block of units; without errors on    *)
(* the bus it is the block that was sent.                                  *)
LEMMA PutsKeep ==
  ASSUME StorageInv, NEW data, IsText(data), Puts(data)
  PROVE  CardHolds' /\ (~MayGarble => card'[LastSector] = data)
<1>1. PICK d \in Sent(data) : card' = [card EXCEPT ![LastSector] = d] BY DEF Puts
<1>2. IsText(d) BY Plain, UnitSet DEF Sent
<1>3. Holds(LastSector, d) BY <1>2, Sectors, UnitsHold DEF Texts
<1>4. CardHolds'
  BY <1>1, <1>3, Names, Sectors, SectorWritten DEF StorageInv, CardHolds
<1>5. ~MayGarble => d = data BY DEF Sent
<1> QED BY <1>1, <1>4, <1>5, Sectors DEF StorageInv, CardHolds

(* The row, from reading the sector to reading it again.                   *)
LEMMA RowKeeps ==
  ASSUME StorageInv, RowRead \/ RowWrite \/ RowBack \/ RowRestore \/ RowConfirm
  PROVE  StorageInv'
<1>0. /\ at \in Resting /\ at' \in Resting /\ UNCHANGED <<win, dir, fp, chain, locked, done>>
  BY DEF RowRead, RowWrite, RowBack, RowRestore, RowConfirm, RowEnds, memVars, Resting, RowPlaces
<1>1. WindowHolds' /\ DirIs' /\ FileIs' /\ ChainIs' /\ LockIs' BY <1>0, RowApart
<1>2. IsText(card[LastSector]) BY Sectors DEF StorageInv, CardHolds, Holds, Texts
<1>3. at \in RowPlaces => sd = [orig |-> sd.orig, ok |-> sd.ok, was |-> sd.was] /\ IsText(sd.orig)
  BY DEF StorageInv, RowIs
<1>4. CASE RowRead
  <2>1. sd' = [orig |-> card[LastSector], ok |-> TRUE, was |-> sound] /\ at' = "row_write"
        /\ UNCHANGED <<card, result>>
    BY <1>4 DEF RowRead
  <2>2. CardHolds' BY <2>1 DEF StorageInv, CardHolds
  <2>3. RowIs' BY <1>2, <2>1 DEF RowIs, RowPlaces
  <2> QED BY <1>1, <2>2, <2>3 DEF StorageInv
<1>5. CASE RowWrite
  <2>0. IsText(Pattern)
    <3>1. UnitIs(Scratch) /\ UnitIs(<<"pattern">>) BY DEF UnitIs, IsReport, Scratch
    <3>2. IsText(Filled(Scratch)) BY <3>1, FilledIs
    <3> QED BY <3>1, <3>2, UnitSet DEF Pattern
  <2>1. /\ at = "row_write" /\ at' = "row_back" /\ UNCHANGED result
        /\ Puts(Pattern) \/ UNCHANGED card
        /\ sd' = sd \/ sd' = [sd EXCEPT !.ok = FALSE]
    BY <1>5 DEF RowWrite
  <2>2. CardHolds' BY <2>0, <2>1, PutsKeep DEF StorageInv, CardHolds
  <2>3. sd' = [orig |-> sd.orig, ok |-> sd'.ok, was |-> sd.was] BY <1>3, <2>1 DEF RowPlaces
  <2>4. RowIs' BY <1>3, <2>1, <2>3 DEF RowIs, RowPlaces
  <2> QED BY <1>1, <2>2, <2>4 DEF StorageInv
<1>6. CASE RowBack
  <2>1. /\ at = "row_back" /\ at' = "row_restore" /\ UNCHANGED <<card, result>>
        /\ \E good : sd' = [sd EXCEPT !.ok = @ /\ good]
    BY <1>6 DEF RowBack
  <2>2. CardHolds' BY <2>1 DEF StorageInv, CardHolds
  <2>3. sd' = [orig |-> sd.orig, ok |-> sd'.ok, was |-> sd.was] BY <1>3, <2>1 DEF RowPlaces
  <2>4. RowIs' BY <1>3, <2>1, <2>3 DEF RowIs, RowPlaces
  <2> QED BY <1>1, <2>2, <2>4 DEF StorageInv
<1>7. CASE RowRestore
  <2>1. /\ at = "row_restore" /\ UNCHANGED sd
        /\ \/ Puts(sd.orig) /\ at' = "row_confirm" /\ UNCHANGED result
           \/ (Puts(sd.orig) \/ UNCHANGED card) /\ at' = "idle" /\ result' = "restore_failed"
    BY <1>7 DEF RowRestore, RowEnds, sdVars
  <2>2. IsText(sd.orig) BY <1>3, <2>1 DEF RowPlaces
  <2>3. CardHolds' BY <2>1, <2>2, PutsKeep DEF StorageInv, CardHolds
  <2>4. at' = "row_confirm" /\ ~MayGarble => card'[LastSector] = sd.orig
    BY <2>1, <2>2, PutsKeep
  <2>5. RowIs' BY <1>3, <2>1, <2>4 DEF RowIs, RowPlaces, RowSays
  <2> QED BY <1>1, <2>3, <2>5 DEF StorageInv
<1>8. CASE RowConfirm
  <2>1. /\ at = "row_confirm" /\ at' = "idle" /\ UNCHANGED <<card, sd>>
        /\ result' \in RowSays \cup {"restore_failed"}
    BY <1>8 DEF RowConfirm, RowEnds, RowSays
  <2>2. CardHolds' BY <2>1 DEF StorageInv, CardHolds
  <2>3. RowIs' BY <2>1 DEF StorageInv, RowIs, RowPlaces, RowSays
  <2> QED BY <1>1, <2>2, <2>3 DEF StorageInv
<1> QED BY <1>4, <1>5, <1>6, <1>7, <1>8

(* A card that comes, or is put in later.                                  *)
LEMMA CardComes == ASSUME NEW k \in Volumes
  PROVE /\ DOMAIN k = SectorSet /\ k[Boot] \in {"fat32", "fat16", "none"}
        /\ \A s \in SectorSet : Holds(s, k[s])
<1>1. PICK x \in Cards :
        k = Volume(x[1], x[2], IF ~x[3] THEN <<Unknown, Unknown>>
                               ELSE IF x[2] = "taken" THEN <<0, 3>> ELSE <<MaxCluster - 3, 3>>)
  BY DEF Volumes
<1>2. x[1] \in {"fat32", "fat16", "none"} BY StorageAssumption
<1> QED BY <1>1, <1>2, VolumeHolds

(* Another card in the socket.                                             *)
LEMMA SwapKeeps == ASSUME StorageInv, SwapCard PROVE StorageInv'
<1>0. /\ at = "idle" /\ UNCHANGED <<win, dir, fp, chain, locked, at, done>>
      /\ card' \in Volumes /\ result' = "none"
  BY DEF SwapCard, memVars
<1>1. CardHolds' BY <1>0, CardComes DEF CardHolds
<1>2. RowIs' BY <1>0 DEF RowIs, RowPlaces, RowSays
<1> QED BY <1>0, <1>1, <1>2, RowApart DEF StorageInv, Resting

---------------------------------------------------------------------------
(* The theorems.                                                           *)

(* Every step keeps the invariant.                                         *)
LEMMA StorageKeeps == ASSUME StorageInv, [Next]_vars PROVE StorageInv'
<1>1. CASE UNCHANGED vars
  <2>0. UNCHANGED <<card, win, dir, fp, chain, locked, at, result, sd, done>>
    BY <1>1 DEF vars, memVars, sdVars
  <2>1. CardHolds' BY <2>0 DEF StorageInv, CardHolds
  <2>2. WindowHolds' BY <2>0 DEF StorageInv, WindowHolds
  <2>3. DirIs' /\ ChainIs' BY <2>0 DEF StorageInv, DirIs, ChainIs
  <2>4. FileIs' BY <2>0 DEF StorageInv, FileIs, InFile, Left
  <2>5. LockIs' BY <2>0 DEF StorageInv, LockIs, InFile
  <2>6. RowIs' BY <2>0 DEF StorageInv, RowIs
  <2> QED BY <2>1, <2>2, <2>3, <2>4, <2>5, <2>6 DEF StorageInv
<1>2. CASE Flush \/ Fetch BY <1>2, FlushKeeps, FetchKeeps
<1>3. CASE Call \/ Mount \/ MountInfo BY <1>3, CallKeeps, MountKeeps
<1>4. CASE Find \/ Alloc \/ NextCluster \/ DirClear \/ Seek
  BY <1>4, FindKeeps, AllocKeeps, NextClusterKeeps, DirClearKeeps, SeekKeeps
<1>5. CASE Stretch \/ Probe \/ Hunt \/ Mark \/ Link
  BY <1>5, StretchKeeps, HuntKeeps, MarkKeeps, LinkKeeps
<1>6. CASE WriteEnds \/ WriteMore \/ Edge \/ Direct \/ Copy
  BY <1>6, WriteEndsKeeps, WriteMoreKeeps, EdgeKeeps, DirectKeeps, CopyKeeps
<1>7. CASE SyncEntry \/ SyncFs \/ Leave \/ PowerOff
  BY <1>7, SyncEntryKeeps, SyncFsKeeps, LeaveKeeps
<1>8. CASE RowRead \/ RowWrite \/ RowBack \/ RowRestore \/ RowConfirm \/ SwapCard
  BY <1>8, RowKeeps, SwapKeeps
<1> QED BY <1>1, <1>2, <1>3, <1>4, <1>5, <1>6, <1>7, <1>8 DEF Next, Program

(* It holds of a card nothing has been done with.                          *)
LEMMA StorageStarts == ASSUME Init PROVE StorageInv
<1> USE DEF Init
<1>1. CardHolds BY CardComes DEF CardHolds
<1>2. WindowHolds BY Names DEF NoWindow, WindowHolds, Holds, Texts
<1>3. DirIs BY StorageAssumption DEF Top, DirIs
<1>4. FileIs
  <2>1. fp = [entry |-> fp.entry, i |-> fp.i, scl |-> fp.scl, size |-> fp.size,
              ptr |-> fp.ptr, c |-> fp.c, sect |-> fp.sect, modified |-> fp.modified]
    BY DEF NoFile
  <2> QED BY <2>1, StorageAssumption DEF FileIs, InFile, Chaining
<1>5. ChainIs
  <2>1. chain = [for |-> chain.for, clst |-> chain.clst, scl |-> chain.scl, ncl |-> chain.ncl]
        /\ chain.ncl = 0
    BY DEF NoChain
  <2> QED BY <2>1 DEF ChainIs, Chaining
<1>6. LockIs /\ RowIs BY DEF LockIs, RowIs, RowPlaces, RowSays
<1> QED BY <1>1, <1>2, <1>3, <1>4, <1>5, <1>6 DEF StorageInv

(* Of every call and every row, on any card, whatever fails and whenever   *)
(* the power goes: tables stay tables - no text of a report ends up in one *)
(* -, an entry of the report keeps a cluster and a size, and each call has *)
(* the window and the file it believes to have.                            *)
THEOREM StorageInvariance == Spec => []StorageInv
<1>1. Init => StorageInv BY StorageStarts
<1>2. StorageInv /\ [Next]_vars => StorageInv' BY StorageKeeps
<1> QED BY <1>1, <1>2, PTL DEF Spec

(* "Put it back whatever happened above, and check that it went"           *)
(* (tests_sd.c:700): unless the row says RESTORE FAILED the card's last    *)
(* sector holds what it held, on a bus that garbles no block.              *)
THEOREM RowPutsBack == ~MayGarble => (Spec => []SectorComesBack)
<1> SUFFICES ASSUME ~MayGarble PROVE Spec => []SectorComesBack OBVIOUS
<1>1. StorageInv => SectorComesBack BY DEF StorageInv, RowIs, RowSays, SectorComesBack
<1> QED BY <1>1, StorageInvariance, PTL

(* No call and no row writes the boot sector: what a failed transfer or a  *)
(* power cut leaves is a card that still mounts.                           *)
BootStays == [][card'[Boot] = card[Boot] \/ SwapCard]_vars

(* Of every run of them.                                                   *)
THEOREM BootSectorStays == Spec => BootStays
<1>1. StorageInv /\ [Next]_vars => [card'[Boot] = card[Boot] \/ SwapCard]_vars
  <2> SUFFICES ASSUME StorageInv, Next PROVE card'[Boot] = card[Boot] \/ SwapCard
    OBVIOUS
  <2>0. DOMAIN card = SectorSet /\ Boot \in SectorSet BY Sectors DEF StorageInv, CardHolds
  <2>1. CASE Flush
    <3>1. win.s # Boot BY <2>1 DEF Flush, StorageInv, WindowHolds
    <3>2. card' \in {card, [card EXCEPT ![win.s] = win.data]} BY <2>1 DEF Flush
    <3> QED BY <2>0, <3>1, <3>2
  <2>2. CASE DirClear BY <2>0, <2>2, Names DEF DirClear
  <2>3. CASE Direct BY <2>0, <2>3, Names DEF Direct
  <2>4. CASE SyncFs
    <3>1. card' \in {card, [card EXCEPT ![FsInfo] = <<fs.free, fs.last>>]}
      BY <2>4 DEF SyncFs
    <3> QED BY <2>0, <3>1, Names
  <2>5. CASE RowWrite \/ RowRestore
    <3>1. \A data : Puts(data) => card'[Boot] = card[Boot]
      BY <2>0, Names, Sectors DEF Puts
    <3> QED BY <2>5, <3>1 DEF RowWrite, RowRestore
  <2>6. CASE Fetch \/ Call \/ Mount \/ MountInfo \/ Find \/ Alloc \/ NextCluster \/ Seek
    BY <2>6 DEF Fetch, Call, Mount, MountInfo, Find, Alloc, NextCluster, Seek
  <2>7. CASE Stretch \/ Probe \/ Hunt \/ Mark \/ Link \/ WriteEnds \/ WriteMore \/ Edge \/ Copy
    BY <2>7 DEF Stretch, Probe, Hunt, Mark, Link, WriteEnds, WriteMore, Edge, Copy
  <2>8. CASE SyncEntry \/ Leave \/ RowRead \/ RowBack \/ RowConfirm \/ PowerOff
    BY <2>8 DEF SyncEntry, Leave, RowRead, RowBack, RowConfirm, PowerOff
  <2> QED BY <2>1, <2>2, <2>3, <2>4, <2>5, <2>6, <2>7, <2>8 DEF Next, Program
<1> QED BY <1>1, StorageInvariance, PTL DEF Spec, BootStays

(* inc_share and dec_share pair up: whatever failed in the calls before,   *)
(* chk_share finds no file open when a call looks for its own, so that no  *)
(* report is refused for being open already.                               *)
LookingIsFree == at \in {"idle", "find", "alloc"} => ~locked

(* Of every run of them.                                                   *)
THEOREM NeverFoundLocked == Spec => []LookingIsFree
<1>1. StorageInv => LookingIsFree BY DEF StorageInv, LockIs, InFile, Chaining, LookingIsFree
<1> QED BY <1>1, StorageInvariance, PTL

---------------------------------------------------------------------------
(* No report harms what is on the card: what CardInv says of the card, and   *)
(* of the card as it would be if the window were written, at every place.    *)

(* The card as the program sees it: what is in the window is as good as      *)
(* written.                                                                  *)
SeenOn(k, w) == IF w.dirty THEN [k EXCEPT ![w.s] = w.data] ELSE k
Seen == SeenOn(card, win)

(* The clusters of a chain, up to its end.                                   *)
Leads(k, cs) ==
  /\ cs \in Seq(Clusters)
  /\ \A i \in 1..Len(cs) : Fat(k, cs[i]) = IF i < Len(cs) THEN cs[i + 1] ELSE Eoc

(* The directory's chain, the file's and cluster 3, which is another file's, *)
(* have nothing in common.                                                   *)
Apart(D, F) ==
  /\ \A i \in 1..Len(D), j \in 1..Len(F) : D[i] # F[j]
  /\ \A i \in 1..Len(D) : D[i] # 3
  /\ \A j \in 1..Len(F) : F[j] # 3

(* A card with a file system has them: the root's chain D on FAT32, the      *)
(* file's F.                                                                 *)
Chains(k, D, F) ==
  /\ k[Boot] \in {"fat32", "fat16"}
  /\ Leads(k, D) /\ Leads(k, F) /\ Apart(D, F)
  /\ Fat(k, 3) = Eoc
  /\ IF k[Boot] = "fat32" THEN D # <<>> /\ D[1] = Root ELSE D = <<>>

(* A place is a unit of a sector of text or of a directory.                  *)
TextSectors == {s \in SectorSet : s[1] \in Texts}
Places == TextSectors \X (1..SectorUnits)
UnitAt(k, l) == k[l[1]][l[2]]
Other == Entry("other", 3, 1)
Label == Entry("label", 0, 0)

(* The p-th unit of the directory, and where it is.                          *)
TableSectors(kd, D) ==
  IF kd = "fat32" THEN SectorsOf(D) ELSE [i \in 1..RootSectors |-> <<"root", i - 1>>]
PlaceOf(sectors, p) == <<sectors[1 + (p - 1) \div SectorUnits], 1 + ((p - 1) % SectorUnits)>>
TableSize(kd, D) == Len(TableSectors(kd, D)) * SectorUnits
TablePlace(k, D, p) == PlaceOf(TableSectors(k[Boot], D), p)
TableUnit(k, D, p) == UnitAt(k, TablePlace(k, D, p))

(* Of all that is on the card one unit at most is a report's entry, and it   *)
(* is found.                                                                 *)
Entries(k, D, l) ==
  /\ \A x \in Places : Len(UnitAt(k, x)) = 3 =>
       UnitAt(k, x) \in {Other, Label} \/ (IsReport(UnitAt(k, x)) /\ x = l)
  /\ IsReport(UnitAt(k, l)) =>
       \E p \in 1..TableSize(k[Boot], D) :
          TablePlace(k, D, p) = l /\ \A q \in 1..p : TableUnit(k, D, q) # EndOfDir

(* It claims no more than its chain holds.                                   *)
Claim(k, F, l) ==
  LET e == UnitAt(k, l)
  IN IsReport(e) => /\ e[3] \in Nat
                    /\ e[2] = 0 => e[3] = 0
                    /\ e[2] # 0 => F # <<>> /\ F[1] = e[2] /\ e[3] <= Len(F) * ClusterUnits

(* The card is in order: its chains, its entries and what the report's       *)
(* entry claims.                                                             *)
Struct(k, D, F, l) == Chains(k, D, F) /\ l \in Places /\ Entries(k, D, l) /\ Claim(k, F, l)

(* The file is b, and after that no more than the beginning of report m.     *)
Size(k, l) == IF IsReport(UnitAt(k, l)) THEN UnitAt(k, l)[3] ELSE 0
FileUnit(k, F, x) == UnitAt(k, PlaceOf(SectorsOf(F), x))
IsSeq(s) == Len(s) \in Nat /\ s = [i \in 1..Len(s) |-> s[i]]
HasText(k, F, size, b, m) ==
  /\ Len(b) <= size /\ size <= Len(b) + ReportUnits
  /\ \A x \in 1..size : FileUnit(k, F, x) = (b \o Report(m))[x]

(* In order, with a file that holds what it should.                          *)
Good(k, D, F, l, b, m) == Struct(k, D, F, l) /\ HasText(k, F, Size(k, l), b, m)

(* As good, with some chains, or no file system and no file.                 *)
CardOK(k, b, m) ==
  IsSeq(b) /\ ((k[Boot] = "none" /\ b = <<>>) \/ \E D, F, l : Good(k, D, F, l, b, m))

(* b begins with a.                                                          *)
Pre(a, b) == Len(a) <= Len(b) /\ \A i \in 1..Len(a) : a[i] = b[i]

(* Where the search is: at the p-th unit, in the a-th cluster.               *)
Spot(kd, D, d, a, p) ==
  /\ a \in Nat \ {0}
  /\ IF kd = "fat32" THEN a <= Len(D) /\ d.c = D[a] ELSE a = 1 /\ d.c = 0
  /\ p = (a - 1) * ClusterUnits + d.s * SectorUnits + d.i

(* The first p units are no report and not the end; none of them is free;    *)
(* no unit is a report.                                                      *)
Unfound(k, D, p) == \A q \in 1..p : TableUnit(k, D, q) # EndOfDir /\ ~IsReport(TableUnit(k, D, q))
Unfree(k, D, p) == \A q \in 1..p : ~IsFree(TableUnit(k, D, q))
NoReport(k) == \A x \in Places : ~IsReport(UnitAt(k, x))

(* The last unit of a cluster.                                               *)
AtClusterEnd(d) == d.c # 0 /\ d.s = ClusterSectors - 1 /\ d.i = SectorUnits

(* What each place of a search has ruled out.                                *)
Searching(k, D) ==
  /\ at = "fsinfo" => dir = Top(k[Boot])
  /\ at = "find" => \E a, p \in Nat : Spot(k[Boot], D, dir, a, p) /\ Unfound(k, D, p - 1)
  /\ at = "find_next" => AtClusterEnd(dir) /\ \E a, p \in Nat : Spot(k[Boot], D, dir, a, p) /\ Unfound(k, D, p)
  /\ at \in {"alloc", "alloc_next"} => NoReport(k)
  /\ at = "alloc" => \E a, p \in Nat : Spot(k[Boot], D, dir, a, p) /\ Unfree(k, D, p - 1)
  /\ at = "alloc_next" => AtClusterEnd(dir) /\ \E a, p \in Nat : Spot(k[Boot], D, dir, a, p) /\ Unfree(k, D, p)

(* A cluster that is nobody's.                                               *)
Alone(D, F, c) == c # 3 /\ (\A i \in 1..Len(D) : D[i] # c) /\ (\A i \in 1..Len(F) : F[i] # c)

(* A directory that gets a cluster has none free, and no report.             *)
DirGrows(k, D) ==
  at = "clear" \/ (at \in Chaining /\ chain.for = "dir") =>
    /\ k[Boot] = "fat32" /\ NoReport(k)
    /\ at # "clear" => chain.clst = D[Len(D)] /\ Unfree(k, D, TableSize("fat32", D))
    /\ at = "clear" => /\ Len(D) > 1 /\ chain.ncl = D[Len(D)]
                       /\ Unfree(k, D, (Len(D) - 1) * ClusterUnits)

(* A cluster is marked only when it is free, and linked only when it is      *)
(* nobody's.                                                                 *)
Linking(k, D, F) ==
  /\ at = "mark" => Fat(k, chain.ncl) = 0
  /\ at = "link" => Fat(k, chain.ncl) = Eoc /\ Alone(D, F, chain.ncl)

(* Once the file is open: its entry, its chain, its size, and what is        *)
(* dirty.                                                                    *)
InTheFile(k, F, l) ==
  InFile =>
    /\ l = <<fp.entry, fp.i>> /\ IsReport(UnitAt(k, l))
    /\ fp.scl = IF F = <<>> THEN 0 ELSE F[1]
    /\ fp.size <= Len(F) * ClusterUnits
    /\ fp.size = Len(before) + done
    /\ at # "seek" /\ at # "close" => fp.ptr = fp.size
    /\ HasText(k, F, fp.size, before, n)
    /\ win.dirty => win.s \in FatSectors \cup {fp.entry, fp.sect}
    /\ at = "seek" /\ win.dirty => win.s \in FatSectors \cup {fp.entry}

(* Where in its chain the file pointer is.                                   *)
InTheCluster(F) ==
  /\ at = "seek" => /\ fp.ptr \in 1..fp.size
                    /\ \E b \in Nat : fp.size = fp.ptr + b * ClusterUnits /\ fp.c = F[1 + b]
  /\ at = "write" /\ fp.ptr > 0 => fp.c = F[1 + (fp.ptr - 1) \div ClusterUnits]
  /\ (at = "write" /\ fp.ptr % SectorUnits # 0) \/ at = "copy" =>
       /\ fp.ptr < Len(F) * ClusterUnits
       /\ fp.sect = SectorsOf(F)[1 + fp.ptr \div SectorUnits]
  /\ at \in {"sector", "copy"} => fp.ptr < Len(F) * ClusterUnits /\ fp.c = F[1 + fp.ptr \div ClusterUnits]
  /\ at = "copy" /\ fp.ptr % SectorUnits = 0 =>
       win.s = fp.sect /\ win.data = Filled(Junk) /\ ~win.dirty
  /\ at \in Chaining /\ chain.for = "file" =>
       IF chain.clst = 0 THEN fp.ptr = 0 /\ F = <<>> /\ at \in {"hunt", "mark"}
       ELSE /\ fp.ptr > 0 /\ fp.ptr % ClusterUnits = 0
            /\ chain.clst = F[fp.ptr \div ClusterUnits]
            /\ at # "stretch" => fp.ptr = Len(F) * ClusterUnits

(* A window that is clean holds what the card does, but for a sector about   *)
(* to be filled and one of a write that failed.                              *)
Fresh ==
  ~win.dirty /\ win.s \in SectorSet =>
    \/ win.data = card[win.s]
    \/ at = "copy" /\ fp.ptr % SectorUnits = 0
    \/ at = "close" /\ win.s # fp.entry
    \/ at = "sync"

(* Before a file is found nothing waits to be written.                       *)
Unwritten == at \in {"boot", "fsinfo", "find", "find_next", "alloc", "alloc_next"} => ~win.dirty

(* Nothing of the report is written before its file is open.                 *)
Untouched ==
  \/ at \in {"boot", "fsinfo", "find", "find_next", "alloc", "alloc_next", "clear", "seek"}
  \/ at \in Chaining /\ chain.for = "dir"
  => done = 0

(* The card as it is, with the chains C and G, and as the program sees it,   *)
(* with D and F; l is the report's entry.                                    *)
Work(D, F, C, G, l) ==
  /\ Good(Seen, D, F, l, before, n) /\ Good(card, C, G, l, before, n) /\ Pre(C, D) /\ Pre(G, F)
  /\ at # "sync" => Size(Seen, l) = Len(before) /\ Size(card, l) = Len(before)
  /\ Searching(Seen, D) /\ DirGrows(Seen, D) /\ Linking(Seen, D, F)
  /\ InTheFile(Seen, F, l) /\ InTheCluster(F)

(* The file system is at work on a card it has mounted.                      *)
Working == at \notin Resting \cup {"boot", "leave"}

(* A call begins with the file as it is.                                     *)
Ready(k, b, m) ==
  k[Boot] = "none" \/ \E D, F, l : Good(k, D, F, l, b, m) /\ Size(k, l) = Len(b)

(* The card as the row found it.                                             *)
RowBefore == [card EXCEPT ![LastSector] = sd.orig]

(* The invariant: the card is in order, and so is what the program sees of   *)
(* it.                                                                       *)
CardInv ==
  /\ sound => CardOK(card, before, n)
  /\ at = "row_write" => sd.was = sound /\ sd.orig = card[LastSector]
  /\ at \in RowPlaces /\ sd.was => CardOK(RowBefore, before, n)
  /\ at \in RowPlaces \ {"row_write"} => ~sound
  /\ at = "boot" => Fresh /\ (sound => Ready(card, before, n))
  /\ Unwritten /\ Untouched
  /\ sound /\ Working => Fresh /\ \E D, F, C, G, l : Work(D, F, C, G, l)

---------------------------------------------------------------------------
(* Numbers again.                                                            *)

(* What a card's measures are.                                               *)
LEMMA Geometry ==
  /\ SectorUnits \in Nat \ {0} /\ ClusterSectors \in Nat \ {0} /\ RootSectors \in Nat \ {0}
  /\ ClusterUnits \in Nat \ {0} /\ ReportUnits \in Nat \ {0} /\ PerFat \in Nat \ {0}
  /\ MaxCluster \in Nat /\ MaxCluster >= 4 /\ Clusters = 2..MaxCluster
  /\ 3 \in Clusters /\ Root \in Clusters /\ Root # 3 /\ Root = 2
  /\ Eoc \notin Clusters /\ Eoc # 0 /\ 0 \notin Clusters /\ Eoc \in Nat
<1>1. ClusterSectors * SectorUnits > 0 BY StorageAssumption
<1> QED BY <1>1, StorageAssumption DEF ClusterUnits, Clusters, Root, Eoc

(* What dividing means.                                                      *)
LEMMA Divides ==
  ASSUME NEW x \in Nat, NEW m \in Nat \ {0}
  PROVE  \E q \in Nat, r \in 0..(m - 1) : x \div m = q /\ x % m = r /\ x = q * m + r
<1> DEFINE q == x \div m
           r == x % m
<1>1. q \in Int /\ r \in 0..(m - 1) /\ x = q * m + r OBVIOUS
<1>a. x \div m = q /\ x % m = r OBVIOUS
<1> HIDE DEF q, r
<1>2. q >= 0
  <2> SUFFICES ASSUME q < 0 PROVE FALSE BY <1>1
  <2>1. (q + 1) * m <= 0 BY <1>1
  <2>2. (q + 1) * m = q * m + m BY <1>1
  <2> QED BY <1>1, <2>1, <2>2
<1>3. q \in Nat /\ r \in 0..(m - 1) /\ x = q * m + r BY <1>1, <1>2
<1> QED BY <1>3, <1>a, Zenon

(* It is the only way to divide.                                             *)
LEMMA DividedBy ==
  ASSUME NEW x \in Nat, NEW m \in Nat \ {0}, NEW a \in Int, NEW r \in 0..(m - 1), x = a * m + r
  PROVE  x \div m = a /\ x % m = r
<1> DEFINE q == x \div m
           r2 == x % m
<1>1. q \in Int /\ r2 \in 0..(m - 1) /\ x = q * m + r2 OBVIOUS
<1> HIDE DEF q, r2
<1>2. (q - a) * m = r - r2
  <2>1. (q - a) * m = q * m - a * m BY <1>1
  <2> QED BY <1>1, <2>1
<1>3. q - a = 0 BY <1>1, <1>2, Small
<1>4. q = a /\ r2 = r BY <1>1, <1>2, <1>3
<1> QED BY <1>4 DEF q, r2

(* What is below a multiple is in one of the parts before it.                *)
LEMMA PartBelow ==
  ASSUME NEW x \in Nat, NEW m \in Nat \ {0}, NEW a \in Nat, x < a * m
  PROVE  x \div m \in 0..(a - 1)
<1> DEFINE q == x \div m
           r == x % m
<1>1. q \in Nat /\ r \in 0..(m - 1) /\ x = q * m + r BY Divides
<1> HIDE DEF q, r
<1>2. q < a
  <2> SUFFICES ASSUME q >= a PROVE FALSE BY <1>1
  <2>1. (q - a) * m >= 0 BY <1>1
  <2>2. (q - a) * m = q * m - a * m BY <1>1
  <2> QED BY <1>1, <2>1, <2>2
<1>3. q \in 0..(a - 1) BY <1>1, <1>2
<1> QED BY <1>3 DEF q

(* Units of sectors of clusters, counted at once.                            *)
LEMMA Regrouped ==
  ASSUME NEW a \in Int, NEW b \in Int, NEW m \in Int, NEW s \in Int, NEW r \in Int
  PROVE  (a * b + s) * m + r = a * (b * m) + (s * m + r)
OBVIOUS

(* Into sectors, then into clusters, is into clusters.                       *)
Parted(x, m, b, a, s, r) ==
  /\ x = (a * b + s) * m + r
  /\ x \div m = a * b + s /\ x % m = r
  /\ (x \div m) \div b = a /\ (x \div m) % b = s
  /\ b * m \in Nat \ {0} /\ x \div (b * m) = a /\ x % (b * m) = s * m + r

(* Counting by parts and by groups of parts agree.                           *)
LEMMA PartOfPart ==
  ASSUME NEW x \in Nat, NEW m \in Nat \ {0}, NEW b \in Nat \ {0}
  PROVE  \E a \in Nat, s \in 0..(b - 1), r \in 0..(m - 1) :
           Parted(x, m, b, a, s, r)
<1>1. PICK q \in Nat, r \in 0..(m - 1) : q = x \div m /\ r = x % m /\ x = q * m + r BY Divides
<1>2. PICK a \in Nat, s \in 0..(b - 1) : a = q \div b /\ s = q % b /\ q = a * b + s BY <1>1, Divides
<1>a. x = (a * b + s) * m + r BY <1>1, <1>2
<1>3. x = a * (b * m) + (s * m + r)
  <2>1. (a * b + s) * m + r = a * (b * m) + (s * m + r) BY Regrouped
  <2> QED BY <1>a, <2>1
<1>4. s * m + r \in 0..(b * m - 1)
  <2>1. s * m >= 0 BY <1>2
  <2>2. (b - 1 - s) * m >= 0 BY <1>2
  <2>3. (b - 1 - s) * m = b * m - m - s * m BY <1>2
  <2> QED BY <1>1, <1>2, <2>1, <2>2, <2>3
<1>5. b * m \in Nat \ {0} OBVIOUS
<1> DEFINE w == b * m
           y == s * m + r
<1>6. w \in Nat \ {0} /\ a \in Int /\ y \in 0..(w - 1) /\ x = a * w + y BY <1>3, <1>4, <1>5
<1> HIDE DEF w, y
<1>7. x \div w = a /\ x % w = y BY <1>6, DividedBy, Zenon
<1>8. x \div (b * m) = a /\ x % (b * m) = s * m + r BY <1>7 DEF w, y
<1>9. x \div m = a * b + s /\ x % m = r /\ (x \div m) \div b = a /\ (x \div m) % b = s
  BY <1>1, <1>2
<1>z. Parted(x, m, b, a, s, r) BY <1>5, <1>8, <1>9, <1>a, Zenon DEF Parted
<1> QED BY <1>z

(* The least of a set of numbers.                                            *)
LEMMA LeastOf ==
  ASSUME NEW T \in SUBSET Nat, T # {}
  PROVE  \E x \in T : \A y \in T : x <= y
<1> DEFINE less == OpToRel(<, Nat)
<1>1. IsWellFoundedOn(less, Nat) BY NatLessThanWellFounded
<1>2. \A x, y \in T : y < x => <<y, x>> \in less BY DEF OpToRel
<1> HIDE DEF less
<1>3. PICK x \in T : \A y \in T : ~(<<y, x>> \in less) BY <1>1, WFMin
<1>4. \A y \in T : x <= y
  <2> SUFFICES ASSUME NEW y \in T PROVE x <= y OBVIOUS
  <2>1. x \in Nat /\ y \in Nat /\ ~(y < x) BY <1>2, <1>3
  <2> QED BY <2>1
<1> QED BY <1>4

---------------------------------------------------------------------------
(* Chains.                                                                   *)

(* A chain that ends comes by no cluster twice.                              *)
LEMMA LeadsOnce ==
  ASSUME NEW k, NEW cs, Leads(k, cs), NEW i \in 1..Len(cs), NEW j \in 1..Len(cs), cs[i] = cs[j]
  PROVE  i = j
<1>0. cs \in Seq(Clusters) /\ Len(cs) \in Nat BY DEF Leads
<1>1. ASSUME NEW a \in 1..Len(cs), NEW b \in 1..Len(cs), cs[a] = cs[b], a < b PROVE FALSE
  <2> DEFINE T == {t \in Nat : b + t <= Len(cs) /\ cs[a + t] # cs[b + t]}
  <2>1. T = {}
    <3> SUFFICES ASSUME T # {} PROVE FALSE OBVIOUS
    <3>1. PICK t \in T : \A y \in T : t <= y
      <4>1. T \in SUBSET Nat OBVIOUS
      <4> HIDE DEF T
      <4> QED BY <4>1, LeastOf
    <3>a. t \in Nat /\ b + t <= Len(cs) /\ cs[a + t] # cs[b + t] BY <3>1
    <3>2. t # 0 BY <1>1, <3>a
    <3>3. t - 1 \in Nat /\ t - 1 \notin T
      <4>1. t \in Nat /\ t - 1 \in Nat /\ t - 1 < t BY <3>1, <3>2
      <4> HIDE DEF T
      <4> QED BY <3>1, <4>1
    <3>4. cs[a + t - 1] = cs[b + t - 1] BY <1>0, <3>1, <3>3
    <3>5. Fat(k, cs[a + t - 1]) = cs[a + t]
      <4>1. a + t - 1 \in 1..Len(cs) /\ a + t - 1 < Len(cs) /\ a + t - 1 + 1 = a + t BY SMTT(30), <1>0, <1>1, <3>a, <3>2
      <4> QED BY <4>1 DEF Leads
    <3>6. Fat(k, cs[b + t - 1]) = cs[b + t]
      <4>1. b + t - 1 \in 1..Len(cs) /\ b + t - 1 < Len(cs) /\ b + t - 1 + 1 = b + t BY <1>0, <3>a, <3>2
      <4> QED BY <4>1 DEF Leads
    <3> QED BY <3>1, <3>4, <3>5, <3>6
  <2>2. cs[a + (Len(cs) - b)] = cs[Len(cs)]
    <3>1. PICK u \in Nat : u = Len(cs) - b /\ b + u = Len(cs) BY <1>0
    <3>2. \A t \in Nat : b + t <= Len(cs) => cs[a + t] = cs[b + t] BY <2>1
    <3>3. cs[a + u] = cs[b + u] BY <1>0, <3>1, <3>2
    <3> QED BY <3>1, <3>3
  <2>3. Fat(k, cs[Len(cs)]) = Eoc
    <3>1. Len(cs) \in 1..Len(cs) /\ ~(Len(cs) < Len(cs)) BY <1>0
    <3> QED BY <3>1 DEF Leads
  <2>4. Fat(k, cs[a + (Len(cs) - b)]) = cs[a + (Len(cs) - b) + 1]
    <3>1. a + (Len(cs) - b) \in 1..Len(cs) /\ a + (Len(cs) - b) < Len(cs) BY <1>0, <1>1
    <3> QED BY <3>1 DEF Leads
  <2>5. cs[a + (Len(cs) - b) + 1] \in Clusters
    <3>1. a + (Len(cs) - b) + 1 \in 1..Len(cs) BY <1>0, <1>1
    <3> QED BY <3>1, <1>0
  <2> QED BY <2>2, <2>3, <2>4, <2>5, Geometry
<1> QED BY <1>0, <1>1

(* So it is shorter than there are clusters.                                 *)
LEMMA LeadsShort ==
  ASSUME NEW k, NEW cs, Leads(k, cs)
  PROVE  Len(cs) < MaxCluster
<1>0. cs \in Seq(Clusters) /\ Len(cs) \in Nat BY DEF Leads
<1>1. cs \in Injection(1..Len(cs), Clusters)
  <2>1. cs \in [1..Len(cs) -> Clusters] BY <1>0
  <2> QED BY <2>1, LeadsOnce DEF Injection, IsInjective
<1>2. IsFiniteSet(Clusters) /\ Cardinality(Clusters) = MaxCluster - 1
  BY FS_Interval, Geometry
<1>3. Cardinality(1..Len(cs)) = Len(cs)
  <2>1. PICK h \in Nat : h = Len(cs) BY <1>0
  <2>2. Cardinality(1..h) = IF 1 > h THEN 0 ELSE h - 1 + 1 BY FS_Interval
  <2>3. Cardinality(1..h) = h BY <2>2
  <2> QED BY <2>1, <2>3
<1>4. Cardinality(1..Len(cs)) <= Cardinality(Clusters) BY <1>1, <1>2, FS_Injection
<1> QED BY <1>0, <1>2, <1>3, <1>4, Geometry

(* What the walk through the table comes by, one entry after the other.      *)
Follows(k, c, to) ==
  to = [i \in 0..MaxCluster |->
          IF i = 0 THEN c
          ELSE LET prev == to[i - 1] IN IF prev \in Clusters THEN Fat(k, prev) ELSE prev]

(* What ChainFrom makes of the entries it follows.                           *)
Walked(f) == [i \in {j \in 1..MaxCluster : f[j - 1] \in Clusters} |-> f[i - 1]]

(* ChainFrom is the walk along the entries, taken as far as they are         *)
(* clusters.                                                                 *)
LEMMA ChainWalk ==
  ASSUME NEW k, NEW c, NEW f, Follows(k, c, f)
  PROVE  ChainFrom(k, c) = Walked(f)
<1> DEFINE to == CHOOSE g : Follows(k, c, g)
<1>1. Follows(k, c, to) OBVIOUS
<1>2. ChainFrom(k, c) = [i \in {j \in 1..MaxCluster : to[j - 1] \in Clusters} |-> to[i - 1]]
  BY DEF ChainFrom, Follows
<1> HIDE DEF to
<1>3. \A i \in 0..MaxCluster : to[i] = f[i]
  <2> DEFINE T == {i \in 0..MaxCluster : to[i] # f[i]}
  <2> SUFFICES ASSUME T # {} PROVE FALSE OBVIOUS
  <2>1. PICK t \in T : \A y \in T : t <= y
    <3>1. T \in SUBSET Nat BY Geometry
    <3> HIDE DEF T
    <3> QED BY <3>1, LeastOf
  <2>2. t # 0 BY <1>1, Geometry DEF Follows
  <2>3. t - 1 \in 0..MaxCluster /\ t - 1 \notin T BY <2>1, <2>2, Geometry
  <2>4. to[t - 1] = f[t - 1] BY <2>3
  <2> QED BY <1>1, <2>1, <2>2, <2>3, <2>4 DEF Follows
<1>4. \A j \in 1..MaxCluster : to[j - 1] = f[j - 1] BY <1>3, Geometry
<1> QED BY <1>2, <1>4 DEF Walked

(* Where a chain leads, ChainFrom finds just it.                             *)
LEMMA ChainFound ==
  ASSUME NEW k, NEW cs, Leads(k, cs), cs # <<>>
  PROVE  ChainFrom(k, cs[1]) = cs
<1>0. cs \in Seq(Clusters) /\ Len(cs) \in Nat \ {0} /\ Len(cs) < MaxCluster BY LeadsShort, EmptySeq DEF Leads
<1> DEFINE f == [i \in 0..MaxCluster |-> IF i < Len(cs) THEN cs[i + 1] ELSE Eoc]
<1>1. \A i \in 1..MaxCluster :
        f[i] = IF f[i - 1] \in Clusters THEN Fat(k, f[i - 1]) ELSE f[i - 1]
  <2> SUFFICES ASSUME NEW i \in 1..MaxCluster
               PROVE  f[i] = IF f[i - 1] \in Clusters THEN Fat(k, f[i - 1]) ELSE f[i - 1]
    OBVIOUS
  <2>0. i - 1 \in 0..MaxCluster /\ i \in 0..MaxCluster BY Geometry
  <2>1. CASE i <= Len(cs)
    <3>0. i \in 1..Len(cs) /\ i - 1 < Len(cs) /\ i - 1 + 1 = i BY <1>0, <2>1
    <3>1. f[i - 1] = cs[i] /\ cs[i] \in Clusters BY <1>0, <2>0, <3>0
    <3>2. Fat(k, cs[i]) = IF i < Len(cs) THEN cs[i + 1] ELSE Eoc BY <3>0 DEF Leads
    <3>3. f[i] = IF i < Len(cs) THEN cs[i + 1] ELSE Eoc BY <2>0
    <3> HIDE DEF f
    <3> QED BY <3>1, <3>2, <3>3
  <2>2. CASE i > Len(cs)
    <3>1. f[i] = Eoc /\ f[i - 1] = Eoc BY <1>0, <2>0, <2>2
    <3> HIDE DEF f
    <3> QED BY <3>1, Geometry
  <2> QED BY <1>0, <2>1, <2>2
<1>2. f[0] = cs[1]
  <2>1. 0 \in 0..MaxCluster /\ 0 < Len(cs) BY <1>0, Geometry
  <2> QED BY <2>1
<1>3. f = [i \in 0..MaxCluster |->
             IF i = 0 THEN cs[1]
             ELSE IF f[i - 1] \in Clusters THEN Fat(k, f[i - 1]) ELSE f[i - 1]]
  <2>2. f = [i \in 0..MaxCluster |-> f[i]] OBVIOUS
  <2> HIDE DEF f
  <2>1. \A i \in 0..MaxCluster : f[i] = IF i = 0 THEN cs[1]
             ELSE IF f[i - 1] \in Clusters THEN Fat(k, f[i - 1]) ELSE f[i - 1]
    <3>1. \A i \in 0..MaxCluster : i = 0 \/ i \in 1..MaxCluster BY Geometry
    <3> QED BY <1>1, <1>2, <3>1
  <2> QED BY <2>1, <2>2
<1>4. Follows(k, cs[1], f) BY <1>3 DEF Follows
<1>5. {j \in 1..MaxCluster : f[j - 1] \in Clusters} = 1..Len(cs)
  <2>1. \A j \in 1..MaxCluster : f[j - 1] = IF j <= Len(cs) THEN cs[j] ELSE Eoc BY <1>0, Geometry
  <2> HIDE DEF f
  <2>2. \A j \in 1..Len(cs) : cs[j] \in Clusters /\ j \in 1..MaxCluster BY <1>0, Geometry
  <2>3. \A j \in 1..MaxCluster : f[j - 1] \in Clusters <=> j <= Len(cs)
    <3>1. \A j \in 1..MaxCluster : j <= Len(cs) => j \in 1..Len(cs) BY <1>0, Geometry
    <3> QED BY <2>1, <2>2, <3>1, Geometry
  <2>4. \A j \in 1..MaxCluster : j <= Len(cs) <=> j \in 1..Len(cs) BY <1>0, Geometry
  <2> QED BY <2>2, <2>3, <2>4
<1>6. \A j \in 1..Len(cs) : f[j - 1] = cs[j] BY <1>0, Geometry
<1> HIDE DEF f
<1>7. ChainFrom(k, cs[1]) = [i \in 1..Len(cs) |-> f[i - 1]]
  <2>1. ChainFrom(k, cs[1]) = Walked(f) BY <1>4, ChainWalk
  <2> QED BY <1>5, <2>1 DEF Walked
<1>8. cs = [i \in 1..Len(cs) |-> cs[i]] BY <1>0
<1> QED BY <1>6, <1>7, <1>8

(* A file that has no cluster has no chain.                                  *)
LEMMA NoChainAtNone ==
  ASSUME NEW k
  PROVE  ChainFrom(k, 0) = <<>>
<1> DEFINE f == [i \in 0..MaxCluster |-> 0]
<1>1. Follows(k, 0, f)
  <2>1. \A i \in 0..MaxCluster : 0 = IF i = 0 THEN 0
             ELSE IF f[i - 1] \in Clusters THEN Fat(k, f[i - 1]) ELSE f[i - 1]
    BY Geometry
  <2>2. f = [i \in 0..MaxCluster |-> IF i = 0 THEN 0
             ELSE IF f[i - 1] \in Clusters THEN Fat(k, f[i - 1]) ELSE f[i - 1]]
    BY <2>1
  <2> HIDE DEF f
  <2> QED BY <2>2 DEF Follows
<1>2. {j \in 1..MaxCluster : f[j - 1] \in Clusters} = {} BY Geometry
<1> HIDE DEF f
<1>3. ChainFrom(k, 0) = Walked(f) BY <1>1, ChainWalk
<1>4. ChainFrom(k, 0) = [i \in {} |-> f[i - 1]] BY <1>2, <1>3 DEF Walked
<1> QED BY <1>4

---------------------------------------------------------------------------
(* Sectors, and the places in them.                                          *)

(* The sectors of clusters and of a fixed root are text, each of them its    *)
(* own, and none is of the FAT.                                              *)
LEMMA SectorPlaces ==
  /\ \A c \in Clusters, s \in 0..(ClusterSectors - 1) : DataSector(c, s) \in TextSectors
  /\ \A s \in 0..(RootSectors - 1) : <<"root", s>> \in TextSectors
  /\ \A c, s, d, t : DataSector(c, s) = DataSector(d, t) => c = d /\ s = t
  /\ \A c, s, t : DataSector(c, s) # <<"root", t>>
  /\ \A s \in TextSectors : s \in SectorSet /\ s \notin FatSectors /\ s # Boot /\ s # FsInfo
<1>1. \A c \in Clusters, s \in 0..(ClusterSectors - 1) : DataSector(c, s) \in SectorSet
  BY DEF SectorSet
<1>2. \A s \in 0..(RootSectors - 1) : <<"root", s>> \in SectorSet BY DEF SectorSet
<1>3. \A c, s, d, t : DataSector(c, s) = DataSector(d, t) => c = d /\ s = t BY DEF DataSector
<1> QED BY <1>1, <1>2, <1>3, Names DEF TextSectors, Texts

(* The sectors of a chain.                                                   *)
LEMMA SectorsOfIs ==
  ASSUME NEW cs \in Seq(Clusters)
  PROVE  /\ Len(cs) \in Nat /\ Len(cs) * ClusterSectors \in Nat
         /\ Len(SectorsOf(cs)) = Len(cs) * ClusterSectors
         /\ \A j \in 1..(Len(cs) * ClusterSectors) :
              \E a \in 1..Len(cs), s \in 0..(ClusterSectors - 1) :
                 /\ j = (a - 1) * ClusterSectors + s + 1
                 /\ SectorsOf(cs)[j] = DataSector(cs[a], s)
                 /\ a = 1 + (j - 1) \div ClusterSectors /\ s = (j - 1) % ClusterSectors
<1>1. PICK m \in Nat : m = Len(cs) OBVIOUS
<1>2. PICK b \in Nat \ {0} : b = ClusterSectors BY Geometry
<1>3. PICK h \in Nat : h = m * b OBVIOUS
<1>4. SectorsOf(cs) = [j \in 1..h |-> DataSector(cs[1 + (j - 1) \div b], (j - 1) % b)]
  BY <1>1, <1>2, <1>3 DEF SectorsOf
<1>5. Len(SectorsOf(cs)) = h BY <1>4
<1>6. ASSUME NEW j \in 1..h
      PROVE  \E a \in 1..m, s \in 0..(b - 1) :
                /\ j = (a - 1) * b + s + 1
                /\ SectorsOf(cs)[j] = DataSector(cs[a], s)
                /\ a = 1 + (j - 1) \div b /\ s = (j - 1) % b
  <2>1. PICK x \in Nat : x = j - 1 /\ x < m * b BY <1>3
  <2>2. PICK q \in Nat, r \in 0..(b - 1) : x \div b = q /\ x % b = r /\ x = q * b + r BY Divides
  <2>3. q \in 0..(m - 1) BY <2>1, <2>2, PartBelow
  <2>4. SectorsOf(cs)[j] = DataSector(cs[1 + q], r) BY <1>4, <2>1, <2>2
  <2>5. q + 1 \in 1..m /\ q + 1 - 1 = q /\ q + 1 = 1 + q BY <2>3
  <2>6. j = (q + 1 - 1) * b + r + 1 BY <2>1, <2>2, <2>5
  <2> QED BY <2>1, <2>2, <2>4, <2>5, <2>6
<1> QED BY <1>1, <1>2, <1>3, <1>5, <1>6

(* None of them comes twice.                                                 *)
LEMMA SectorsOnce ==
  ASSUME NEW k, NEW cs, Leads(k, cs), NEW i \in 1..(Len(cs) * ClusterSectors),
         NEW j \in 1..(Len(cs) * ClusterSectors), SectorsOf(cs)[i] = SectorsOf(cs)[j]
  PROVE  i = j
<1>1. cs \in Seq(Clusters) BY DEF Leads
<1>2. PICK a \in 1..Len(cs), s \in 0..(ClusterSectors - 1) :
         i = (a - 1) * ClusterSectors + s + 1 /\ SectorsOf(cs)[i] = DataSector(cs[a], s)
  BY <1>1, SectorsOfIs
<1>3. PICK b \in 1..Len(cs), t \in 0..(ClusterSectors - 1) :
         j = (b - 1) * ClusterSectors + t + 1 /\ SectorsOf(cs)[j] = DataSector(cs[b], t)
  BY <1>1, SectorsOfIs
<1>4. cs[a] = cs[b] /\ s = t BY <1>2, <1>3, SectorPlaces
<1>5. a = b BY <1>4, LeadsOnce
<1> QED BY <1>2, <1>3, <1>4, <1>5

(* The place of a unit, counted from one over sectors one after the other.   *)
LEMMA PlaceIs ==
  ASSUME NEW m \in Nat, NEW p \in 1..(m * SectorUnits)
  PROVE  \E j \in 1..m, i \in 1..SectorUnits :
            /\ p = (j - 1) * SectorUnits + i
            /\ j = 1 + (p - 1) \div SectorUnits
            /\ \A sectors : PlaceOf(sectors, p) = <<sectors[j], i>>
<1>1. PICK b \in Nat \ {0} : b = SectorUnits BY Geometry
<1>2. PICK x \in Nat : x = p - 1 /\ x < m * b BY <1>1
<1>3. PICK q \in Nat, r \in 0..(b - 1) : x \div b = q /\ x % b = r /\ x = q * b + r BY Divides
<1>4. q \in 0..(m - 1) BY <1>2, <1>3, PartBelow
<1>5. q + 1 \in 1..m /\ q + 1 - 1 = q /\ r + 1 \in 1..b BY <1>3, <1>4
<1>6. p = (q + 1 - 1) * b + (r + 1) BY <1>2, <1>3, <1>5
<1>7. \A sectors : PlaceOf(sectors, p) = <<sectors[q + 1], r + 1>>
  <2>1. \A sectors : PlaceOf(sectors, p) = <<sectors[1 + q], 1 + r>> BY <1>1, <1>2, <1>3 DEF PlaceOf
  <2>2. 1 + q = q + 1 /\ 1 + r = r + 1 OBVIOUS
  <2> QED BY <2>1, <2>2
<1>8. q + 1 = 1 + (p - 1) \div b BY <1>2, <1>3
<1> QED BY <1>1, <1>5, <1>6, <1>7, <1>8

(* The i-th unit of the j-th sector is where it is counted to be.            *)
LEMMA PlaceAt ==
  ASSUME NEW j \in Nat \ {0}, NEW i \in 1..SectorUnits, NEW sectors
  PROVE  /\ (j - 1) * SectorUnits + i \in Nat \ {0}
         /\ PlaceOf(sectors, (j - 1) * SectorUnits + i) = <<sectors[j], i>>
<1>1. PICK b \in Nat \ {0} : b = SectorUnits BY Geometry
<1>2. PICK q \in Nat, r \in 0..(b - 1) : q = j - 1 /\ r = i - 1 BY <1>1
<1>3. PICK x \in Nat : x = q * b + r OBVIOUS
<1>4. x \div b = q /\ x % b = r BY <1>3, DividedBy
<1>5. (j - 1) * b + i = x + 1 BY <1>2, <1>3
<1>6. PlaceOf(sectors, x + 1) = <<sectors[1 + x \div b], 1 + (x % b)>>
  <2>1. x + 1 - 1 = x OBVIOUS
  <2> QED BY <1>1, <2>1 DEF PlaceOf
<1>7. 1 + q = j /\ 1 + r = i BY <1>2
<1> QED BY <1>1, <1>4, <1>5, <1>6, <1>7

(* The i-th unit of the s-th of c parts is among all of them.                *)
LEMMA Within ==
  ASSUME NEW b \in Nat \ {0}, NEW c \in Nat \ {0}, NEW s \in 0..(c - 1), NEW i \in 1..b
  PROVE  s * b + i \in 1..(c * b)
<1>1. s * b >= 0 OBVIOUS
<1>2. (c - 1 - s) * b >= 0 OBVIOUS
<1>3. (c - 1 - s) * b = c * b - b - s * b OBVIOUS
<1> QED BY <1>1, <1>2, <1>3

(* The place of a unit in a chain of clusters.                               *)
LEMMA FilePlace ==
  ASSUME NEW cs \in Seq(Clusters), NEW x \in 1..(Len(cs) * ClusterUnits)
  PROVE  \E a \in 1..Len(cs), s \in 0..(ClusterSectors - 1), i \in 1..SectorUnits :
            /\ x = (a - 1) * ClusterUnits + s * SectorUnits + i
            /\ PlaceOf(SectorsOf(cs), x) = <<DataSector(cs[a], s), i>>
            /\ a = 1 + (x - 1) \div ClusterUnits
            /\ s * SectorUnits + i \in 1..ClusterUnits
<1>1. PICK b \in Nat \ {0}, c \in Nat \ {0} : b = SectorUnits /\ c = ClusterSectors BY Geometry
<1>2. PICK n_ \in Nat : n_ = Len(cs) OBVIOUS
<1>3. PICK h \in Nat : h = n_ * c OBVIOUS
<1>4. x \in 1..(h * b)
  <2>1. n_ * (c * b) = (n_ * c) * b OBVIOUS
  <2> QED BY <1>1, <1>2, <1>3, <2>1 DEF ClusterUnits
<1>5. PICK j \in 1..h, i \in 1..b :
         x = (j - 1) * b + i /\ \A sectors : PlaceOf(sectors, x) = <<sectors[j], i>>
  BY <1>1, <1>4, PlaceIs
<1>6. PICK a \in 1..n_, s \in 0..(c - 1) :
         j = (a - 1) * c + s + 1 /\ SectorsOf(cs)[j] = DataSector(cs[a], s)
  BY SMTT(30), <1>1, <1>2, <1>3, SectorsOfIs
<1>7. x = (a - 1) * (c * b) + (s * b + i)
  <2>1. ((a - 1) * c + s) * b + i = (a - 1) * (c * b) + (s * b + i) BY Regrouped
  <2>2. j - 1 = (a - 1) * c + s BY <1>6
  <2> QED BY <1>5, <2>1, <2>2
<1>8. s * b + i \in 1..(c * b) BY <1>5, <1>6, Within
<1>9. (x - 1) \div (c * b) = a - 1
  <2>a. PICK w \in Nat \ {0} : w = c * b OBVIOUS
  <2>1. PICK y \in 0..(w - 1) : w = c * b /\ y = s * b + i - 1 BY <1>8, <2>a
  <2>2. PICK z \in Nat : z = x - 1 BY <1>5
  <2>3. z = (a - 1) * w + y /\ a - 1 \in Int BY <1>6, <1>7, <2>1, <2>2
  <2>4. z \div w = a - 1 BY <2>3, DividedBy, Zenon
  <2> QED BY <2>1, <2>2, <2>4
<1>10. PlaceOf(SectorsOf(cs), x) = <<DataSector(cs[a], s), i>> BY <1>5, <1>6
<1>11. a = 1 + (x - 1) \div (c * b) BY <1>6, <1>9
<1>12. c * b = ClusterUnits BY <1>1 DEF ClusterUnits
<1>13. x = (a - 1) * (c * b) + s * b + i BY <1>5, <1>6, <1>7, <1>8
<1> QED BY <1>1, <1>2, <1>5, <1>6, <1>8, <1>10, <1>11, <1>12, <1>13

(* The unit of a chain that is the i-th of a sector of a cluster is in       *)
(* that sector.                                                              *)
LEMMA FilePlaceAt ==
  ASSUME NEW cs \in Seq(Clusters), NEW a \in 1..Len(cs), NEW s \in 0..(ClusterSectors - 1),
         NEW i \in 1..SectorUnits
  PROVE  /\ (a - 1) * ClusterUnits + s * SectorUnits + i \in 1..(Len(cs) * ClusterUnits)
         /\ s * SectorUnits + i \in 1..ClusterUnits
         /\ PlaceOf(SectorsOf(cs), (a - 1) * ClusterUnits + s * SectorUnits + i)
              = <<DataSector(cs[a], s), i>>
         /\ (a - 1) * ClusterSectors + s + 1 \in 1..(Len(cs) * ClusterSectors)
         /\ SectorsOf(cs)[(a - 1) * ClusterSectors + s + 1] = DataSector(cs[a], s)
<1>1. PICK b \in Nat \ {0}, c \in Nat \ {0} : b = SectorUnits /\ c = ClusterSectors BY Geometry
<1>2. PICK n_ \in Nat : n_ = Len(cs) OBVIOUS
<1>3. PICK u \in Nat : u = a - 1 /\ u < n_ BY <1>2
<1>4. PICK j \in Nat \ {0} : j = u * c + s + 1 BY <1>1
<1>h. PICK h \in Nat : h = n_ * c OBVIOUS
<1>5. j \in 1..h
  <2>1. (n_ - 1 - u) * c >= 0 BY <1>3
  <2>2. (n_ - 1 - u) * c = n_ * c - c - u * c BY <1>3
  <2> QED BY <1>1, <1>3, <1>4, <1>h, <2>1, <2>2
<1>6. PICK g \in 1..n_, t \in 0..(c - 1) :
         /\ j = (g - 1) * c + t + 1
         /\ SectorsOf(cs)[j] = DataSector(cs[g], t)
  <2>1. j \in 1..(Len(cs) * ClusterSectors) BY <1>1, <1>2, <1>5, <1>h
  <2>2. PICK g \in 1..Len(cs), t \in 0..(ClusterSectors - 1) :
           j = (g - 1) * ClusterSectors + t + 1 /\ SectorsOf(cs)[j] = DataSector(cs[g], t)
    BY <2>1, SectorsOfIs
  <2> QED BY <1>1, <1>2, <2>2
<1>7. g = a /\ t = s
  <2>1. (g - 1 - u) * c = s - t
    <3>1. (g - 1 - u) * c = (g - 1) * c - u * c BY <1>3, <1>6
    <3> QED BY <1>1, <1>4, <1>6, <3>1
  <2>2. s - t < c /\ s - t > -c BY <1>1, <1>6
  <2>3. PICK d \in Int : d = g - 1 - u BY <1>3, <1>6
  <2>4. d * c < c /\ d * c > -c BY <2>1, <2>2, <2>3
  <2>5. d = 0 BY <2>4, Small
  <2> QED BY <1>1, <1>3, <1>6, <2>1, <2>3, <2>5
<1>8. (j - 1) * b + i = u * (c * b) + s * b + i
  <2>1. (u * c + s) * b + i = u * (c * b) + (s * b + i) BY <1>1, Regrouped
  <2>2. j - 1 = u * c + s BY <1>1, <1>4
  <2> QED BY <1>1, <2>1, <2>2
<1>9. PlaceOf(SectorsOf(cs), (j - 1) * b + i) = <<SectorsOf(cs)[j], i>> BY <1>1, PlaceAt
<1>10. s * b + i \in 1..(c * b) BY <1>1, Within
<1>11. u * (c * b) + s * b + i \in 1..(n_ * (c * b))
  <2>1. PICK w \in Nat : w = c * b OBVIOUS
  <2>2. u * w >= 0 BY <2>1
  <2>3. (n_ - 1 - u) * w >= 0 BY <1>3, <2>1
  <2>4. (n_ - 1 - u) * w = n_ * w - w - u * w BY <1>3, <2>1
  <2>5. s * b + i \in 1..w BY <1>10, <2>1
  <2>6. s * b \in Int /\ i \in Int BY <1>1
  <2>7. u * w + s * b + i \in 1..(n_ * w) BY <2>1, <2>2, <2>3, <2>4, <2>5, <2>6
  <2> QED BY <2>1, <2>7
<1>12. c * b = ClusterUnits BY <1>1 DEF ClusterUnits
<1>13. PlaceOf(SectorsOf(cs), u * (c * b) + s * b + i) = <<DataSector(cs[a], s), i>>
  BY <1>6, <1>7, <1>8, <1>9
<1> QED BY <1>1, <1>2, <1>3, <1>4, <1>5, <1>h, <1>6, <1>7, <1>10, <1>11, <1>12, <1>13

(* A chain's units are places on the card.                                   *)
LEMMA FileInPlaces ==
  ASSUME NEW cs \in Seq(Clusters), NEW x \in 1..(Len(cs) * ClusterUnits)
  PROVE  PlaceOf(SectorsOf(cs), x) \in Places
<1>1. PICK a \in 1..Len(cs), s \in 0..(ClusterSectors - 1), i \in 1..SectorUnits :
         PlaceOf(SectorsOf(cs), x) = <<DataSector(cs[a], s), i>>
  BY FilePlace
<1>2. cs[a] \in Clusters OBVIOUS
<1> QED BY <1>1, <1>2, SectorPlaces DEF Places

(* No place comes twice in a chain, nor in two that are apart.               *)
LEMMA FileOnce ==
  ASSUME NEW k, NEW cs, Leads(k, cs), NEW x \in 1..(Len(cs) * ClusterUnits),
         NEW y \in 1..(Len(cs) * ClusterUnits),
         PlaceOf(SectorsOf(cs), x) = PlaceOf(SectorsOf(cs), y)
  PROVE  x = y
<1>1. cs \in Seq(Clusters) BY DEF Leads
<1>2. PICK a \in 1..Len(cs), s \in 0..(ClusterSectors - 1), i \in 1..SectorUnits :
         /\ x = (a - 1) * ClusterUnits + s * SectorUnits + i
         /\ PlaceOf(SectorsOf(cs), x) = <<DataSector(cs[a], s), i>>
  BY <1>1, FilePlace
<1>3. PICK b \in 1..Len(cs), t \in 0..(ClusterSectors - 1), j \in 1..SectorUnits :
         /\ y = (b - 1) * ClusterUnits + t * SectorUnits + j
         /\ PlaceOf(SectorsOf(cs), y) = <<DataSector(cs[b], t), j>>
  BY SMTT(30), <1>1, FilePlace
<1>4. cs[a] = cs[b] /\ s = t /\ i = j BY <1>2, <1>3, SectorPlaces
<1>5. a = b BY <1>4, LeadsOnce
<1> QED BY <1>2, <1>3, <1>4, <1>5

(* The directory's sectors.                                                  *)
Kinds == {"fat32", "fat16"}

(* They are sectors of text, as many as the chain or the fixed root has.     *)
LEMMA TableSectorsAre ==
  ASSUME NEW kd \in Kinds, NEW D \in Seq(Clusters)
  PROVE  /\ TableSectors(kd, D) \in Seq(TextSectors)
         /\ Len(TableSectors(kd, D)) \in Nat /\ TableSize(kd, D) \in Nat
         /\ kd = "fat32" => TableSize(kd, D) = Len(D) * ClusterUnits
         /\ kd = "fat16" => TableSize(kd, D) = RootSectors * SectorUnits
<1>1. CASE kd = "fat32"
  <2>1. TableSectors(kd, D) = SectorsOf(D) BY <1>1 DEF TableSectors
  <2>2. PICK h \in Nat : h = Len(D) * ClusterSectors /\ Len(SectorsOf(D)) = h BY SectorsOfIs
  <2>3. \A j \in 1..h : SectorsOf(D)[j] \in TextSectors
    <3> SUFFICES ASSUME NEW j \in 1..h PROVE SectorsOf(D)[j] \in TextSectors OBVIOUS
    <3>1. PICK a \in 1..Len(D), s \in 0..(ClusterSectors - 1) : SectorsOf(D)[j] = DataSector(D[a], s)
      BY <2>2, SectorsOfIs
    <3> QED BY <3>1, SectorPlaces
  <2>4. SectorsOf(D) = [j \in 1..h |-> SectorsOf(D)[j]]
    <3>1. SectorsOf(D) = [j \in 1..h |-> DataSector(D[1 + (j - 1) \div ClusterSectors], (j - 1) % ClusterSectors)]
      BY <2>2 DEF SectorsOf
    <3> QED BY <3>1
  <2>5. SectorsOf(D) \in [1..h -> TextSectors] BY <2>3, <2>4
  <2>6. SectorsOf(D) \in Seq(TextSectors) BY <2>5
  <2>7. TableSize(kd, D) = Len(D) * ClusterUnits
    <3>1. PICK u \in Nat, b \in Nat, c \in Nat : u = Len(D) /\ b = ClusterSectors /\ c = SectorUnits
      BY Geometry
    <3>2. (u * b) * c = u * (b * c) OBVIOUS
    <3> QED BY <2>1, <2>2, <3>1, <3>2 DEF TableSize, ClusterUnits
  <2> QED BY <1>1, <2>1, <2>2, <2>6, <2>7, Geometry DEF TableSize
<1>2. CASE kd = "fat16"
  <2>1. TableSectors(kd, D) = [i \in 1..RootSectors |-> <<"root", i - 1>>] BY <1>2 DEF TableSectors
  <2>2. TableSectors(kd, D) \in [1..RootSectors -> TextSectors] BY <2>1, SectorPlaces, Geometry
  <2>3. Len(TableSectors(kd, D)) = RootSectors BY <2>1, Geometry
  <2>4. TableSectors(kd, D) \in Seq(TextSectors) BY <2>2, Geometry
  <2>5. RootSectors * SectorUnits \in Nat BY Geometry
  <2> QED BY <1>2, <2>3, <2>4, <2>5, Geometry DEF TableSize
<1> QED BY <1>1, <1>2 DEF Kinds

(* A directory's units are places on the card.                               *)
LEMMA TableInPlaces ==
  ASSUME NEW kd \in Kinds, NEW D \in Seq(Clusters), NEW p \in 1..TableSize(kd, D)
  PROVE  PlaceOf(TableSectors(kd, D), p) \in Places
<1>1. PICK m \in Nat : m = Len(TableSectors(kd, D)) BY TableSectorsAre
<1>2. PICK j \in 1..m, i \in 1..SectorUnits : PlaceOf(TableSectors(kd, D), p) = <<TableSectors(kd, D)[j], i>>
  <2>1. p \in 1..(m * SectorUnits) BY <1>1 DEF TableSize
  <2> QED BY <2>1, PlaceIs
<1>3. TableSectors(kd, D)[j] \in TextSectors BY <1>1, TableSectorsAre
<1> QED BY <1>2, <1>3 DEF Places

---------------------------------------------------------------------------
(* What is read on a card that is in order.                                  *)

(* The model's Directory is the units of the directory's chain, or of the    *)
(* fixed root.                                                               *)
LEMMA TableRead ==
  ASSUME NEW k, NEW D, NEW F, Chains(k, D, F)
  PROVE  /\ k[Boot] \in Kinds /\ D \in Seq(Clusters)
         /\ DirSectors(k) = TableSectors(k[Boot], D)
         /\ Directory(k) = [p \in 1..TableSize(k[Boot], D) |-> TableUnit(k, D, p)]
<1>1. k[Boot] \in Kinds /\ D \in Seq(Clusters) BY DEF Chains, Leads, Kinds
<1>2. DirSectors(k) = TableSectors(k[Boot], D)
  <2>1. CASE k[Boot] = "fat32"
    <3>1. ChainFrom(k, Root) = D BY <2>1, ChainFound DEF Chains
    <3> QED BY <2>1, <3>1 DEF DirSectors, TableSectors
  <2>2. CASE k[Boot] = "fat16" BY <2>2 DEF DirSectors, TableSectors
  <2> QED BY <1>1, <2>1, <2>2 DEF Kinds
<1>3. Directory(k) = [p \in 1..TableSize(k[Boot], D) |-> TableUnit(k, D, p)]
  BY <1>2 DEF Directory, Units, TableSize, TableUnit, TablePlace, UnitAt, PlaceOf
<1> QED BY <1>1, <1>2, <1>3

(* The report's entry is all there is, if it is there.                       *)
LEMMA ReportsRead ==
  ASSUME NEW k, NEW D, NEW F, NEW l, Struct(k, D, F, l)
  PROVE  Reports(k) = IF IsReport(UnitAt(k, l)) THEN {UnitAt(k, l)} ELSE {}
<1> DEFINE d == Directory(k)
           m == TableSize(k[Boot], D)
<1>1. k[Boot] \in Kinds /\ D \in Seq(Clusters) /\ d = [p \in 1..m |-> TableUnit(k, D, p)] /\ m \in Nat
  BY TableRead, TableSectorsAre DEF Struct
<1>2. \A p \in 1..m : TablePlace(k, D, p) \in Places BY <1>1, TableInPlaces DEF TablePlace
<1>3. Reports(k) = {d[i] : i \in {j \in Listed(k) : IsReport(d[j])}} BY DEF Reports
<1>4. Listed(k) = {i \in 1..m : \A j \in 1..i : d[j] # EndOfDir} BY <1>1 DEF Listed
<1>5. \A p \in 1..m : d[p] = UnitAt(k, TablePlace(k, D, p)) BY <1>1 DEF TableUnit
<1> HIDE DEF d, m
<1>6. \A p \in 1..m : IsReport(d[p]) => d[p] = UnitAt(k, l)
  <2> SUFFICES ASSUME NEW p \in 1..m, IsReport(d[p]) PROVE d[p] = UnitAt(k, l) OBVIOUS
  <2>1. PICK x \in Places : x = TablePlace(k, D, p) /\ d[p] = UnitAt(k, x) BY <1>2, <1>5
  <2>2. Len(UnitAt(k, x)) = 3 /\ UnitAt(k, x)[1] = "report" BY <2>1 DEF IsReport
  <2>3. UnitAt(k, x) \notin {Other, Label} BY <2>2 DEF Other, Label, Entry
  <2>4. x = l BY <2>2, <2>3 DEF Struct, Entries
  <2> QED BY <2>1, <2>4
<1>7. CASE IsReport(UnitAt(k, l))
  <2>1. PICK p \in 1..m : TablePlace(k, D, p) = l /\ \A q \in 1..p : TableUnit(k, D, q) # EndOfDir
    BY <1>7 DEF Struct, Entries, m
  <2>2. \A q \in 1..p : d[q] = TableUnit(k, D, q) BY <1>1, <1>5 DEF TableUnit
  <2>3. p \in Listed(k) BY <1>4, <2>1, <2>2
  <2>4. d[p] = UnitAt(k, l) BY <1>5, <2>1
  <2>5. UnitAt(k, l) \in Reports(k) BY <1>3, <1>7, <2>3, <2>4
  <2>6. \A e \in Reports(k) : e = UnitAt(k, l) BY <1>3, <1>4, <1>6
  <2> QED BY <1>7, <2>5, <2>6
<1>8. CASE ~IsReport(UnitAt(k, l)) BY <1>3, <1>4, <1>6, <1>8
<1> QED BY <1>7, <1>8

(* The file on it.                                                           *)
LEMMA FileRead ==
  ASSUME NEW k, NEW D, NEW F, NEW l, Struct(k, D, F, l)
  PROVE  /\ Size(k, l) \in Nat /\ Size(k, l) <= Len(F) * ClusterUnits
         /\ FileOn(k) = [x \in 1..Size(k, l) |-> FileUnit(k, F, x)]
<1>0. F \in Seq(Clusters) /\ Len(F) \in Nat /\ Len(F) * ClusterUnits \in Nat
  BY Geometry DEF Struct, Chains, Leads
<1>1. CASE ~IsReport(UnitAt(k, l))
  <2>1. Size(k, l) = 0 BY <1>1 DEF Size
  <2>2. Reports(k) = {} BY <1>1, ReportsRead
  <2>3. FileOn(k) = <<>> BY <2>2 DEF FileOn
  <2>4. FileOn(k) = [x \in 1..0 |-> FileUnit(k, F, x)] BY <2>3
  <2> QED BY <1>0, <2>1, <2>4
<1>2. CASE IsReport(UnitAt(k, l))
  <2> DEFINE e == UnitAt(k, l)
             cs == ChainFrom(k, e[2])
             u == Units(k, SectorsOf(cs))
  <2>1. (CHOOSE y \in Reports(k) : TRUE) = e /\ Reports(k) # {} BY <1>2, ReportsRead
  <2>2. FileOn(k) = SubSeq(u, 1, IF e[3] <= Len(u) THEN e[3] ELSE Len(u)) BY <2>1 DEF FileOn
  <2>3. Size(k, l) = e[3] /\ e[3] \in Nat BY <1>2 DEF Size, Struct, Claim
  <2>4. CASE e[2] = 0
    <3>1. e[3] = 0 BY <1>2, <2>4 DEF Struct, Claim
    <3>2. cs = <<>> BY <2>4, NoChainAtNone
    <3>3. SectorsOf(cs) = [j \in 1..0 |-> DataSector(cs[1 + (j - 1) \div ClusterSectors], (j - 1) % ClusterSectors)]
      BY <3>2, Geometry DEF SectorsOf
    <3>4. Len(SectorsOf(cs)) = 0 BY <3>3
    <3>5. Len(u) = 0 BY <3>4, Geometry DEF Units
    <3>6. FileOn(k) = SubSeq(u, 1, 0) BY <2>2, <3>1, <3>5
    <3> HIDE DEF u, cs, e
    <3>7. FileOn(k) = <<>> BY <3>6
    <3>8. FileOn(k) = [x \in 1..0 |-> FileUnit(k, F, x)] BY <3>7
    <3> QED BY <1>0, <2>3, <3>1, <3>8
  <2>5. CASE e[2] # 0
    <3>1. F # <<>> /\ F[1] = e[2] /\ e[3] <= Len(F) * ClusterUnits BY <1>2, <2>5 DEF Struct, Claim
    <3>2. cs = F BY <3>1, ChainFound DEF Struct, Chains
    <3>3. Len(SectorsOf(F)) * SectorUnits = Len(F) * ClusterUnits
      <4>1. PICK a \in Nat, b \in Nat, c \in Nat : a = Len(F) /\ b = ClusterSectors /\ c = SectorUnits
        BY <1>0, Geometry
      <4>2. (a * b) * c = a * (b * c) OBVIOUS
      <4> QED BY <1>0, <4>1, <4>2, SectorsOfIs DEF ClusterUnits
    <3>4. u = [j \in 1..(Len(F) * ClusterUnits) |-> FileUnit(k, F, j)]
      BY <3>2, <3>3 DEF Units, FileUnit, UnitAt, PlaceOf
    <3>5. PICK h \in Nat, z \in Nat : h = Len(F) * ClusterUnits /\ z = e[3] /\ z <= h BY <1>0, <2>3, <3>1
    <3>6. Len(u) = h BY <3>4, <3>5
    <3>7. FileOn(k) = SubSeq(u, 1, z) BY <2>2, <3>5, <3>6
    <3> HIDE DEF u, cs, e
    <3>8. SubSeq(u, 1, z) = [j \in 1..z |-> u[j]] BY <3>4, <3>5
    <3>9. \A j \in 1..z : u[j] = FileUnit(k, F, j) BY <3>4, <3>5
    <3>10. FileOn(k) = [x \in 1..z |-> FileUnit(k, F, x)] BY <3>7, <3>8, <3>9
    <3> QED BY <2>3, <3>5, <3>10
  <2> QED BY <2>4, <2>5
<1> QED BY <1>1, <1>2

(* The text there was, and the text there is to be.                          *)

(* The text that was there comes first, then the report's units in order.    *)
LEMMA DueIs ==
  ASSUME NEW b, NEW m, IsSeq(b)
  PROVE  /\ Len(b \o Report(m)) = Len(b) + ReportUnits /\ IsSeq(b \o Report(m))
         /\ \A x \in 1..Len(b) : (b \o Report(m))[x] = b[x]
         /\ \A x \in 1..ReportUnits : (b \o Report(m))[Len(b) + x] = <<m, x>>
<1>0. PICK h \in Nat, u \in Nat : h = Len(b) /\ u = ReportUnits BY Geometry DEF IsSeq
<1> DEFINE S == {b[i] : i \in 1..Len(b)} \cup {<<m, i>> : i \in 1..ReportUnits}
           due == b \o Report(m)
<1>1. b \in Seq(S)
  <2>1. b \in [1..Len(b) -> S] BY DEF IsSeq
  <2> HIDE DEF S
  <2> QED BY <1>0, <2>1
<1>2. Report(m) = [i \in 1..u |-> <<m, i>>] BY <1>0 DEF Report
<1>3. Report(m) \in Seq(S) /\ Len(Report(m)) = u
  <2>1. Report(m) \in [1..u -> S] BY <1>0, <1>2
  <2> HIDE DEF S
  <2> QED BY <1>0, <1>2, <2>1
<1> HIDE DEF S
<1>4. /\ due \in Seq(S) /\ Len(due) = h + u
      /\ \A i \in 1..(h + u) : due[i] = IF i <= h THEN b[i] ELSE Report(m)[i - h]
  <2>1. /\ due \in Seq(S) /\ Len(due) = Len(b) + Len(Report(m))
        /\ \A i \in 1..(Len(b) + Len(Report(m))) :
              due[i] = IF i <= Len(b) THEN b[i] ELSE Report(m)[i - Len(b)]
    BY <1>1, <1>3, ConcatProperties
  <2> HIDE DEF due
  <2> QED BY <1>0, <1>3, <2>1
<1> HIDE DEF due
<1>5. IsSeq(due) BY <1>4 DEF IsSeq
<1>6. \A x \in 1..h : due[x] = b[x] BY <1>4
<1>7. \A x \in 1..u : due[h + x] = <<m, x>>
  <2> SUFFICES ASSUME NEW x \in 1..u PROVE due[h + x] = <<m, x>> OBVIOUS
  <2>1. h + x \in 1..(h + u) /\ ~(h + x <= h) /\ h + x - h = x OBVIOUS
  <2>2. due[h + x] = Report(m)[h + x - h] BY <1>4, <2>1
  <2> QED BY <1>2, <2>1, <2>2
<1> QED BY <1>0, <1>4, <1>5, <1>6, <1>7 DEF due

(* What agrees as far as it goes is a prefix.                                *)
LEMMA PrefixIs ==
  ASSUME NEW s, NEW t, IsSeq(s), IsSeq(t), Len(s) <= Len(t), \A i \in 1..Len(s) : s[i] = t[i]
  PROVE  IsPrefix(s, t)
<1>1. PICK a \in Nat, b \in Nat : a = Len(s) /\ b = Len(t) /\ a <= b BY DEF IsSeq
<1>2. s = [i \in 1..a |-> s[i]] /\ t = [i \in 1..b |-> t[i]] BY <1>1 DEF IsSeq
<1>3. SubSeq(s, 1, a) = [i \in 1..a |-> s[i]] BY <1>1, <1>2
<1>4. SubSeq(t, 1, a) = [i \in 1..a |-> t[i]] BY <1>1, <1>2
<1>5. SubSeq(s, 1, a) = SubSeq(t, 1, a) BY <1>1, <1>3, <1>4
<1> QED BY <1>1, <1>5 DEF IsPrefix

(* A card in order has the reports there were and the beginning of this one, *)
LEMMA TextKept ==
  ASSUME NEW k, NEW b, NEW m, CardOK(k, b, m)
  PROVE  IsPrefix(b, FileOn(k)) /\ IsPrefix(FileOn(k), b \o Report(m))
<1> DEFINE due == b \o Report(m)
<1>0. IsSeq(b) BY DEF CardOK
<1>1. CASE k[Boot] = "none" /\ b = <<>>
  <2>1. Directory(k) = <<>>
    <3>1. DirSectors(k) = <<>> BY <1>1 DEF DirSectors
    <3>2. Directory(k) = [j \in 1..0 |-> k[DirSectors(k)[1 + (j - 1) \div SectorUnits]][1 + ((j - 1) % SectorUnits)]]
      BY <3>1, Geometry DEF Directory, Units
    <3> QED BY <3>2
  <2>2. Listed(k) = {} BY <2>1 DEF Listed
  <2>3. Reports(k) = {} BY <2>2 DEF Reports
  <2>4. FileOn(k) = <<>> BY <2>3 DEF FileOn
  <2>5. IsSeq(<<>>) /\ Len(<<>>) = 0 BY <1>0 DEF IsSeq
  <2>6. IsPrefix(b, FileOn(k)) BY <1>1, <2>4, <2>5, PrefixIs
  <2>7. IsPrefix(FileOn(k), due)
    <3>1. IsSeq(due) /\ Len(due) >= 0 BY <1>0, DueIs DEF IsSeq
    <3> QED BY <2>4, <2>5, <3>1, PrefixIs
  <2> QED BY <2>6, <2>7
<1>2. CASE \E D, F, l : Good(k, D, F, l, b, m)
  <2>1. PICK D, F, l : Good(k, D, F, l, b, m) BY <1>2
  <2>2. PICK z \in Nat : z = Size(k, l) /\ FileOn(k) = [x \in 1..z |-> FileUnit(k, F, x)]
    BY <2>1, FileRead DEF Good
  <2>3. Len(b) <= z /\ z <= Len(due) /\ \A x \in 1..z : FileUnit(k, F, x) = due[x]
    BY <2>1, <2>2, <1>0, DueIs DEF Good, HasText
  <2>4. IsSeq(FileOn(k)) /\ Len(FileOn(k)) = z /\ \A x \in 1..z : FileOn(k)[x] = due[x]
    BY <2>2, <2>3 DEF IsSeq
  <2>5. IsPrefix(FileOn(k), due) BY <2>3, <2>4, <1>0, DueIs, PrefixIs
  <2>6. Len(b) \in Nat BY <1>0 DEF IsSeq
  <2>7. \A x \in 1..Len(b) : b[x] = FileOn(k)[x]
    BY <2>3, <2>4, <2>6, <1>0, DueIs
  <2>8. IsPrefix(b, FileOn(k)) BY <1>0, <2>3, <2>4, <2>7, PrefixIs
  <2> QED BY <2>5, <2>8
<1> QED BY <1>1, <1>2 DEF CardOK

(* and no cluster in two chains.                                             *)
LEMMA ChainsKept ==
  ASSUME CardOK(card, before, n), sound
  PROVE  NothingIsShared
<1> DEFINE d == Directory(card)
           heads == {d[i][2] : i \in {j \in Listed(card) : Len(d[j]) = 3 /\ d[j][2] # 0}}
                    \cup (IF card[Boot] = "fat32" THEN {Root} ELSE {})
           On(h) == ToSet(ChainFrom(card, h))
<1>1. SUFFICES /\ \A h \in heads : Fat(card, Last(ChainFrom(card, h))) = Eoc
               /\ \A g, h \in heads : g # h => On(g) \cap On(h) = {}
  BY DEF NothingIsShared
<1>2. CASE card[Boot] = "none"
  <2>1. Directory(card) = <<>>
    <3>1. DirSectors(card) = <<>> BY <1>2 DEF DirSectors
    <3>2. Directory(card) = [j \in 1..0 |-> card[DirSectors(card)[1 + (j - 1) \div SectorUnits]][1 + ((j - 1) % SectorUnits)]]
      BY <3>1, Geometry DEF Directory, Units
    <3> QED BY <3>2
  <2>2. Listed(card) = {} BY <2>1 DEF Listed
  <2>3. heads = {} BY <1>2, <2>2
  <2> HIDE DEF heads
  <2> QED BY <2>3
<1>3. CASE \E D, F, l : Good(card, D, F, l, before, n)
  <2>1. PICK D, F, l : Good(card, D, F, l, before, n) BY <1>3
  <2>2. Chains(card, D, F) /\ Entries(card, D, l) /\ Claim(card, F, l) BY <2>1 DEF Good, Struct
  <2> DEFINE three == <<3>>
  <2>3. Leads(card, three) /\ three # <<>> /\ three[1] = 3 /\ Len(three) = 1
    BY <2>2, Geometry DEF Leads, Chains
  <2>4. Leads(card, D) /\ Leads(card, F) /\ Apart(D, F) BY <2>2 DEF Chains
  <2> HIDE DEF three
  <2>5. ASSUME NEW h \in heads PROVE \E cs \in {three, D, F} : cs # <<>> /\ cs[1] = h
    <3>1. CASE h \in (IF card[Boot] = "fat32" THEN {Root} ELSE {}) BY <2>2, <3>1 DEF Chains
    <3>2. CASE h \in {d[i][2] : i \in {j \in Listed(card) : Len(d[j]) = 3 /\ d[j][2] # 0}}
      <4>1. PICK p \in Listed(card) : Len(d[p]) = 3 /\ d[p][2] # 0 /\ h = d[p][2] BY <3>2
      <4>2. /\ card[Boot] \in Kinds /\ D \in Seq(Clusters)
            /\ d = [q \in 1..TableSize(card[Boot], D) |-> TableUnit(card, D, q)]
        BY <2>2, TableRead
      <4>3. p \in 1..TableSize(card[Boot], D) BY <4>1, <4>2 DEF Listed
      <4>4. PICK x \in Places : d[p] = UnitAt(card, x)
        BY <4>2, <4>3, TableInPlaces DEF TableUnit, TablePlace
      <4> HIDE DEF d
      <4>5. CASE d[p] \in {Other, Label} BY <2>3, <4>1, <4>5 DEF Other, Label, Entry
      <4>6. CASE IsReport(UnitAt(card, x)) /\ x = l
        <5>1. F # <<>> /\ F[1] = h BY <2>2, <4>1, <4>4, <4>6 DEF Claim
        <5> QED BY <5>1
      <4> QED BY <2>2, <4>1, <4>4, <4>5, <4>6 DEF Entries
    <3> QED BY <3>1, <3>2
  <2>6. ASSUME NEW cs \in {three, D, F}, cs # <<>>
        PROVE  ChainFrom(card, cs[1]) = cs /\ cs \in Seq(Clusters) /\ Len(cs) \in 1..Len(cs)
    <3>1. Leads(card, cs) BY <2>3, <2>4, <2>6
    <3>2. cs \in Seq(Clusters) BY <3>1 DEF Leads
    <3>3. Len(cs) \in Nat \ {0} BY <2>6, <3>2, EmptySeq
    <3> QED BY <2>6, <3>1, <3>2, <3>3, ChainFound
  <2> HIDE DEF heads
  <2>7. ASSUME NEW h \in heads PROVE Fat(card, Last(ChainFrom(card, h))) = Eoc
    <3>1. PICK cs \in {three, D, F} : cs # <<>> /\ cs[1] = h BY <2>5
    <3>2. ChainFrom(card, h) = cs /\ Len(cs) \in 1..Len(cs) /\ ~(Len(cs) < Len(cs)) BY <2>6, <3>1
    <3>3. Fat(card, cs[Len(cs)]) = Eoc BY <2>3, <2>4, <3>2 DEF Leads
    <3> QED BY <3>2, <3>3 DEF Last
  <2>8. ASSUME NEW g \in heads, NEW h \in heads, g # h PROVE On(g) \cap On(h) = {}
    <3>1. PICK a \in {three, D, F} : a # <<>> /\ a[1] = g BY <2>5
    <3>2. PICK b \in {three, D, F} : b # <<>> /\ b[1] = h BY <2>5
    <3>3. a # b BY <2>8, <3>1, <3>2
    <3>4. \A i \in 1..Len(a), j \in 1..Len(b) : a[i] # b[j]
      <4>1. \A i \in 1..Len(three) : three[i] = 3 BY <2>3
      <4> QED BY <2>4, <3>1, <3>2, <3>3, <4>1 DEF Apart
    <3>5. On(g) = {a[i] : i \in 1..Len(a)} /\ On(h) = {b[i] : i \in 1..Len(b)}
      <4>1. ChainFrom(card, g) = a /\ ChainFrom(card, h) = b /\ a \in Seq(Clusters) /\ b \in Seq(Clusters)
        BY <2>6, <3>1, <3>2
      <4>2. DOMAIN a = 1..Len(a) /\ DOMAIN b = 1..Len(b) BY <4>1
      <4> QED BY <4>1, <4>2 DEF ToSet
    <3> HIDE DEF On
    <3> QED BY <3>4, <3>5
  <2> QED BY <2>7, <2>8
<1> QED BY <1>2, <1>3 DEF CardOK

---------------------------------------------------------------------------
(* A card as it comes.                                                       *)

(* A new call finds the file as it is.                                       *)
LEMMA Rebased ==
  ASSUME NEW k, NEW D, NEW F, NEW l, NEW m, Struct(k, D, F, l)
  PROVE  /\ Good(k, D, F, l, FileOn(k), m) /\ IsSeq(FileOn(k)) /\ Size(k, l) = Len(FileOn(k))
<1>1. PICK z \in Nat : z = Size(k, l) /\ FileOn(k) = [x \in 1..z |-> FileUnit(k, F, x)] BY FileRead
<1>2. PICK b : b = FileOn(k) OBVIOUS
<1>3. Len(b) = z /\ IsSeq(b) /\ \A x \in 1..z : b[x] = FileUnit(k, F, x)
  BY <1>1, <1>2 DEF IsSeq
<1>4. \A x \in 1..z : (b \o Report(m))[x] = b[x] BY <1>3, DueIs
<1>5. HasText(k, F, z, b, m) BY <1>3, <1>4, Geometry DEF HasText
<1> QED BY <1>1, <1>2, <1>3, <1>5 DEF Good

(* A card whose chains and entries are in order is in order for the file     *)
(* it holds.                                                                 *)
LEMMA RebasedOK ==
  ASSUME NEW k, NEW m, k[Boot] = "none" \/ \E D, F, l : Struct(k, D, F, l)
  PROVE  CardOK(k, FileOn(k), m) /\ Ready(k, FileOn(k), m)
<1>1. CASE k[Boot] = "none"
  <2>1. Directory(k) = <<>>
    <3>1. DirSectors(k) = <<>> BY <1>1 DEF DirSectors
    <3>2. Directory(k) = [j \in 1..0 |-> k[DirSectors(k)[1 + (j - 1) \div SectorUnits]][1 + ((j - 1) % SectorUnits)]]
      BY <3>1, Geometry DEF Directory, Units
    <3> QED BY <3>2
  <2>2. Listed(k) = {} BY <2>1 DEF Listed
  <2>3. Reports(k) = {} BY <2>2 DEF Reports
  <2>4. FileOn(k) = <<>> BY <2>3 DEF FileOn
  <2>5. IsSeq(FileOn(k)) BY <2>4 DEF IsSeq
  <2> QED BY <1>1, <2>4, <2>5 DEF CardOK, Ready
<1>2. CASE \E D, F, l : Struct(k, D, F, l)
  <2>1. PICK D, F, l : Struct(k, D, F, l) BY <1>2
  <2>2. Good(k, D, F, l, FileOn(k), m) /\ IsSeq(FileOn(k)) /\ Size(k, l) = Len(FileOn(k))
    BY <2>1, Rebased
  <2> QED BY <2>2 DEF CardOK, Ready
<1> QED BY <1>1, <1>2

(* A card that is in order has its chains and entries in order.              *)
LEMMA CardIs ==
  ASSUME NEW k, NEW b, NEW m, CardOK(k, b, m)
  PROVE  k[Boot] = "none" \/ \E D, F, l : Struct(k, D, F, l)
BY DEF CardOK, Good

(* No unit of a card as it comes is the report's.                            *)
LEMMA VolumeStruct ==
  ASSUME NEW k \in Volumes
  PROVE  k[Boot] = "none" \/ \E D, F, l : Struct(k, D, F, l) /\ ~IsReport(UnitAt(k, l))
<1>1. PICK x \in Cards : k = Volume(x[1], x[2], IF ~x[3] THEN <<Unknown, Unknown>>
                      ELSE IF x[2] = "taken" THEN <<0, 3>> ELSE <<MaxCluster - 3, 3>>)
  BY DEF Volumes
<1>a. PICK kd \in {"fat32", "fat16", "none"} : \E fill, info : k = Volume(kd, fill, info)
  BY <1>1, StorageAssumption
<1>2. PICK fill, info : k = Volume(kd, fill, info) BY <1>a
<1> DEFINE used == IF fill = "taken" THEN Clusters ELSE IF kd = "fat32" THEN {Root, 3} ELSE {3}
           size == IF kd = "fat32" THEN ClusterUnits ELSE RootSectors * SectorUnits
           At(j) == IF j = 1 THEN Entry("other", 3, 1)
                    ELSE IF fill \in {"room", "taken"} THEN EndOfDir
                    ELSE IF j = size /\ fill = "gone" THEN Gone
                    ELSE Entry("label", 0, 0)
           Table(s) == [i \in 1..SectorUnits |-> At(s * SectorUnits + i)]
           Fats(s) == [c \in {y \in Clusters : FatSector(y) = s} |-> IF c \in used THEN Eoc ELSE 0]
<1>3. k = [y \in SectorSet |->
        CASE y = Boot -> kd
          [] y = FsInfo -> info
          [] y[1] = "fat" -> Fats(y)
          [] y[1] = "root" -> Table(y[2])
          [] y[1] = "data" /\ y[2] = Root /\ kd = "fat32" -> Table(y[3])
          [] OTHER -> Filled(Junk)]
  BY <1>2 DEF Volume, SectorSet
<1>4. \A j : Len(At(j)) = 3 => At(j) \in {Other, Label} BY DEF EndOfDir, Gone, Entry, Other, Label
<1>5. \A j : ~IsReport(At(j))
  <2> SUFFICES ASSUME NEW j PROVE ~IsReport(At(j)) OBVIOUS
  <2> HIDE DEF At
  <2>1. ~IsReport(Other) /\ ~IsReport(Label) BY DEF IsReport, Other, Label, Entry
  <2> QED BY <1>4, <2>1 DEF IsReport
<1> HIDE DEF At
<1>6. \A y \in TextSectors, i \in 1..SectorUnits : (\E j : k[y][i] = At(j)) \/ k[y][i] = Junk
  <2> SUFFICES ASSUME NEW y \in TextSectors, NEW i \in 1..SectorUnits
               PROVE  (\E j : k[y][i] = At(j)) \/ k[y][i] = Junk
    OBVIOUS
  <2>1. y \in SectorSet /\ y # Boot /\ y # FsInfo /\ y[1] \in {"data", "root"} BY SectorPlaces DEF TextSectors, Texts
  <2>2. k[y] = Table(y[2]) \/ k[y] = Table(y[3]) \/ k[y] = Filled(Junk)
    <3> HIDE DEF Table, Fats
    <3> QED BY <1>3, <2>1
  <2>3. Filled(Junk)[i] = Junk BY DEF Filled
  <2> QED BY <2>2, <2>3
<1>7. \A y \in Places : /\ ~IsReport(UnitAt(k, y))
                        /\ Len(UnitAt(k, y)) = 3 => UnitAt(k, y) \in {Other, Label}
  <2>1. Len(Junk) # 3 BY DEF Junk
  <2>2. ~IsReport(Junk) BY <2>1 DEF IsReport
  <2> SUFFICES ASSUME NEW s \in TextSectors, NEW i \in 1..SectorUnits
               PROVE  /\ ~IsReport(k[s][i])
                      /\ Len(k[s][i]) = 3 => k[s][i] \in {Other, Label}
    BY DEF Places, UnitAt
  <2> QED BY <1>4, <1>5, <1>6, <2>1, <2>2
<1>8. \A c \in Clusters : Fat(k, c) = IF c \in used THEN Eoc ELSE 0
  <2> SUFFICES ASSUME NEW c \in Clusters PROVE Fat(k, c) = IF c \in used THEN Eoc ELSE 0 OBVIOUS
  <2>1. FatSector(c) \in SectorSet /\ FatSector(c)[1] = "fat" /\ FatSector(c) # Boot /\ FatSector(c) # FsInfo
    BY Sectors, Names
  <2>2. k[FatSector(c)] = Fats(FatSector(c))
    <3> HIDE DEF Fats, Table
    <3> QED BY <1>3, <2>1
  <2> HIDE DEF used
  <2> QED BY <2>2 DEF Fat
<1>9. k[Boot] = kd BY <1>2, VolumeHolds
<1>10. 3 \in used /\ (kd = "fat32" => Root \in used) BY Geometry
<1> HIDE DEF used, Fats, Table
<1>11. PICK l : l \in Places
  <2>1. LastSector \in TextSectors BY Sectors DEF TextSectors, Texts
  <2>2. 1 \in 1..SectorUnits BY Geometry
  <2>3. <<LastSector, 1>> \in Places BY <2>1, <2>2 DEF Places
  <2> QED BY <2>3
<1> DEFINE D == IF kd = "fat32" THEN <<Root>> ELSE <<>>
<1>12. Leads(k, D) /\ Leads(k, <<>>) /\ Apart(D, <<>>)
  <2>1. CASE kd = "fat32" BY <1>8, <1>10, <2>1, Geometry DEF Leads, Apart
  <2>2. CASE kd # "fat32" BY <2>2 DEF Leads, Apart
  <2> QED BY <2>1, <2>2
<1>13. ASSUME kd # "none" PROVE Struct(k, D, <<>>, l)
  <2>1. Chains(k, D, <<>>) BY <1>8, <1>9, <1>10, <1>12, <1>13, Geometry DEF Chains
  <2>2. Entries(k, D, l) BY <1>7, <1>11 DEF Entries
  <2>3. Claim(k, <<>>, l) BY <1>7, <1>11 DEF Claim
  <2> QED BY <1>11, <2>1, <2>2, <2>3 DEF Struct
<1> QED BY <1>7, <1>9, <1>11, <1>13

---------------------------------------------------------------------------
(* What a change of the card leaves in order.                                *)

(* Two cards with the same text, and two with the same FAT.                  *)
SameText(k, h) == \A x \in Places : UnitAt(h, x) = UnitAt(k, x)
SameFat(k, h) == \A c \in Clusters : Fat(h, c) = Fat(k, c)

(* What comes first in a chain stays where it was when the chain grows.      *)
LEMMA PrePlaces ==
  ASSUME NEW a \in Seq(Clusters), NEW b \in Seq(Clusters), Pre(a, b)
  PROVE  /\ Len(a) * ClusterUnits <= Len(b) * ClusterUnits
         /\ Len(a) * ClusterUnits \in Nat /\ Len(b) * ClusterUnits \in Nat
         /\ \A x \in 1..(Len(a) * ClusterUnits) : PlaceOf(SectorsOf(b), x) = PlaceOf(SectorsOf(a), x)
<1>1. PICK u \in Nat, v \in Nat, w \in Nat \ {0} : u = Len(a) /\ v = Len(b) /\ w = ClusterUnits /\ u <= v
  BY Geometry DEF Pre
<1>2. u * w <= v * w /\ u * w \in Nat /\ v * w \in Nat
  <2>1. (v - u) * w >= 0 BY <1>1
  <2>2. (v - u) * w = v * w - u * w BY <1>1
  <2> QED BY <1>1, <2>1, <2>2
<1>3. ASSUME NEW x \in 1..(Len(a) * ClusterUnits) PROVE PlaceOf(SectorsOf(b), x) = PlaceOf(SectorsOf(a), x)
  <2>1. PICK g \in 1..Len(a), s \in 0..(ClusterSectors - 1), i \in 1..SectorUnits :
           /\ x = (g - 1) * ClusterUnits + s * SectorUnits + i
           /\ PlaceOf(SectorsOf(a), x) = <<DataSector(a[g], s), i>>
    BY FilePlace
  <2>2. g \in 1..Len(b) /\ b[g] = a[g] BY <1>1, <2>1 DEF Pre
  <2>3. PlaceOf(SectorsOf(b), x) = <<DataSector(b[g], s), i>> BY <2>1, <2>2, FilePlaceAt
  <2> QED BY <2>1, <2>2, <2>3
<1> QED BY <1>1, <1>2, <1>3

(* A directory's units stay where they were when its chain grows.            *)
LEMMA PreTable ==
  ASSUME NEW k, NEW h, NEW D, NEW F, NEW D2, NEW F2, Chains(k, D, F), Chains(h, D2, F2),
         h[Boot] = k[Boot], Pre(D, D2)
  PROVE  /\ TableSize(k[Boot], D) \in Nat /\ TableSize(h[Boot], D2) \in Nat
         /\ TableSize(k[Boot], D) <= TableSize(h[Boot], D2)
         /\ \A p \in 1..TableSize(k[Boot], D) :
              TablePlace(h, D2, p) = TablePlace(k, D, p) /\ TablePlace(k, D, p) \in Places
<1>1. k[Boot] \in Kinds /\ D \in Seq(Clusters) /\ D2 \in Seq(Clusters) BY DEF Chains, Leads, Kinds
<1>2. \A p \in 1..TableSize(k[Boot], D) : TablePlace(k, D, p) \in Places
  BY <1>1, TableInPlaces DEF TablePlace
<1>3. CASE k[Boot] = "fat32"
  <2>1. TableSize(k[Boot], D) = Len(D) * ClusterUnits /\ TableSize(h[Boot], D2) = Len(D2) * ClusterUnits
    BY <1>1, <1>3, TableSectorsAre
  <2>2. TableSectors(k[Boot], D) = SectorsOf(D) /\ TableSectors(h[Boot], D2) = SectorsOf(D2)
    BY <1>3 DEF TableSectors
  <2> QED BY <1>1, <1>2, <2>1, <2>2, PrePlaces DEF TablePlace
<1>4. CASE k[Boot] = "fat16"
  <2>1. TableSectors(h[Boot], D2) = TableSectors(k[Boot], D) BY <1>4 DEF TableSectors
  <2>2. TableSize(h[Boot], D2) = TableSize(k[Boot], D) /\ TableSize(k[Boot], D) \in Nat
    BY <1>1, <2>1, TableSectorsAre DEF TableSize
  <2> QED BY <1>2, <2>1, <2>2 DEF TablePlace
<1> QED BY <1>1, <1>3, <1>4 DEF Kinds

(* The card h holds what k does, with chains D2 and F2 that go on from D     *)
(* and F.                                                                    *)
Grown(b, m, k, h, D, F, D2, F2, l) ==
  /\ Good(h, D2, F2, l, b, m) /\ Size(h, l) = Size(k, l)
  /\ \A z \in Nat : z <= Len(F) * ClusterUnits /\ HasText(k, F, z, b, m) => HasText(h, F2, z, b, m)
  /\ \A p \in 1..TableSize(k[Boot], D) : TableUnit(h, D2, p) = TableUnit(k, D, p)

(* Chains that grow, and no text changed.                                    *)
LEMMA GoodGrown ==
  ASSUME NEW b, NEW m, NEW k, NEW h, NEW D, NEW F, NEW D2, NEW F2, NEW l, Good(k, D, F, l, b, m), Chains(h, D2, F2),
         SameText(k, h), h[Boot] = k[Boot], Pre(D, D2), Pre(F, F2)
  PROVE  Grown(b, m, k, h, D, F, D2, F2, l)
<1>1. Chains(k, D, F) /\ l \in Places /\ Entries(k, D, l) /\ Claim(k, F, l) BY DEF Good, Struct
<1>2. F \in Seq(Clusters) /\ F2 \in Seq(Clusters) BY <1>1 DEF Chains, Leads
<1>3. UnitAt(h, l) = UnitAt(k, l) /\ Size(h, l) = Size(k, l) BY <1>1 DEF SameText, Size
<1>4. \A p \in 1..TableSize(k[Boot], D) :
        TablePlace(h, D2, p) = TablePlace(k, D, p) /\ TableUnit(h, D2, p) = TableUnit(k, D, p)
  BY <1>1, PreTable DEF TableUnit, SameText
<1>5. Entries(h, D2, l)
  <2>1. ASSUME IsReport(UnitAt(h, l))
        PROVE  \E p \in 1..TableSize(h[Boot], D2) :
                  TablePlace(h, D2, p) = l /\ \A q \in 1..p : TableUnit(h, D2, q) # EndOfDir
    <3>1. PICK p \in 1..TableSize(k[Boot], D) :
             TablePlace(k, D, p) = l /\ \A q \in 1..p : TableUnit(k, D, q) # EndOfDir
      BY <1>1, <1>3, <2>1 DEF Entries
    <3>2. TableSize(k[Boot], D) \in Nat /\ TableSize(h[Boot], D2) \in Nat
          /\ TableSize(k[Boot], D) <= TableSize(h[Boot], D2)
      BY <1>1, PreTable
    <3>3. p \in 1..TableSize(h[Boot], D2) /\ \A q \in 1..p : q \in 1..TableSize(k[Boot], D) BY <3>2
    <3> QED BY <1>4, <3>1, <3>3
  <2> QED BY <1>1, <2>1 DEF Entries, SameText
<1>6. /\ Len(F) * ClusterUnits <= Len(F2) * ClusterUnits
      /\ Len(F) * ClusterUnits \in Nat /\ Len(F2) * ClusterUnits \in Nat
      /\ \A x \in 1..(Len(F) * ClusterUnits) : PlaceOf(SectorsOf(F2), x) = PlaceOf(SectorsOf(F), x)
  BY <1>2, PrePlaces
<1>7. Claim(h, F2, l)
  <2> SUFFICES ASSUME IsReport(UnitAt(k, l))
               PROVE  LET e == UnitAt(k, l)
                      IN  /\ e[3] \in Nat
                          /\ e[2] = 0 => e[3] = 0
                          /\ e[2] # 0 => F2 # <<>> /\ F2[1] = e[2] /\ e[3] <= Len(F2) * ClusterUnits
    BY <1>3 DEF Claim
  <2> DEFINE e == UnitAt(k, l)
  <2>1. e[3] \in Nat /\ (e[2] = 0 => e[3] = 0) BY <1>1 DEF Claim
  <2>2. ASSUME e[2] # 0 PROVE F2 # <<>> /\ F2[1] = e[2] /\ e[3] <= Len(F2) * ClusterUnits
    <3>1. F # <<>> /\ F[1] = e[2] /\ e[3] <= Len(F) * ClusterUnits BY <1>1, <2>2 DEF Claim
    <3>2. Len(F) \in Nat \ {0} /\ Len(F) <= Len(F2) /\ Len(F2) \in Nat BY <1>2, <3>1, EmptySeq DEF Pre
    <3>3. F2 # <<>> BY <3>2
    <3>4. F2[1] = F[1] BY <3>2 DEF Pre
    <3> HIDE DEF e
    <3> QED BY <1>6, <2>1, <3>1, <3>3, <3>4
  <2> QED BY <2>1, <2>2
<1>8. ASSUME NEW z \in Nat, z <= Len(F) * ClusterUnits, HasText(k, F, z, b, m) PROVE HasText(h, F2, z, b, m)
  <2>1. ASSUME NEW x \in 1..z PROVE FileUnit(h, F2, x) = FileUnit(k, F, x)
    <3>1. x \in 1..(Len(F) * ClusterUnits) BY <1>6, <1>8
    <3>2. PlaceOf(SectorsOf(F), x) \in Places BY <1>2, <3>1, FileInPlaces
    <3> QED BY <1>6, <3>1, <3>2 DEF FileUnit, SameText
  <2> QED BY <1>8, <2>1 DEF HasText
<1>9. Size(k, l) \in Nat /\ Size(k, l) <= Len(F) * ClusterUnits BY FileRead DEF Good
<1>10. HasText(h, F2, Size(h, l), b, m) BY <1>3, <1>8, <1>9 DEF Good
<1>11. Good(h, D2, F2, l, b, m) BY <1>1, <1>5, <1>7, <1>10 DEF Good, Struct
<1> QED BY <1>3, <1>4, <1>8, <1>11 DEF Grown

(* Chains do not grow of themselves.                                         *)
LEMMA ChainsSame ==
  ASSUME NEW k, NEW h, NEW D, NEW F, Chains(k, D, F), SameFat(k, h), h[Boot] = k[Boot]
  PROVE  Chains(h, D, F)
<1>1. D \in Seq(Clusters) /\ F \in Seq(Clusters) BY DEF Chains, Leads
<1>2. \A i \in 1..Len(D) : D[i] \in Clusters BY <1>1
<1>3. \A i \in 1..Len(F) : F[i] \in Clusters BY <1>1
<1>4. Leads(h, D) /\ Leads(h, F) BY <1>1, <1>2, <1>3 DEF Chains, Leads, SameFat
<1> QED BY <1>4, Geometry DEF Chains, SameFat

(* A chain begins with itself.                                               *)
LEMMA PreSelf == ASSUME NEW cs \in Seq(Clusters) PROVE Pre(cs, cs)
BY DEF Pre

(* A cluster taken: it is nobody's yet.                                      *)
LEMMA ChainsMarked ==
  ASSUME NEW k, NEW h, NEW D, NEW F, NEW c \in Clusters, Chains(k, D, F), Fat(k, c) = 0,
         \A x \in Clusters : Fat(h, x) = IF x = c THEN Eoc ELSE Fat(k, x), h[Boot] = k[Boot]
  PROVE  /\ Chains(h, D, F) /\ Alone(D, F, c)
         /\ F = <<>> => Chains(h, D, <<c>>)
<1>1. D \in Seq(Clusters) /\ F \in Seq(Clusters) BY DEF Chains, Leads
<1>2. \A i \in 1..Len(D) : D[i] \in Clusters /\ Fat(k, D[i]) # 0
  <2> SUFFICES ASSUME NEW i \in 1..Len(D) PROVE D[i] \in Clusters /\ Fat(k, D[i]) # 0 OBVIOUS
  <2>1. Fat(k, D[i]) = IF i < Len(D) THEN D[i + 1] ELSE Eoc BY DEF Chains, Leads
  <2>2. i < Len(D) => D[i + 1] \in Clusters BY <1>1
  <2> QED BY <1>1, <2>1, <2>2, Geometry
<1>3. \A i \in 1..Len(F) : F[i] \in Clusters /\ Fat(k, F[i]) # 0
  <2> SUFFICES ASSUME NEW i \in 1..Len(F) PROVE F[i] \in Clusters /\ Fat(k, F[i]) # 0 OBVIOUS
  <2>1. Fat(k, F[i]) = IF i < Len(F) THEN F[i + 1] ELSE Eoc BY DEF Chains, Leads
  <2>2. i < Len(F) => F[i + 1] \in Clusters BY <1>1
  <2> QED BY SMTT(30), <1>1, <2>1, <2>2, Geometry
<1>4. Fat(k, 3) # 0 BY Geometry DEF Chains
<1>5. Alone(D, F, c) BY <1>2, <1>3, <1>4 DEF Alone
<1>6. Leads(h, D) BY <1>1, <1>2 DEF Chains, Leads
<1>7. Leads(h, F) BY <1>1, <1>3 DEF Chains, Leads
<1>8. Fat(h, 3) = Eoc BY Geometry DEF Chains
<1>9. Chains(h, D, F) BY <1>6, <1>7, <1>8 DEF Chains
<1>10. ASSUME F = <<>> PROVE Chains(h, D, <<c>>)
  <2> DEFINE f == <<c>>
  <2>1. f \in Seq(Clusters) /\ Len(f) = 1 /\ f[1] = c OBVIOUS
  <2> HIDE DEF f
  <2>2. Leads(h, f) BY <2>1 DEF Leads
  <2>3. Apart(D, f) BY <1>5, <2>1 DEF Apart, Alone, Chains
  <2>4. Chains(h, D, f) BY <1>6, <1>8, <2>2, <2>3 DEF Chains
  <2> QED BY <2>4 DEF f
<1> QED BY <1>5, <1>9, <1>10

(* A cluster linked: it is the last of the chain.                            *)
LEMMA LeadsLinked ==
  ASSUME NEW k, NEW h, NEW cs, cs # <<>>, Leads(k, cs), NEW c \in Clusters, Fat(k, c) = Eoc,
         \A i \in 1..Len(cs) : cs[i] # c,
         \A x \in Clusters : Fat(h, x) = IF x = cs[Len(cs)] THEN c ELSE Fat(k, x)
  PROVE  /\ Leads(h, Append(cs, c)) /\ Pre(cs, Append(cs, c))
         /\ Len(Append(cs, c)) = Len(cs) + 1 /\ Append(cs, c)[Len(cs) + 1] = c
         /\ \A i \in 1..Len(cs) : Append(cs, c)[i] = cs[i]
<1>1. cs \in Seq(Clusters) BY DEF Leads
<1>2. PICK m \in Nat \ {0} : m = Len(cs) BY <1>1, EmptySeq
<1>3. PICK a : a = Append(cs, c) OBVIOUS
<1>4. /\ a \in Seq(Clusters) /\ Len(a) = m + 1 /\ a[m + 1] = c
      /\ \A i \in 1..m : a[i] = cs[i]
  BY <1>1, <1>2, <1>3, AppendProperties
<1>5. ASSUME NEW i \in 1..(m + 1)
      PROVE  Fat(h, a[i]) = IF i < m + 1 THEN a[i + 1] ELSE Eoc
  <2>1. CASE i = m + 1
    <3>1. cs[m] # c BY <1>2
    <3> QED BY <1>2, <1>4, <2>1, <3>1
  <2>2. CASE i = m
    <3>1. a[i] = cs[m] /\ cs[m] \in Clusters BY <1>1, <1>2, <1>4, <2>2
    <3> QED BY <1>2, <1>4, <2>2, <3>1
  <2>3. CASE i < m
    <3>1. i \in 1..m /\ i + 1 \in 1..m /\ m \in 1..m BY <1>2, <2>3
    <3>2. a[i] = cs[i] /\ a[i + 1] = cs[i + 1] /\ cs[i] \in Clusters BY <1>1, <1>2, <1>4, <3>1
    <3>3. cs[i] # cs[m] BY <1>2, <2>3, <3>1, LeadsOnce
    <3>4. Fat(k, cs[i]) = cs[i + 1] BY <1>2, <2>3, <3>1 DEF Leads
    <3> QED BY <1>2, <2>3, <3>2, <3>3, <3>4
  <2> QED BY <1>2, <2>1, <2>2, <2>3
<1>6. Leads(h, a) BY <1>4, <1>5 DEF Leads
<1>7. Pre(cs, a) BY <1>2, <1>4 DEF Pre
<1> QED BY <1>2, <1>3, <1>4, <1>6, <1>7

(* Nothing changes for a chain the entry is not of.                          *)
LEMMA LeadsApart ==
  ASSUME NEW k, NEW h, NEW cs, Leads(k, cs), NEW y, NEW v,
         \A x \in Clusters : Fat(h, x) = IF x = y THEN v ELSE Fat(k, x),
         \A i \in 1..Len(cs) : cs[i] # y
  PROVE  Leads(h, cs)
<1>1. cs \in Seq(Clusters) /\ \A i \in 1..Len(cs) : cs[i] \in Clusters BY DEF Leads
<1> QED BY <1>1 DEF Leads

(* Cluster c comes after y, be that the last of the directory or of the      *)
(* file.                                                                     *)
LinkedOn(k, h, D, F, c, y) ==
  /\ k[Boot] = "fat32" /\ y = D[Len(D)] => Chains(h, Append(D, c), F) /\ Pre(D, Append(D, c))
  /\ F # <<>> /\ y = F[Len(F)] => Chains(h, D, Append(F, c)) /\ Pre(F, Append(F, c))

(* A cluster that is nobody's, and ends a chain, can be put behind either.   *)
LEMMA ChainsLinked ==
  ASSUME NEW k, NEW h, NEW D, NEW F, NEW c \in Clusters, Chains(k, D, F), Fat(k, c) = Eoc,
         Alone(D, F, c), h[Boot] = k[Boot], NEW y,
         \A x \in Clusters : Fat(h, x) = IF x = y THEN c ELSE Fat(k, x)
  PROVE  LinkedOn(k, h, D, F, c, y)
<1>1. Leads(k, D) /\ Leads(k, F) /\ Apart(D, F) /\ Fat(k, 3) = Eoc BY DEF Chains
<1>2. D \in Seq(Clusters) /\ F \in Seq(Clusters) /\ 3 \in Clusters BY <1>1, Geometry DEF Leads
<1>3. ASSUME k[Boot] = "fat32", y = D[Len(D)] PROVE Chains(h, Append(D, c), F) /\ Pre(D, Append(D, c))
  <2>1. D # <<>> /\ D[1] = Root BY <1>3 DEF Chains
  <2>2. Len(D) \in Nat \ {0} BY <1>2, <2>1, EmptySeq
  <2>a. \A i \in 1..Len(D) : D[i] # c BY DEF Alone
  <2>b. \A x \in Clusters : Fat(h, x) = IF x = D[Len(D)] THEN c ELSE Fat(k, x) BY <1>3
  <2>c. /\ Leads(h, Append(D, c)) /\ Pre(D, Append(D, c))
        /\ Len(Append(D, c)) = Len(D) + 1 /\ Append(D, c)[Len(D) + 1] = c
        /\ \A i \in 1..Len(D) : Append(D, c)[i] = D[i]
    BY SMTT(30), <1>1, <2>1, <2>a, <2>b, LeadsLinked
  <2>3. PICK a : /\ a = Append(D, c) /\ Leads(h, a) /\ Pre(D, a) /\ Len(a) = Len(D) + 1
                 /\ a[Len(D) + 1] = c /\ \A i \in 1..Len(D) : a[i] = D[i]
    BY <2>c
  <2>4. Leads(h, F)
    <3>1. \A i \in 1..Len(F) : F[i] # y BY <1>1, <1>3, <2>2 DEF Apart
    <3> QED BY <1>1, <3>1, LeadsApart
  <2>5. Fat(h, 3) = Eoc
    <3>1. y # 3 BY <1>1, <1>3, <2>2 DEF Apart
    <3> QED BY <1>1, <1>2, <3>1
  <2>6. \A i \in 1..Len(a) : i \in 1..Len(D) \/ i = Len(D) + 1 BY <2>2, <2>3
  <2>7. Apart(a, F) BY <1>1, <2>3, <2>6 DEF Apart, Alone
  <2>8. a # <<>> /\ a[1] = Root
    <3>1. a[1] = D[1] BY <2>2, <2>3
    <3>2. a # <<>> BY <2>2, <2>3
    <3> QED BY <2>1, <3>1, <3>2
  <2>9. Chains(h, a, F) BY <1>3, <2>3, <2>4, <2>5, <2>7, <2>8 DEF Chains
  <2> QED BY <2>3, <2>9
<1>4. ASSUME F # <<>>, y = F[Len(F)] PROVE Chains(h, D, Append(F, c)) /\ Pre(F, Append(F, c))
  <2>2. Len(F) \in Nat \ {0} BY <1>2, <1>4, EmptySeq
  <2>a. \A i \in 1..Len(F) : F[i] # c BY DEF Alone
  <2>b. \A x \in Clusters : Fat(h, x) = IF x = F[Len(F)] THEN c ELSE Fat(k, x) BY <1>4
  <2>c. /\ Leads(h, Append(F, c)) /\ Pre(F, Append(F, c))
        /\ Len(Append(F, c)) = Len(F) + 1 /\ Append(F, c)[Len(F) + 1] = c
        /\ \A i \in 1..Len(F) : Append(F, c)[i] = F[i]
    BY <1>1, <1>4, <2>a, <2>b, LeadsLinked
  <2>3. PICK a : /\ a = Append(F, c) /\ Leads(h, a) /\ Pre(F, a) /\ Len(a) = Len(F) + 1
                 /\ a[Len(F) + 1] = c /\ \A i \in 1..Len(F) : a[i] = F[i]
    BY <2>c
  <2>4. Leads(h, D)
    <3>1. \A i \in 1..Len(D) : D[i] # y BY <1>1, <1>4, <2>2 DEF Apart
    <3>2. \A i \in 1..Len(D) : D[i] \in Clusters /\ Fat(h, D[i]) = Fat(k, D[i]) BY <1>2, <3>1
    <3> QED BY <1>1, <1>2, <3>2 DEF Leads
  <2>5. Fat(h, 3) = Eoc
    <3>1. y # 3 BY <1>1, <1>4, <2>2 DEF Apart
    <3> QED BY <1>1, <1>2, <3>1
  <2>6. \A i \in 1..Len(a) : i \in 1..Len(F) \/ i = Len(F) + 1 BY <2>2, <2>3
  <2>7. Apart(D, a) BY <1>1, <2>3, <2>6 DEF Apart, Alone
  <2>9. Chains(h, D, a) BY <2>3, <2>4, <2>5, <2>7 DEF Chains
  <2> QED BY <2>3, <2>9
<1> QED BY <1>3, <1>4 DEF LinkedOn

---------------------------------------------------------------------------
(* The window and the card.                                                  *)

(* What the program sees is a card too.                                      *)
LEMMA SeenIs ==
  ASSUME StorageInv
  PROVE  /\ DOMAIN Seen = SectorSet /\ Seen[Boot] = card[Boot]
         /\ \A s \in SectorSet : Holds(s, Seen[s])
         /\ ~win.dirty => Seen = card
         /\ win.dirty => Seen = [card EXCEPT ![win.s] = win.data]
         /\ win.dirty /\ win.s \in SectorSet => Seen[win.s] = win.data
         /\ \A s \in SectorSet : s # win.s => Seen[s] = card[s]
         /\ Seen[Boot] \in {"fat32", "fat16", "none"}
<1>0. CardHolds /\ WindowHolds BY DEF StorageInv
<1>1. CASE win.dirty
  <2>1. win.s # Boot /\ Holds(win.s, win.data) BY <1>0, <1>1 DEF WindowHolds
  <2>2. Seen = [card EXCEPT ![win.s] = win.data] BY <1>1 DEF Seen, SeenOn
  <2>3. /\ DOMAIN Seen = SectorSet /\ Seen[Boot] = card[Boot]
        /\ \A s \in SectorSet : Holds(s, Seen[s])
    BY <1>0, <2>1, <2>2, SectorWritten
  <2>4. \A s \in SectorSet : Seen[s] = IF s = win.s THEN win.data ELSE card[s]
    BY <1>0, <2>2 DEF CardHolds
  <2> QED BY <1>0, <1>1, <2>2, <2>3, <2>4 DEF CardHolds
<1>2. CASE ~win.dirty
  <2>1. Seen = card BY <1>2 DEF Seen, SeenOn
  <2> QED BY <1>0, <1>2, <2>1 DEF CardHolds
<1> QED BY <1>1, <1>2

(* The window holds what the program sees.                                   *)
LEMMA InSight ==
  ASSUME StorageInv, win.s \in SectorSet, win.dirty \/ win.data = card[win.s]
  PROVE  win.data = Seen[win.s]
BY SeenIs

(* A window that is fresh, outside the writing of a file, is what the        *)
(* program sees.                                                             *)
LEMMA FreshSight ==
  ASSUME StorageInv, Fresh, win.s \in SectorSet, at \notin {"copy", "close", "sync"}
  PROVE  win.data = Seen[win.s]
BY InSight DEF Fresh

(* get_fat gives the entry.                                                  *)
LEMMA FatSeen ==
  ASSUME StorageInv, Fresh, at \notin {"copy", "close", "sync"},
         NEW c \in Clusters, Wanted = FatOf(c), Wanted \in {Nowhere, win.s}
  PROVE  /\ GetFat(c) = Fat(Seen, c) /\ win.s = FatSector(c) /\ win.data = Seen[win.s]
         /\ win.s \in FatSectors
<1>1. win.s = FatSector(c) /\ win.s \in FatSectors BY FatHere
<1>2. win.data = Seen[win.s] BY <1>1, FreshSight, Sectors
<1> QED BY <1>1, <1>2 DEF GetFat, Valid, Fat

(* What is seen after a change in the window.                                *)
LEMMA SeenChanged ==
  ASSUME StorageInv, win.s \in SectorSet, UNCHANGED card, NEW data,
         win' = [s |-> win.s, data |-> data, dirty |-> TRUE]
  PROVE  \A s \in SectorSet : Seen'[s] = IF s = win.s THEN data ELSE Seen[s]
<1>1. Seen' = [card EXCEPT ![win.s] = data] BY DEF Seen, SeenOn
<1>2. \A s \in SectorSet : Seen'[s] = IF s = win.s THEN data ELSE card[s]
  BY <1>1 DEF StorageInv, CardHolds
<1> QED BY <1>2, SeenIs

(* A change of a unit is one of the window alone, which is dirty after it.   *)
LEMMA ChangedTo ==
  ASSUME StorageInv, NEW j, NEW v, Change(j, v)
  PROVE  win' = [s |-> win.s, data |-> [win.data EXCEPT ![j] = v], dirty |-> TRUE]
BY DEF Change, StorageInv, WindowHolds

(* An entry of the table.                                                    *)
LEMMA FatChanged ==
  ASSUME StorageInv, NEW c \in Clusters, win.s = FatSector(c), win.data = Seen[win.s],
         NEW v, Change(c, v), UNCHANGED card
  PROVE  /\ SameText(Seen, Seen') /\ Seen'[Boot] = Seen[Boot]
         /\ \A x \in Clusters : Fat(Seen', x) = IF x = c THEN v ELSE Fat(Seen, x)
         /\ win'.s = win.s /\ win'.dirty
<1>0. win.s \in SectorSet /\ win.s \in FatSectors BY Sectors
<1>1. PICK d : d = [win.data EXCEPT ![c] = v] OBVIOUS
<1>2. win' = [s |-> win.s, data |-> d, dirty |-> TRUE] BY <1>1, ChangedTo
<1>3. \A s \in SectorSet : Seen'[s] = IF s = win.s THEN d ELSE Seen[s] BY <1>0, <1>2, SeenChanged
<1>4. SameText(Seen, Seen')
  <2>1. \A x \in Places : x[1] \in SectorSet /\ x[1] # win.s BY <1>0, SectorPlaces DEF Places
  <2> QED BY <1>3, <2>1 DEF SameText, UnitAt
<1>5. Seen'[Boot] = Seen[Boot] BY <1>0, <1>3, Sectors, Names
<1>6. win.data \in Tables(win.s) BY <1>0 DEF StorageInv, WindowHolds, Holds
<1>7. ASSUME NEW x \in Clusters PROVE Fat(Seen', x) = IF x = c THEN v ELSE Fat(Seen, x)
  <2>1. FatSector(x) \in SectorSet BY Sectors
  <2>2. CASE FatSector(x) = win.s
    <3>1. x \in DOMAIN win.data BY <1>6, <2>2 DEF Tables
    <3>2. d[x] = IF x = c THEN v ELSE win.data[x] BY <1>1, <3>1
    <3> QED BY <1>3, <2>1, <2>2, <3>2 DEF Fat
  <2>3. CASE FatSector(x) # win.s BY <1>3, <2>1, <2>3 DEF Fat
  <2> QED BY <2>2, <2>3
<1> QED BY <1>2, <1>4, <1>5, <1>7

(* A unit.                                                                   *)
LEMMA TextChanged ==
  ASSUME StorageInv, win.s \in TextSectors, win.data = Seen[win.s], NEW j \in 1..SectorUnits,
         NEW v, Change(j, v), UNCHANGED card
  PROVE  /\ SameFat(Seen, Seen') /\ Seen'[Boot] = Seen[Boot]
         /\ \A x \in Places : UnitAt(Seen', x) = IF x = <<win.s, j>> THEN v ELSE UnitAt(Seen, x)
         /\ win'.s = win.s /\ win'.dirty
<1>0. win.s \in SectorSet /\ win.s \notin FatSectors /\ win.s # Boot /\ win.s[1] \in Texts
  BY SectorPlaces DEF TextSectors
<1>1. PICK d : d = [win.data EXCEPT ![j] = v] OBVIOUS
<1>2. win' = [s |-> win.s, data |-> d, dirty |-> TRUE] BY <1>1, ChangedTo
<1>3. \A s \in SectorSet : Seen'[s] = IF s = win.s THEN d ELSE Seen[s] BY <1>0, <1>2, SeenChanged
<1>4. SameFat(Seen, Seen') BY <1>0, <1>3, Sectors DEF SameFat, Fat
<1>5. Seen'[Boot] = Seen[Boot] BY <1>0, <1>3, Sectors, Names
<1>6. IsText(win.data) BY <1>0 DEF StorageInv, WindowHolds, Holds
<1>7. \A i \in 1..SectorUnits : d[i] = IF i = j THEN v ELSE win.data[i]
  <2>1. DOMAIN win.data = 1..SectorUnits BY <1>6 DEF IsText
  <2> QED BY <1>1, <2>1
<1>8. ASSUME NEW s \in TextSectors, NEW i \in 1..SectorUnits
      PROVE  Seen'[s][i] = IF <<s, i>> = <<win.s, j>> THEN v ELSE Seen[s][i]
  <2>1. s \in SectorSet BY SectorPlaces
  <2> QED BY <1>3, <1>7, <2>1
<1>9. \A x \in Places : UnitAt(Seen', x) = IF x = <<win.s, j>> THEN v ELSE UnitAt(Seen, x)
  BY <1>8 DEF Places, UnitAt
<1> QED BY <1>2, <1>4, <1>5, <1>9

---------------------------------------------------------------------------
(* Parts of a step.                                                          *)

(* A card in order for the chains at hand is in order.                       *)
LEMMA GoodIsOK ==
  ASSUME CardInv, sound, NEW k, NEW D, NEW F, NEW l, Good(k, D, F, l, before, n)
  PROVE  CardOK(k, before, n)
BY DEF CardInv, CardOK

(* What a step inside a call has to show for the invariant.                  *)
LEMMA Onward ==
  ASSUME CardInv, at \notin Resting, UNCHANGED <<sdVars, callVars>>,
         at' \notin RowPlaces \cup {"boot"}, Unwritten', Untouched',
         sound => CardOK(card', before, n),
         sound /\ Working' => Fresh' /\ \E D, F, C, G, l : Work(D, F, C, G, l)'
  PROVE  CardInv'
<1>1. sound' = sound /\ before' = before /\ n' = n BY DEF sdVars, callVars
<1>2. CardOK(card, before, n)' = CardOK(card', before, n) BY <1>1
<1> QED BY <1>1, <1>2 DEF CardInv, RowPlaces

(* A call that fails with its file open closes it.                           *)
LEMMA Closing ==
  ASSUME NEW D, NEW F, NEW C, NEW G, NEW l, Work(D, F, C, G, l), InFile, at' = "close",
         UNCHANGED <<before, n, done>>, fp'.entry = fp.entry, fp'.i = fp.i, fp'.scl = fp.scl,
         fp'.size = fp.size, fp'.sect = fp.sect,
         NEW C2, NEW G2, Good(Seen', D, F, l, before, n), HasText(Seen', F, fp.size, before, n),
         UnitAt(Seen', l) = UnitAt(Seen, l), Good(card', C2, G2, l, before, n),
         Pre(C2, D), Pre(G2, F), Size(card', l) = Len(before),
         win'.dirty => win'.s \in FatSectors \cup {fp.entry, fp.sect}
  PROVE  Work(D, F, C2, G2, l)'
<1>1. at # "sync" /\ at' # "sync" BY DEF InFile, Chaining
<1>2. Size(Seen', l) = Len(before) BY <1>1 DEF Work, Size
<1>3. Searching(Seen, D)' BY DEF Searching
<1>4. DirGrows(Seen, D)' BY DEF DirGrows, Chaining
<1>5. Linking(Seen, D, F)' BY DEF Linking
<1>6. InTheCluster(F)' BY DEF InTheCluster, Chaining
<1>7. InTheFile(Seen, F, l) BY DEF Work
<1>8. InTheFile(Seen, F, l)' BY <1>7 DEF InTheFile
<1> QED BY <1>1, <1>2, <1>3, <1>4, <1>5, <1>6, <1>8 DEF Work

---------------------------------------------------------------------------
(* Steps that move the window.                                               *)

(* A step that leaves what is seen, the place and the file alone.            *)
LEMMA StillWork ==
  ASSUME NEW D, NEW F, NEW C, NEW G, NEW l, Work(D, F, C, G, l),
         UNCHANGED <<at, dir, fp, chain, done, before, n>>, Seen' = Seen,
         NEW C2, NEW G2, Good(card', C2, G2, l, before, n), Pre(C2, D), Pre(G2, F),
         at # "sync" => Size(card', l) = Len(before),
         win'.dirty => win.dirty /\ win'.s = win.s,
         at = "copy" /\ fp.ptr % SectorUnits = 0 => win' = win
  PROVE  Work(D, F, C2, G2, l)'
<1>1. Searching(Seen, D)' BY DEF Searching, Work
<1>2. DirGrows(Seen, D)' BY DEF DirGrows, Work
<1>3. Linking(Seen, D, F)' BY DEF Linking, Work
<1>4. InTheCluster(F)' BY DEF InTheCluster, Work
<1>5. InTheFile(Seen, F, l)' BY DEF InTheFile, InFile, Work
<1> QED BY <1>1, <1>2, <1>3, <1>4, <1>5 DEF Work

(* Chains in order are chains of clusters, and begin with themselves.        *)
LEMMA GoodSelf ==
  ASSUME NEW k, NEW D, NEW F, NEW l, NEW b, NEW m, Good(k, D, F, l, b, m)
  PROVE  Pre(D, D) /\ Pre(F, F) /\ D \in Seq(Clusters) /\ F \in Seq(Clusters)
<1>1. D \in Seq(Clusters) /\ F \in Seq(Clusters) BY DEF Good, Struct, Chains, Leads
<1> QED BY <1>1, PreSelf

(* sync_window.                                                              *)
LEMMA FlushSound == ASSUME StorageInv, CardInv, Flush PROVE CardInv'
<1>0. /\ win.dirty /\ at \notin Resting /\ UNCHANGED <<fs, dir, fp, chain, sdVars, callVars, done>>
      /\ before' = before /\ n' = n
      /\ win = [s |-> win.s, data |-> win.data, dirty |-> win.dirty]
  BY Rests DEF Flush, StorageInv, WindowHolds, callVars
<1>1. Seen = [card EXCEPT ![win.s] = win.data] BY <1>0, SeenIs
<1>2. at \notin {"boot", "fsinfo", "find", "find_next", "alloc", "alloc_next"}
  BY <1>0 DEF CardInv, Unwritten
<1>3. \/ card' = Seen /\ win' = [win EXCEPT !.dirty = FALSE] /\ UNCHANGED <<at, result, locked, clean>>
      \/ card' \in {card, Seen} /\ Fails /\ UNCHANGED win
  BY <1>1 DEF Flush
<1>4. CASE card' = Seen /\ win' = [win EXCEPT !.dirty = FALSE] /\ UNCHANGED <<at, result, locked, clean>>
  <2>1. win' = [s |-> win.s, data |-> win.data, dirty |-> FALSE] BY <1>0, <1>4
  <2>2. Seen' = Seen BY <1>4, <2>1 DEF Seen, SeenOn
  <2>3. Fresh'
    <3>1. win.s \in SectorSet => win.data = Seen[win.s] BY <1>0, SeenIs
    <3> QED BY <1>4, <2>1, <3>1 DEF Fresh
  <2>4. Unwritten' BY <2>1 DEF Unwritten
  <2>5. Untouched' BY <1>0, <1>4 DEF CardInv, Untouched
  <2>6. at' \notin RowPlaces \cup {"boot"} BY <1>0, <1>2, <1>4 DEF Resting
  <2>7. ASSUME sound
        PROVE  CardOK(card', before, n) /\ (Working' => \E D, F, C, G, l : Work(D, F, C, G, l)')
    <3>1. CASE Working
      <4>1. PICK D, F, C, G, l : Work(D, F, C, G, l) BY <2>7, <3>1 DEF CardInv
      <4>2. Good(card', D, F, l, before, n) BY <1>4, <4>1 DEF Work
      <4>3. at # "sync" => Size(card', l) = Len(before) BY <1>4, <4>1 DEF Work
      <4>4. ~(at = "copy" /\ fp.ptr % SectorUnits = 0) BY <1>0, <4>1 DEF Work, InTheCluster
      <4>5. Work(D, F, D, F, l)'
        BY <1>0, <1>4, <2>1, <2>2, <4>1, <4>2, <4>3, <4>4, GoodSelf, StillWork
      <4> QED BY <2>7, <4>2, <4>5, GoodIsOK
    <3>2. CASE ~Working
      <4>1. at = "leave" BY <1>0, <1>2, <3>2 DEF Working
      <4> QED BY <1>0, <4>1 DEF Flush, Wanted, Syncs, Chaining
    <3> QED BY <3>1, <3>2
  <2> QED BY <1>0, <2>3, <2>4, <2>5, <2>6, <2>7, Onward
<1>5. CASE card' \in {card, Seen} /\ Fails /\ UNCHANGED win
  <2>1. Seen' = Seen BY <1>0, <1>1, <1>5 DEF Seen, SeenOn
  <2>2. at' = "leave" \/ (at' = "close" /\ InFile) BY <1>2, <1>5 DEF Fails, Close, InFile
  <2>3. Fresh' BY <1>0, <1>5 DEF Fresh
  <2>4. Unwritten' BY <2>2 DEF Unwritten
  <2>5. Untouched' BY <2>2 DEF Untouched, Chaining
  <2>6. at' \notin RowPlaces \cup {"boot"} BY <2>2 DEF RowPlaces
  <2>7. ASSUME sound
        PROVE  CardOK(card', before, n) /\ (Working' => \E D, F, C, G, l : Work(D, F, C, G, l)')
    <3>0. Working
      <4>1. at # "leave" BY <1>0 DEF Flush, Wanted, Syncs, Chaining
      <4> QED BY <1>0, <1>2, <4>1 DEF Working
    <3>1. PICK D, F, C, G, l : Work(D, F, C, G, l) BY <2>7, <3>0 DEF CardInv
    <3>2. PICK C2, G2 : Good(card', C2, G2, l, before, n) /\ Pre(C2, D) /\ Pre(G2, F)
                        /\ (at # "sync" => Size(card', l) = Len(before))
      <4>1. CASE card' = card BY <3>1, <4>1 DEF Work
      <4>2. CASE card' = Seen BY <3>1, <4>2, GoodSelf DEF Work
      <4> QED BY <1>5, <4>1, <4>2
    <3>3. CASE at' = "close" /\ InFile
      <4>1. at # "sync" BY <3>3 DEF InFile, Chaining
      <4>2. InTheFile(Seen, F, l) BY <3>1 DEF Work
      <4>3. HasText(Seen, F, fp.size, before, n)
            /\ (win.dirty => win.s \in FatSectors \cup {fp.entry, fp.sect})
        BY <3>3, <4>2 DEF InTheFile
      <4>4. Good(Seen, D, F, l, before, n) BY <3>1 DEF Work
      <4>5. Work(D, F, C2, G2, l)'
        BY <1>0, <1>5, <2>1, <3>1, <3>2, <3>3, <4>1, <4>3, <4>4, Closing
      <4> QED BY <2>7, <3>2, <4>5, GoodIsOK
    <3>4. CASE at' = "leave"
      <4>1. ~Working' BY <3>4 DEF Working
      <4> QED BY <2>7, <3>2, <4>1, GoodIsOK
    <3> QED BY <2>2, <3>3, <3>4
  <2> QED BY <1>0, <2>3, <2>4, <2>5, <2>6, <2>7, Onward
<1> QED BY <1>3, <1>4, <1>5

(* Nothing has been searched yet.                                            *)
LEMMA SpotTop ==
  ASSUME NEW k, NEW D, NEW F, Chains(k, D, F), NEW d, d = Top(k[Boot])
  PROVE  Spot(k[Boot], D, d, 1, 1) /\ Unfound(k, D, 0) /\ Unfree(k, D, 0)
<1>1. D \in Seq(Clusters) BY DEF Chains, Leads
<1>2. k[Boot] = "fat32" => Len(D) >= 1 /\ d.c = D[1] /\ D[1] # 0
  BY <1>1, EmptySeq, Geometry DEF Chains, Top
<1>3. k[Boot] # "fat32" => d.c = 0 BY DEF Top
<1>4. d.s = 0 /\ d.i = 1 BY DEF Top
<1>5. (1 - 1) * ClusterUnits + d.s * SectorUnits + d.i = 1 BY <1>4, Geometry
<1>6. Spot(k[Boot], D, d, 1, 1) BY <1>1, <1>2, <1>3, <1>5 DEF Spot
<1> QED BY <1>6 DEF Unfound, Unfree

(* move_window.                                                              *)
LEMMA FetchSound == ASSUME StorageInv, CardInv, Fetch PROVE CardInv'
<1>0. /\ ~win.dirty /\ at \notin Resting /\ Wanted # Nowhere /\ Wanted # win.s
      /\ UNCHANGED <<card, fs, dir, fp, chain, sdVars, callVars, done>>
      /\ before' = before /\ n' = n /\ sound' = sound
  BY Rests DEF Fetch, callVars, sdVars
<1>1. Seen = card BY <1>0, SeenIs
<1>2. at # "leave" BY <1>0 DEF Wanted, Chaining
<1>3. \/ win' = [s |-> Wanted, data |-> card[Wanted], dirty |-> FALSE] /\ UNCHANGED <<at, result, locked, clean>>
      \/ win' = NoWindow /\ Fails
  BY DEF Fetch
<1>4. ~win'.dirty /\ Seen' = Seen BY <1>0, <1>1, <1>3 DEF NoWindow, Seen, SeenOn
<1>5. Unwritten' BY <1>4 DEF Unwritten
<1>6. CASE win' = [s |-> Wanted, data |-> card[Wanted], dirty |-> FALSE] /\ UNCHANGED <<at, result, locked, clean>>
  <2>1. Fresh' BY <1>0, <1>6 DEF Fresh
  <2>2. Untouched' BY <1>0, <1>6 DEF CardInv, Untouched
  <2>3. ASSUME sound, Working PROVE \E D, F, C, G, l : Work(D, F, C, G, l)'
    <3>1. PICK D, F, C, G, l : Work(D, F, C, G, l) BY <2>3 DEF CardInv
    <3>2. ~(at = "copy" /\ fp.ptr % SectorUnits = 0)
      BY <1>0, <3>1, WantedAt DEF Work, InTheCluster
    <3>3. Work(D, F, C, G, l)'
      <4>1. /\ Good(card', C, G, l, before, n) /\ Pre(C, D) /\ Pre(G, F)
            /\ (at # "sync" => Size(card', l) = Len(before))
        BY <1>0, <3>1 DEF Work
      <4> QED BY <1>0, <1>4, <1>6, <3>1, <3>2, <4>1, StillWork
    <3> QED BY <3>3
  <2>4. CASE at = "boot" BY <1>0, <1>5, <1>6, <2>1, <2>2, <2>4 DEF CardInv, RowPlaces, Working
  <2>5. CASE at # "boot"
    <3>1. at' \notin RowPlaces \cup {"boot"} BY <1>0, <1>6, <2>5 DEF Resting
    <3>2. sound => CardOK(card', before, n) BY <1>0 DEF CardInv
    <3>3. Working' => Working BY <1>6 DEF Working
    <3> QED BY <1>0, <1>5, <2>1, <2>2, <2>3, <3>1, <3>2, <3>3, Onward
  <2> QED BY <2>4, <2>5
<1>7. CASE win' = NoWindow /\ Fails
  <2>1. at' \in {"idle", "leave"} \/ (at = "fsinfo" /\ at' = "find") \/ (InFile /\ at' = "close")
    BY <1>7 DEF Fails, Close, InFile
  <2>2. Fresh' BY <1>7, SectorPlaces, Names DEF Fresh, NoWindow, SectorSet
  <2>3. Untouched' BY <1>0, <2>1 DEF CardInv, Untouched, Chaining
  <2>4. at' \notin RowPlaces \cup {"boot"} BY <2>1 DEF RowPlaces
  <2>5. sound => CardOK(card', before, n) BY <1>0 DEF CardInv
  <2>6. ASSUME sound, Working' PROVE \E D, F, C, G, l : Work(D, F, C, G, l)'
    <3>1. Working BY <1>0, <1>2, <1>7, <2>6 DEF Working, Fails, Resting
    <3>2. PICK D, F, C, G, l : Work(D, F, C, G, l) BY <2>6, <3>1 DEF CardInv
    <3>3. Good(Seen', D, F, l, before, n) /\ Good(card', C, G, l, before, n) /\ Pre(C, D) /\ Pre(G, F)
      BY <1>0, <1>4, <3>2 DEF Work
    <3>4. CASE at = "fsinfo" /\ at' = "find"
      <4>1. dir = Top(Seen'[Boot]) BY <1>4, <3>2, <3>4 DEF Work, Searching
      <4>2. Chains(Seen', D, F) BY <3>3 DEF Good, Struct
      <4>3. Spot(Seen'[Boot], D, dir, 1, 1) /\ Unfound(Seen', D, 0) BY <4>1, <4>2, SpotTop
      <4>4. Searching(Seen, D)'
        <5>1. 1 \in Nat /\ 1 - 1 = 0 OBVIOUS
        <5> QED BY <1>0, <3>4, <4>3, <5>1 DEF Searching
      <4>5. DirGrows(Seen, D)' /\ Linking(Seen, D, F)' /\ InTheFile(Seen, F, l)' /\ InTheCluster(F)'
        BY <3>4 DEF DirGrows, Linking, InTheFile, InTheCluster, InFile, Chaining
      <4>6. Size(Seen', l) = Len(before) /\ Size(card', l) = Len(before) BY <1>0, <1>4, <3>2, <3>4 DEF Work
      <4> QED BY <1>0, <3>3, <4>4, <4>5, <4>6 DEF Work
    <3>5. CASE InFile /\ at' = "close"
      <4>1. at # "sync" BY <3>5 DEF InFile, Chaining
      <4>2. InTheFile(Seen, F, l) BY <3>2 DEF Work
      <4>3. HasText(Seen', F, fp.size, before, n) BY <1>4, <3>5, <4>2 DEF InTheFile
      <4>4. Size(card', l) = Len(before) BY <1>0, <3>2, <4>1 DEF Work
      <4> QED BY <1>0, <1>4, <3>2, <3>3, <3>5, <4>3, <4>4, Closing
    <3> QED BY <2>1, <2>6, <3>4, <3>5 DEF Working, Resting
  <2> QED BY <1>0, <1>5, <2>2, <2>3, <2>4, <2>5, <2>6, Onward
<1> QED BY <1>3, <1>6, <1>7
---------------------------------------------------------------------------
(* Where a call begins and ends.                                             *)

(* A call that begins finds the card in order and mounts it.                 *)
LEMMA CallSound == ASSUME StorageInv, CardInv, Call PROVE CardInv'
<1>0. /\ at = "idle" /\ before' = FileOn(card) /\ UNCHANGED <<card, sound>>
      /\ \/ at' = "boot" /\ win' = NoWindow /\ done' = 0
         \/ at' = "idle"
  BY DEF Call, Invalidate
<1>1. sound => CardOK(card, before', n') /\ Ready(card, before', n')
  <2>1. PICK m, b : m = n' /\ b = before' OBVIOUS
  <2>2. sound => card[Boot] = "none" \/ \E D, F, l : Struct(card, D, F, l) BY CardIs DEF CardInv
  <2> QED BY <1>0, <2>1, <2>2, RebasedOK
<1>2. CASE at' = "idle" BY <1>0, <1>1, <1>2 DEF CardInv, RowPlaces, Unwritten, Untouched, Working, Resting, Chaining
<1>3. CASE at' = "boot" /\ win' = NoWindow /\ done' = 0
  <2>1. Fresh' BY <1>3, SectorPlaces, Names DEF Fresh, NoWindow, SectorSet
  <2>2. Unwritten' /\ Untouched' BY <1>3 DEF Unwritten, Untouched, NoWindow
  <2> QED BY <1>0, <1>1, <1>3, <2>1, <2>2 DEF CardInv, RowPlaces, Working
<1> QED BY <1>0, <1>2, <1>3

(* A card taken over as it is.                                               *)
LEMMA MountSound == ASSUME StorageInv, CardInv, Mount \/ MountInfo PROVE CardInv'
<1>1. CASE Mount
  <2>0. /\ at = "boot" /\ Wanted \in {Nowhere, win.s} /\ at \notin Resting
        /\ UNCHANGED <<card, win, fs, fp, chain, locked, sdVars, callVars, done>>
        /\ before' = before /\ n' = n /\ sound' = sound
        /\ at' = CASE win.data = "none" -> "idle" [] win.data = "fat16" -> "find" [] OTHER -> "fsinfo"
        /\ dir' = Top(win.data)
    BY <1>1 DEF Mount, Here, callVars, sdVars, Resting, RowPlaces
  <2>1. win.s = Boot /\ ~win.dirty
    BY <2>0, WantedAt, Names DEF CardInv, Unwritten
  <2>2. win.data = card[Boot] /\ Seen = card
    BY <2>0, <2>1, SeenIs, Sectors DEF CardInv, Fresh
  <2>3. win'.data = card'[win'.s] /\ Seen' = card' /\ ~win'.dirty BY <2>0, <2>1, <2>2 DEF Seen, SeenOn
  <2>4. Fresh' /\ Unwritten' BY <2>3 DEF Fresh, Unwritten
  <2>5. at' \in {"idle", "find", "fsinfo"} BY <2>0
  <2>6. Untouched' BY <2>0, <2>5 DEF CardInv, Untouched, Chaining
  <2>7. ASSUME sound, at' # "idle" PROVE \E D, F, C, G, l : Work(D, F, C, G, l)'
    <3>1. PICK D, F, l : Good(card, D, F, l, before, n) /\ Size(card, l) = Len(before)
      BY <2>0, <2>2, <2>7 DEF CardInv, Ready
    <3>2. Chains(card, D, F) BY <3>1 DEF Good, Struct
    <3>3. Spot(card[Boot], D, dir', 1, 1) /\ Unfound(card, D, 0) BY <2>0, <2>2, <3>2, SpotTop
    <3>4. Searching(Seen, D)'
      <4>1. 1 \in Nat /\ 1 - 1 = 0 OBVIOUS
      <4> QED BY <2>0, <2>2, <2>3, <2>5, <2>7, <3>3, <4>1 DEF Searching
    <3>5. DirGrows(Seen, D)' /\ Linking(Seen, D, F)' /\ InTheFile(Seen, F, l)' /\ InTheCluster(F)'
      BY <2>5 DEF DirGrows, Linking, InTheFile, InTheCluster, InFile, Chaining
    <3>6. Work(D, F, D, F, l)'
      BY <2>0, <2>2, <2>3, <3>1, <3>4, <3>5, GoodSelf DEF Work
    <3> QED BY <3>6
  <2>8. at' \notin RowPlaces \cup {"boot"} BY <2>5 DEF RowPlaces
  <2>9. sound => CardOK(card', before, n) BY <2>0 DEF CardInv
  <2>10. Working' => at' # "idle" BY DEF Working, Resting
  <2> QED BY <2>0, <2>4, <2>6, <2>7, <2>8, <2>9, <2>10, Onward
<1>2. CASE MountInfo
  <2>0. /\ at = "fsinfo" /\ at' = "find" /\ at \notin Resting
        /\ UNCHANGED <<card, win, dir, fp, chain, locked, sdVars, callVars, done>>
        /\ before' = before /\ n' = n /\ sound' = sound
    BY <1>2 DEF MountInfo, Here, callVars, sdVars, Resting, RowPlaces
  <2>1. ~win.dirty /\ Seen = card /\ Seen' = card BY <2>0, SeenIs DEF CardInv, Unwritten, Seen, SeenOn
  <2>2. Unwritten' /\ Untouched' BY <2>0, <2>1 DEF CardInv, Unwritten, Untouched
  <2>3. ASSUME sound PROVE Fresh' /\ \E D, F, C, G, l : Work(D, F, C, G, l)'
    <3>0. Working BY <2>0 DEF Working, Resting, RowPlaces
    <3>1. PICK D, F, C, G, l : Work(D, F, C, G, l) BY <2>3, <3>0 DEF CardInv
    <3>a. Fresh' BY <2>0, <2>3, <3>0 DEF CardInv, Fresh
    <3>2. Chains(Seen, D, F) /\ dir = Top(Seen[Boot]) BY <2>0, <3>1 DEF Work, Searching, Good, Struct
    <3>3. Spot(Seen[Boot], D, dir, 1, 1) /\ Unfound(Seen, D, 0) BY <3>2, SpotTop
    <3>4. Searching(Seen, D)'
      <4>1. 1 \in Nat /\ 1 - 1 = 0 OBVIOUS
      <4> QED BY <2>0, <2>1, <3>3, <4>1 DEF Searching
    <3>5. DirGrows(Seen, D)' /\ Linking(Seen, D, F)' /\ InTheFile(Seen, F, l)' /\ InTheCluster(F)'
      BY <2>0 DEF DirGrows, Linking, InTheFile, InTheCluster, InFile, Chaining
    <3>6. Work(D, F, C, G, l)' BY <2>0, <2>1, <3>1, <3>4, <3>5 DEF Work
    <3> QED BY <3>a, <3>6
  <2>4. at' \notin RowPlaces \cup {"boot"} BY <2>0 DEF RowPlaces
  <2>5. sound => CardOK(card', before, n) BY <2>0 DEF CardInv
  <2> QED BY <2>0, <2>2, <2>3, <2>4, <2>5, Onward
<1> QED BY <1>1, <1>2

(* FSInfo, which nothing of this depends on.                                 *)
LEMMA GoodSame ==
  ASSUME NEW k, NEW h, NEW D, NEW F, NEW l, NEW b, NEW m, Good(k, D, F, l, b, m),
         SameText(k, h), SameFat(k, h), h[Boot] = k[Boot]
  PROVE  Good(h, D, F, l, b, m)
<1>1. Chains(h, D, F) BY ChainsSame DEF Good, Struct
<1> QED BY <1>1, GoodSelf, GoodGrown DEF Grown

(* sync_fs only writes what is seen already.                                 *)
LEMMA SyncFsSound == ASSUME StorageInv, CardInv, SyncFs PROVE CardInv'
<1>0. /\ at = "sync" /\ at' = "leave" /\ at \notin Resting /\ UNCHANGED <<sdVars, callVars>>
      /\ \/ card' = card
         \/ card' = [card EXCEPT ![FsInfo] = <<fs.free, fs.last>>]
  BY DEF SyncFs, Here, Resting, RowPlaces
<1>1. ASSUME sound PROVE CardOK(card', before, n)
  <2>0. Working BY <1>0 DEF Working, Resting, RowPlaces
  <2>1. PICK D, F, C, G, l : Work(D, F, C, G, l) BY <1>1, <2>0 DEF CardInv
  <2>2. Good(card, C, G, l, before, n) BY <2>1 DEF Work
  <2>3. CASE card' = card BY <1>1, <2>2, <2>3, GoodIsOK
  <2>4. CASE card' = [card EXCEPT ![FsInfo] = <<fs.free, fs.last>>]
    <3>1. \A s \in SectorSet : s # FsInfo => card'[s] = card[s] BY <2>4 DEF StorageInv, CardHolds
    <3>2. SameText(card, card')
      <4>1. \A x \in Places : x[1] \in SectorSet /\ x[1] # FsInfo BY SectorPlaces DEF Places
      <4> QED BY <3>1, <4>1 DEF SameText, UnitAt
    <3>3. SameFat(card, card') BY <3>1, Sectors, Names DEF SameFat, Fat
    <3>4. card'[Boot] = card[Boot] BY <3>1, Sectors, Names
    <3>5. Good(card', C, G, l, before, n) BY <2>2, <3>2, <3>3, <3>4, GoodSame
    <3> QED BY <1>1, <3>5, GoodIsOK
  <2> QED BY <1>0, <2>3, <2>4
<1>2. ~Working' BY <1>0 DEF Working
<1>3. Unwritten' /\ Untouched' BY <1>0 DEF Unwritten, Untouched, Chaining
<1>4. at' \notin RowPlaces \cup {"boot"} BY <1>0 DEF RowPlaces
<1> QED BY <1>0, <1>1, <1>2, <1>3, <1>4, Onward

(* A call that ends, or a power cut, leaves the card as it is.               *)
LEMMA LeaveSound == ASSUME StorageInv, CardInv, Leave \/ PowerOff PROVE CardInv'
<1>0. /\ at' = "idle" /\ UNCHANGED <<card, sound, callVars>> /\ before' = before /\ n' = n
  BY DEF Leave, PowerOff, callVars, sdVars
<1> QED BY <1>0 DEF CardInv, RowPlaces, Unwritten, Untouched, Working, Resting, Chaining

(* Another card.                                                             *)
LEMMA SwapSound == ASSUME StorageInv, CardInv, SwapCard PROVE CardInv'
<1>0. /\ at = "idle" /\ at' = "idle" /\ card' \in Volumes /\ before' = FileOn(card')
  BY DEF SwapCard
<1>1. CardOK(card', before', n')
  <2>1. PICK m, k : m = n' /\ k = card' /\ k \in Volumes BY <1>0
  <2> QED BY <1>0, <2>1, VolumeStruct, RebasedOK
<1> QED BY <1>0, <1>1 DEF CardInv, RowPlaces, Unwritten, Untouched, Working, Resting, Chaining

(* The cards the program starts with are in order.                           *)
LEMMA CardStarts == ASSUME Init PROVE CardInv
<1>0. at = "idle" /\ card \in Volumes /\ before = <<>> /\ n = 0 BY DEF Init
<1>1. CardOK(card, before, n)
  <2>0. PICK k, m : k = card /\ k \in Volumes /\ m = n BY <1>0
  <2>1. IsSeq(<<>>) /\ Len(<<>>) = 0 BY DEF IsSeq
  <2>2. CASE k[Boot] = "none" BY <1>0, <2>0, <2>1, <2>2 DEF CardOK
  <2>3. CASE \E D, F, l : Struct(k, D, F, l) /\ ~IsReport(UnitAt(k, l))
    <3>1. PICK D, F, l : Struct(k, D, F, l) /\ ~IsReport(UnitAt(k, l)) BY <2>3
    <3>2. Size(k, l) = 0 BY <3>1 DEF Size
    <3>3. HasText(k, F, 0, <<>>, m) BY <2>1, Geometry DEF HasText
    <3>4. Good(k, D, F, l, <<>>, m) BY <3>1, <3>2, <3>3 DEF Good
    <3> QED BY <1>0, <2>0, <2>1, <3>4 DEF CardOK
  <2> QED BY <2>0, <2>2, <2>3, VolumeStruct
<1> QED BY <1>0, <1>1 DEF CardInv, RowPlaces, Unwritten, Untouched, Working, Resting, Chaining

---------------------------------------------------------------------------
(* The row.                                                                  *)

(* A card is in order if another with the same sectors is.                   *)
LEMMA OKSame ==
  ASSUME NEW k, NEW h, NEW b, NEW m, CardOK(k, b, m), \A s \in SectorSet : h[s] = k[s]
  PROVE  CardOK(h, b, m)
<1>1. h[Boot] = k[Boot] BY Sectors
<1>2. SameText(k, h)
  <2>1. \A x \in Places : x[1] \in SectorSet BY SectorPlaces DEF Places
  <2> QED BY <2>1 DEF SameText, UnitAt
<1>3. SameFat(k, h) BY Sectors DEF SameFat, Fat
<1>4. ASSUME \E D, F, l : Good(k, D, F, l, b, m) PROVE \E D, F, l : Good(h, D, F, l, b, m)
  BY <1>1, <1>2, <1>3, <1>4, GoodSame
<1> QED BY <1>1, <1>4 DEF CardOK

(* The row puts the last sector back or says that the card is not sound.     *)
LEMMA RowSound ==
  ASSUME ~MayGarble, StorageInv, CardInv, RowRead \/ RowWrite \/ RowBack \/ RowRestore \/ RowConfirm
  PROVE  CardInv'
<1>a. LastSector \in SectorSet /\ DOMAIN card = SectorSet BY Sectors DEF StorageInv, CardHolds
<1>b. ASSUME NEW x PROVE Sent(x) = {x} BY DEF Sent
<1>c. ASSUME NEW x, Puts(x) PROVE card' = [card EXCEPT ![LastSector] = x] BY <1>b, <1>c DEF Puts
<1>d. at \in RowPlaces => sd = [orig |-> sd.orig, ok |-> sd.ok, was |-> sd.was]
  BY DEF StorageInv, RowIs
<1>e. UNCHANGED callVars /\ before' = before /\ n' = n
  BY DEF RowRead, RowWrite, RowBack, RowRestore, RowConfirm, callVars
<1>f. PICK k : k = card OBVIOUS
<1>1. CASE RowRead
  <2>1. /\ sd' = [orig |-> card[LastSector], ok |-> TRUE, was |-> sound] /\ at' = "row_write"
        /\ UNCHANGED <<card, sound>>
    BY <1>1 DEF RowRead
  <2>2. sound => CardOK(card, before, n) BY DEF CardInv
  <2>3. \A s \in SectorSet : RowBefore'[s] = card[s] BY <1>a, <2>1 DEF RowBefore
  <2>4. sound => CardOK(RowBefore', before, n) BY <2>2, <2>3, OKSame
  <2> QED BY <1>e, <2>1, <2>2, <2>4 DEF CardInv, RowPlaces, Unwritten, Untouched, Working, Resting, Chaining
<1>2. CASE RowWrite \/ RowBack
  <2>1. /\ at \in {"row_write", "row_back"} /\ at' \in {"row_back", "row_restore"} /\ sound' = FALSE
        /\ sd'.orig = sd.orig /\ sd'.was = sd.was
        /\ card' = card \/ card' = [card EXCEPT ![LastSector] = Pattern]
    <3>1. CASE RowWrite
      <4>1. sd' = sd \/ sd' = [sd EXCEPT !.ok = FALSE] BY <3>1 DEF RowWrite
      <4>2. Puts(Pattern) \/ card' = card BY <3>1 DEF RowWrite
      <4>3. at = "row_write" /\ at' = "row_back" /\ sound' = FALSE BY <3>1 DEF RowWrite
      <4> QED BY <1>c, <1>d, <4>1, <4>2, <4>3 DEF RowPlaces
    <3>2. CASE RowBack
      <4>1. PICK good : sd' = [sd EXCEPT !.ok = @ /\ good] BY <3>2 DEF RowBack
      <4>2. at = "row_back" /\ at' = "row_restore" /\ sound' = sound /\ card' = card BY <3>2 DEF RowBack
      <4>3. ~sound BY <4>2 DEF CardInv, RowPlaces
      <4>4. sound' = FALSE
        <5> QED BY <4>2, <4>3
      <4> QED BY <1>d, <4>1, <4>2, <4>4 DEF RowPlaces
    <3> QED BY <1>2, <3>1, <3>2
  <2>2. \A s \in SectorSet : RowBefore'[s] = RowBefore[s] BY <1>a, <2>1 DEF RowBefore
  <2>3. sd.was => CardOK(RowBefore', before, n) BY <2>1, <2>2, OKSame DEF CardInv, RowPlaces
  <2> QED BY <1>e, <2>1, <2>3 DEF CardInv, RowPlaces, Unwritten, Untouched, Working, Resting, Chaining
<1>3. CASE RowRestore
  <2>1. /\ at = "row_restore" /\ at' \in {"row_confirm", "idle"} /\ UNCHANGED <<sd, sound>>
        /\ card' = card \/ card' = [card EXCEPT ![LastSector] = sd.orig]
    BY <1>3, <1>c DEF RowRestore, RowEnds, sdVars
  <2>2. \A s \in SectorSet : RowBefore'[s] = RowBefore[s] BY <1>a, <2>1 DEF RowBefore
  <2>3. sd.was => CardOK(RowBefore', before, n) BY <2>1, <2>2, OKSame DEF CardInv, RowPlaces
  <2>4. ~sound BY <2>1 DEF CardInv, RowPlaces
  <2> QED BY <1>e, <2>1, <2>3, <2>4 DEF CardInv, RowPlaces, Unwritten, Untouched, Working, Resting, Chaining
<1>4. CASE RowConfirm
  <2>1. /\ at = "row_confirm" /\ at' = "idle" /\ UNCHANGED card /\ sound' \in {sd.was, sound}
    BY <1>4 DEF RowConfirm, RowEnds
  <2>2. card[LastSector] = sd.orig BY <2>1 DEF StorageInv, RowIs
  <2>3. \A s \in SectorSet : card[s] = RowBefore[s] BY <1>a, <2>2 DEF RowBefore
  <2>4. sd.was => CardOK(card, before, n) BY <2>1, <2>3, OKSame DEF CardInv, RowPlaces
  <2>5. ~sound BY <2>1 DEF CardInv, RowPlaces
  <2> QED BY <1>e, <2>1, <2>4, <2>5 DEF CardInv, RowPlaces, Unwritten, Untouched, Working, Resting, Chaining
<1> QED BY <1>1, <1>2, <1>3, <1>4

(* A call that gives up leaves the card as it is.                            *)
LEMMA Leaving ==
  ASSUME CardInv, at \notin Resting, at' = "leave", UNCHANGED <<card, sdVars, callVars>>
  PROVE  CardInv'
<1>1. Unwritten' /\ Untouched' BY DEF Unwritten, Untouched, Chaining
<1>2. at' \notin RowPlaces \cup {"boot"} /\ ~Working' BY DEF RowPlaces, Working
<1>3. sound => CardOK(card', before, n) BY DEF CardInv
<1> QED BY <1>1, <1>2, <1>3, Onward

(* Where a call looks for its file, or for room for one.                     *)
SearchPlaces == {"find", "find_next", "alloc", "alloc_next"}

(* A step of the search for the entry, or for a place for it.                *)
LEMMA SearchOn ==
  ASSUME CardInv, at \in SearchPlaces, at' \in SearchPlaces,
         UNCHANGED <<card, win, sdVars, callVars, done>>,
         sound => \E D, F, C, G, l : Work(D, F, C, G, l) /\ Searching(Seen, D)'
  PROVE  CardInv'
<1>0. at \notin Resting /\ at # "sync" /\ at' # "sync" /\ at \notin {"boot", "leave"}
  BY DEF SearchPlaces, Resting, RowPlaces
<1>a. before' = before /\ n' = n BY DEF callVars
<1>1. Unwritten' /\ Untouched'
  BY DEF SearchPlaces, CardInv, Unwritten, Untouched
<1>2. at' \notin RowPlaces \cup {"boot"} BY DEF SearchPlaces, RowPlaces
<1>3. sound => CardOK(card', before, n) BY DEF CardInv
<1>4. Seen' = Seen BY DEF Seen, SeenOn
<1>5. ASSUME sound PROVE Fresh' /\ \E D, F, C, G, l : Work(D, F, C, G, l)'
  <2>1. PICK D, F, C, G, l : Work(D, F, C, G, l) /\ Searching(Seen, D)' BY <1>5
  <2>2. Fresh BY <1>0, <1>5 DEF CardInv, Working
  <2>3. Fresh' BY <2>2 DEF Fresh, SearchPlaces
  <2>4. DirGrows(Seen, D)' /\ Linking(Seen, D, F)' /\ InTheFile(Seen, F, l)' /\ InTheCluster(F)'
    BY DEF DirGrows, Linking, InTheFile, InTheCluster, InFile, Chaining, SearchPlaces
  <2>5. Work(D, F, C, G, l)' BY <1>0, <1>4, <1>a, <2>1, <2>4 DEF Work
  <2> QED BY <2>3, <2>5
<1> QED BY <1>0, <1>1, <1>2, <1>3, <1>5, Onward

(* Where the search is, the window has it.                                   *)
LEMMA SpotUnit ==
  ASSUME DirIs, NEW k, NEW D, NEW F, Chains(k, D, F), NEW a \in Nat, NEW p \in Nat,
         Spot(k[Boot], D, dir, a, p)
  PROVE  /\ p \in 1..TableSize(k[Boot], D) /\ TablePlace(k, D, p) = <<DirSector, dir.i>>
         /\ DirSector \in TextSectors /\ <<DirSector, dir.i>> \in Places
<1>0. k[Boot] \in Kinds /\ D \in Seq(Clusters) BY DEF Chains, Leads, Kinds
<1>1. dir.i \in 1..SectorUnits BY DEF DirIs
<1>2. CASE k[Boot] = "fat32"
  <2>1. a \in 1..Len(D) /\ dir.c = D[a] /\ dir.c \in Clusters BY <1>0, <1>2 DEF Spot
  <2>2. dir.c # 0 BY <2>1, Geometry
  <2>3. dir.s \in 0..(ClusterSectors - 1) BY <2>2 DEF DirIs
  <2>4. p = (a - 1) * ClusterUnits + dir.s * SectorUnits + dir.i BY DEF Spot
  <2>5. /\ p \in 1..(Len(D) * ClusterUnits)
        /\ PlaceOf(SectorsOf(D), p) = <<DataSector(D[a], dir.s), dir.i>>
    BY <1>0, <1>1, <2>1, <2>3, <2>4, FilePlaceAt
  <2>6. DirSector = DataSector(D[a], dir.s) BY <2>1, <2>2 DEF DirSector
  <2>7. DirSector \in TextSectors BY <2>1, <2>3, <2>6, SectorPlaces
  <2>8. TableSize(k[Boot], D) = Len(D) * ClusterUnits BY <1>0, <1>2, TableSectorsAre
  <2> QED BY <1>1, <1>2, <2>5, <2>6, <2>7, <2>8 DEF TablePlace, TableSectors, Places
<1>3. CASE k[Boot] = "fat16"
  <2>1. a = 1 /\ dir.c = 0 BY <1>3 DEF Spot
  <2>2. dir.s \in 0..(RootSectors - 1) BY <2>1 DEF DirIs
  <2>3. PICK u \in Nat \ {0} : u = SectorUnits BY Geometry
  <2>4. PICK j \in Nat \ {0} : j = dir.s + 1 BY <2>2
  <2>5. p = (j - 1) * u + dir.i
    <3>1. (a - 1) * ClusterUnits = 0 BY <2>1, Geometry
    <3>2. p = (a - 1) * ClusterUnits + dir.s * SectorUnits + dir.i BY DEF Spot
    <3> QED BY <1>1, <2>2, <2>3, <2>4, <3>1, <3>2
  <2>6. PlaceOf(TableSectors(k[Boot], D), p) = <<TableSectors(k[Boot], D)[j], dir.i>>
    BY <1>1, <2>3, <2>4, <2>5, PlaceAt
  <2>7. TableSectors(k[Boot], D)[j] = <<"root", dir.s>>
    BY <1>3, <2>2, <2>4, Geometry DEF TableSectors
  <2>8. DirSector = <<"root", dir.s>> BY <2>1 DEF DirSector
  <2>9. DirSector \in TextSectors BY <2>2, <2>8, SectorPlaces
  <2>10. p \in 1..(RootSectors * SectorUnits)
    <3>1. PICK r \in Nat \ {0} : r = RootSectors BY Geometry
    <3>2. dir.s * u + dir.i \in 1..(r * u) BY <1>1, <2>2, <2>3, <3>1, Within
    <3> QED BY <2>2, <2>3, <2>4, <2>5, <3>1, <3>2
  <2>11. TableSize(k[Boot], D) = RootSectors * SectorUnits BY <1>0, <1>3, TableSectorsAre
  <2> QED BY <1>1, <2>6, <2>7, <2>8, <2>9, <2>10, <2>11 DEF TablePlace, Places
<1> QED BY <1>0, <1>2, <1>3 DEF Kinds

(* The next place of a directory.                                            *)
LEMMA SpotNext ==
  ASSUME DirIs, NEW k, NEW D, NEW F, Chains(k, D, F), NEW a \in Nat, NEW p \in Nat,
         Spot(k[Boot], D, dir, a, p), NEW CONSTANT table, NEW ACTION end, DirNext(end, table)
  PROVE  \/ UNCHANGED <<at, result>> /\ Spot(k[Boot], D, dir', a, p + 1)
         \/ AtClusterEnd(dir) /\ at' = table /\ UNCHANGED <<dir, result>>
         \/ p = TableSize(k[Boot], D) /\ end
<1>0. k[Boot] \in Kinds /\ D \in Seq(Clusters) BY DEF Chains, Leads, Kinds
<1>1. dir.i \in 1..SectorUnits /\ dir.s \in Nat /\ dir = [c |-> dir.c, s |-> dir.s, i |-> dir.i]
  BY DEF DirIs
<1>2. PICK u \in Nat \ {0} : u = SectorUnits BY Geometry
<1>3. PICK h \in Int : h = (a - 1) * ClusterUnits BY Geometry
<1>4. p = h + dir.s * u + dir.i BY <1>2, <1>3 DEF Spot
<1>5. ASSUME dir' = [dir EXCEPT !.i = @ + 1] PROVE Spot(k[Boot], D, dir', a, p + 1)
  <2>1. dir'.c = dir.c /\ dir'.s = dir.s /\ dir'.i = dir.i + 1 BY <1>1, <1>5
  <2>2. p + 1 = h + dir'.s * u + dir'.i BY <1>1, <1>2, <1>3, <1>4, <2>1
  <2> QED BY <1>2, <1>3, <2>1, <2>2 DEF Spot
<1>6. ASSUME dir.i = SectorUnits, dir' = [dir EXCEPT !.s = @ + 1, !.i = 1]
      PROVE  Spot(k[Boot], D, dir', a, p + 1)
  <2>1. dir'.c = dir.c /\ dir'.s = dir.s + 1 /\ dir'.i = 1 BY <1>1, <1>6
  <2>2. PICK t \in Nat : t = dir.s BY <1>1
  <2>3. (t + 1) * u = t * u + u BY <1>2, <2>2
  <2>4. p + 1 = h + dir'.s * u + dir'.i BY <1>2, <1>3, <1>4, <1>6, <2>1, <2>2, <2>3
  <2> QED BY <1>2, <1>3, <2>1, <2>4 DEF Spot
<1>7. ASSUME dir.i = SectorUnits, dir.s + 1 = RootSectors, dir.c = 0 PROVE p = TableSize(k[Boot], D)
  <2>1. k[Boot] = "fat16" /\ a = 1
    <3>1. k[Boot] = "fat32" => dir.c \in Clusters BY <1>0 DEF Spot
    <3> QED BY <1>0, <1>7, <3>1, Geometry DEF Kinds, Spot
  <2>2. h = 0 BY <1>3, <2>1, Geometry
  <2>3. PICK t \in Nat : t = dir.s BY <1>1
  <2>4. (t + 1) * u = t * u + u BY <1>2, <2>3
  <2>5. p = RootSectors * SectorUnits BY <1>2, <1>4, <1>7, <2>2, <2>3, <2>4
  <2> QED BY <1>0, <2>1, <2>5, TableSectorsAre
<1> DEFINE sectors == IF dir.c = 0 THEN RootSectors ELSE ClusterSectors
<1>8. \/ dir' = [dir EXCEPT !.i = @ + 1] /\ UNCHANGED <<at, result>>
      \/ dir.i = SectorUnits /\ dir' = [dir EXCEPT !.s = @ + 1, !.i = 1] /\ UNCHANGED <<at, result>>
      \/ dir.i = SectorUnits /\ dir.s + 1 = sectors /\ dir.c # 0 /\ at' = table /\ UNCHANGED <<dir, result>>
      \/ dir.i = SectorUnits /\ dir.s + 1 = sectors /\ dir.c = 0 /\ end
  BY DEF DirNext
<1>9. dir.i = SectorUnits /\ dir.s + 1 = sectors /\ dir.c # 0 => AtClusterEnd(dir)
  BY SMTT(30), <1>1, Geometry DEF AtClusterEnd
<1> QED BY <1>5, <1>6, <1>7, <1>8, <1>9

(* No entry of a report before the end of the directory: none anywhere.      *)
LEMMA NoneFound ==
  ASSUME NEW k, NEW D, NEW F, NEW l, Struct(k, D, F, l), NEW p \in 1..TableSize(k[Boot], D),
         \/ Unfound(k, D, p - 1) /\ TableUnit(k, D, p) = EndOfDir
         \/ Unfound(k, D, p) /\ p = TableSize(k[Boot], D)
  PROVE  NoReport(k)
<1>0. k[Boot] \in Kinds /\ D \in Seq(Clusters) BY DEF Struct, Chains, Leads, Kinds
<1>1. PICK m \in Nat : m = TableSize(k[Boot], D) BY <1>0, TableSectorsAre
<1>2. SUFFICES ASSUME NEW x \in Places, IsReport(UnitAt(k, x)) PROVE FALSE BY DEF NoReport
<1>3. UnitAt(k, x) \notin {Other, Label} /\ Len(UnitAt(k, x)) = 3
  BY <1>2 DEF IsReport, Other, Label, Entry
<1>4. x = l BY <1>3 DEF Struct, Entries
<1>5. PICK q \in 1..m : TablePlace(k, D, q) = l /\ \A r \in 1..q : TableUnit(k, D, r) # EndOfDir
  BY <1>1, <1>2, <1>4 DEF Struct, Entries
<1>6. IsReport(TableUnit(k, D, q)) BY <1>2, <1>4, <1>5 DEF TableUnit
<1>7. CASE Unfound(k, D, p - 1) /\ TableUnit(k, D, p) = EndOfDir
  <2>1. ~(p \in 1..q) BY <1>5, <1>7
  <2>2. q \in 1..(p - 1) BY <1>1, <1>5, <2>1
  <2> QED BY <1>6, <1>7, <2>2 DEF Unfound
<1>8. CASE Unfound(k, D, p) /\ p = TableSize(k[Boot], D) BY <1>1, <1>5, <1>6, <1>8 DEF Unfound
<1> QED BY <1>7, <1>8

(* What is seen of a card whose table of chains leads to the same text.      *)
LEMMA NoFileYet ==
  ASSUME NEW k, NEW D, NEW F, NEW l, NEW b, NEW m, Good(k, D, F, l, b, m),
         IsReport(UnitAt(k, l)) => UnitAt(k, l)[2] = 0
  PROVE  /\ Good(k, D, <<>>, l, b, m) /\ Size(k, l) = 0
         /\ \A z \in Nat : HasText(k, F, z, b, m) /\ z = 0 => HasText(k, <<>>, z, b, m)
<1>1. Chains(k, D, F) /\ l \in Places /\ Entries(k, D, l) /\ Claim(k, F, l) BY DEF Good, Struct
<1>2. Size(k, l) = 0 BY <1>1 DEF Claim, Size
<1>3. Chains(k, D, <<>>)
  <2>1. Leads(k, <<>>) BY DEF Leads
  <2>2. Apart(D, <<>>) BY <1>1 DEF Chains, Apart
  <2> QED BY <1>1, <2>1, <2>2 DEF Chains
<1>4. Claim(k, <<>>, l) BY <1>1 DEF Claim
<1>5. \A z \in Nat : HasText(k, F, z, b, m) /\ z = 0 => HasText(k, <<>>, z, b, m) BY DEF HasText
<1>6. HasText(k, <<>>, 0, b, m) BY <1>2, <1>5 DEF Good
<1> QED BY <1>1, <1>2, <1>3, <1>4, <1>5, <1>6 DEF Good, Struct

(* A file that is opened, for its entry.                                     *)
LEMMA OpenedWork ==
  ASSUME StorageInv, NEW e, NEW CONSTANT new, Opened(e, new), at \in {"find", "alloc"},
         UNCHANGED <<chain, done, before, n>>, done = 0, NEW D, NEW F, NEW C, NEW G, NEW l,
         Good(Seen', D, F, l, before, n), Good(card', C, G, l, before, n), Pre(C, D), Pre(G, F),
         Size(Seen', l) = Len(before), Size(card', l) = Len(before),
         l = <<win.s, dir.i>>, e = UnitAt(Seen', l), IsReport(e), e[2] = 0 <=> F = <<>>,
         win'.dirty => win'.s = win.s
  PROVE  Work(D, F, C, G, l)' /\ at' \in {"seek", "write"}
<1>1. /\ fp' = [entry |-> win.s, i |-> dir.i, scl |-> e[2], size |-> e[3], ptr |-> e[3],
                c |-> e[2], sect |-> Nowhere, modified |-> new]
      /\ at' = IF e[3] > 0 THEN "seek" ELSE "write"
  BY DEF Opened, NoFile, IncShare
<1>2. /\ fp'.entry = win.s /\ fp'.i = dir.i /\ fp'.scl = e[2] /\ fp'.size = e[3] /\ fp'.ptr = e[3]
      /\ fp'.c = e[2]
  BY <1>1
<1>3. Size(Seen', l) = e[3] /\ Claim(Seen', F, l) BY DEF Size, Good, Struct
<1>4. e[3] \in Nat /\ (e[2] = 0 => e[3] = 0)
      /\ (e[2] # 0 => F # <<>> /\ F[1] = e[2] /\ e[3] <= Len(F) * ClusterUnits)
  BY <1>3 DEF Claim
<1>5. at' \in {"seek", "write"} /\ (at' = "seek" => e[3] > 0) /\ (at' = "write" => e[3] = 0)
  BY <1>1, <1>4
<1>6. F \in Seq(Clusters) /\ Len(F) * ClusterUnits \in Nat BY Geometry DEF Good, Struct, Chains, Leads
<1>7. InTheFile(Seen, F, l)'
  <2>1. fp'.scl = IF F = <<>> THEN 0 ELSE F[1] BY <1>2, <1>4
  <2>2. e[3] <= Len(F) * ClusterUnits BY <1>4, <1>6
  <2>3. e[3] = Len(before) + done BY <1>3, <1>4
  <2>4. HasText(Seen', F, e[3], before, n) BY <1>3 DEF Good
  <2> QED BY <1>2, <1>5, <2>1, <2>2, <2>3, <2>4 DEF InTheFile
<1>8. InTheCluster(F)'
  <2>1. at' = "seek" => /\ fp'.ptr \in 1..fp'.size
                        /\ 0 \in Nat /\ fp'.size = fp'.ptr + 0 * ClusterUnits /\ fp'.c = F[1 + 0]
    BY <1>2, <1>4, <1>5, Geometry
  <2>2. at' = "write" => fp'.ptr = 0 /\ fp'.ptr % SectorUnits = 0
    <3>1. 0 % SectorUnits = 0 BY Geometry
    <3> QED BY <1>2, <1>5, <3>1
  <2>3. \E b \in Nat : at' = "seek" => fp'.size = fp'.ptr + b * ClusterUnits /\ fp'.c = F[1 + b]
    BY <2>1
  <2> QED BY <1>5, <2>1, <2>2, <2>3 DEF InTheCluster, Chaining
<1>9. Searching(Seen, D)' /\ DirGrows(Seen, D)' /\ Linking(Seen, D, F)'
  BY <1>5 DEF Searching, DirGrows, Linking, Chaining
<1> QED BY <1>5, <1>7, <1>8, <1>9 DEF Work

(* dir_find.                                                                 *)
LEMMA FindSound == ASSUME StorageInv, CardInv, Find PROVE CardInv'
<1> DEFINE e == win.data[dir.i]
<1>0. /\ at = "find" /\ at \notin Resting /\ Wanted \in {Nowhere, win.s} /\ at \in SearchPlaces
      /\ UNCHANGED <<card, win, fs, chain, sdVars, callVars, done>>
      /\ before' = before /\ n' = n /\ sound' = sound /\ DirIs /\ dir.i \in 1..SectorUnits
  BY DEF Find, Here, callVars, sdVars, Resting, RowPlaces, StorageInv, DirIs, SearchPlaces
<1>1. ~win.dirty /\ Seen = card /\ Seen' = card BY <1>0, SeenIs DEF CardInv, Unwritten, Seen, SeenOn
<1>2. win.s = DirSector /\ win.s \in SectorSet BY <1>0, DirHere
<1>3. ASSUME sound
      PROVE  \E D, F, C, G, l : \E a, p \in Nat :
                /\ Work(D, F, C, G, l) /\ Struct(Seen, D, F, l) /\ Chains(Seen, D, F)
                /\ Spot(Seen[Boot], D, dir, a, p) /\ Unfound(Seen, D, p - 1)
                /\ p \in 1..TableSize(Seen[Boot], D) /\ TablePlace(Seen, D, p) = <<DirSector, dir.i>>
                /\ TableUnit(Seen, D, p) = e /\ <<DirSector, dir.i>> \in Places
                /\ e = UnitAt(Seen, <<DirSector, dir.i>>)
  <2>0. Working BY <1>0 DEF Working, Resting, RowPlaces
  <2>1. PICK D, F, C, G, l : Work(D, F, C, G, l) BY <1>3, <2>0 DEF CardInv
  <2>2. Struct(Seen, D, F, l) /\ Chains(Seen, D, F) BY <2>1 DEF Work, Good, Struct
  <2>3. PICK a \in Nat, p \in Nat : Spot(Seen[Boot], D, dir, a, p) /\ Unfound(Seen, D, p - 1)
    BY <1>0, <2>1 DEF Work, Searching
  <2>4. /\ p \in 1..TableSize(Seen[Boot], D) /\ TablePlace(Seen, D, p) = <<DirSector, dir.i>>
        /\ <<DirSector, dir.i>> \in Places
    <3>1. PICK k : k = Seen OBVIOUS
    <3>2. Chains(k, D, F) /\ Spot(k[Boot], D, dir, a, p) BY <2>2, <2>3, <3>1
    <3> QED BY <1>0, <3>1, <3>2, SpotUnit
  <2>5. Fresh BY <1>3, <2>0 DEF CardInv
  <2>6. win.data = Seen[win.s] BY <1>0, <1>2, <2>5, FreshSight
  <2>7. e = UnitAt(Seen, <<DirSector, dir.i>>) /\ TableUnit(Seen, D, p) = e
    BY <1>2, <2>4, <2>6 DEF UnitAt, TableUnit
  <2> QED BY <2>1, <2>2, <2>3, <2>4, <2>7
<1>a. e # EndOfDir \/ ~IsReport(e) BY DEF EndOfDir, IsReport
<1> HIDE DEF e
<1>4. \/ e = EndOfDir /\ NotFound
      \/ IsReport(e) /\ Opened(e, FALSE)
      \/ at' = "leave"
      \/ e # EndOfDir /\ ~IsReport(e) /\ DirNext(NotFound, "find_next")
  BY DEF Find, Refused, e
<1>5. ASSUME NotFound, NEW D, NEW F, NEW C, NEW G, NEW l, Work(D, F, C, G, l), Chains(Seen, D, F), NoReport(Seen)
      PROVE  at' \in SearchPlaces /\ Searching(Seen, D)'
  <2>1. at' = "alloc" /\ dir' = Top(Seen[Boot]) BY <1>1, <1>5 DEF NotFound
  <2>2. Spot(Seen[Boot], D, dir', 1, 1) /\ Unfree(Seen, D, 0) BY <1>5, <2>1, SpotTop
  <2>3. 1 \in Nat /\ 1 - 1 = 0 OBVIOUS
  <2> QED BY <1>1, <1>5, <2>1, <2>2, <2>3 DEF Searching, SearchPlaces
<1>6. CASE e = EndOfDir /\ NotFound
  <2>1. at' \in SearchPlaces BY <1>6 DEF NotFound, SearchPlaces
  <2>2. ASSUME sound PROVE \E D, F, C, G, l : Work(D, F, C, G, l) /\ Searching(Seen, D)'
    <3>1. PICK D, F, C, G, l, a, p : /\ a \in Nat /\ p \in Nat
             /\ Work(D, F, C, G, l) /\ Struct(Seen, D, F, l) /\ Chains(Seen, D, F)
             /\ Unfound(Seen, D, p - 1)
             /\ p \in 1..TableSize(Seen[Boot], D) /\ TableUnit(Seen, D, p) = e
      BY <1>3, <2>2
    <3>2. NoReport(Seen) BY <1>6, <3>1, NoneFound
    <3> QED BY <1>5, <1>6, <3>1, <3>2
  <2> QED BY <1>0, <2>1, <2>2, SearchOn
<1>7. CASE IsReport(e) /\ Opened(e, FALSE)
  <2>0. done = 0 BY <1>0 DEF CardInv, Untouched
  <2>1. at' \in {"seek", "write"} BY <1>7 DEF Opened
  <2>2. ASSUME sound PROVE Fresh' /\ \E D, F, C, G, l : Work(D, F, C, G, l)'
    <3>1. PICK D, F, C, G, l : /\ Work(D, F, C, G, l) /\ Struct(Seen, D, F, l)
             /\ <<DirSector, dir.i>> \in Places /\ e = UnitAt(Seen, <<DirSector, dir.i>>)
      BY <1>3, <2>2
    <3>2. l = <<DirSector, dir.i>>
      <4>1. e \notin {Other, Label} /\ Len(e) = 3 BY <1>7 DEF IsReport, Other, Label, Entry
      <4> QED BY <3>1, <4>1 DEF Struct, Entries
    <3>3. /\ Good(card, D, F, l, before, n) /\ Size(card, l) = Len(before) BY <1>0, <1>1, <3>1 DEF Work
    <3>4. \E H : Good(card, D, H, l, before, n) /\ (e[2] = 0 <=> H = <<>>)
      <4>1. CASE e[2] = 0
        <5>1. Good(card, D, <<>>, l, before, n) BY <1>1, <3>1, <3>2, <3>3, <4>1, NoFileYet
        <5> QED BY <4>1, <5>1
      <4>2. CASE e[2] # 0
        <5>1. F # <<>> BY <1>7, <3>1, <3>2, <4>2 DEF Struct, Claim
        <5> QED BY <3>3, <4>2, <5>1
      <4> QED BY <4>1, <4>2
    <3>5. PICK H : Good(card, D, H, l, before, n) /\ (e[2] = 0 <=> H = <<>>) BY <3>4
    <3>6. Pre(D, D) /\ Pre(H, H) BY <3>5, GoodSelf
    <3>7. Work(D, H, D, H, l)'
      <4>1. Good(Seen', D, H, l, before, n) /\ Good(card', D, H, l, before, n)
            /\ Size(Seen', l) = Len(before) /\ Size(card', l) = Len(before)
            /\ l = <<win.s, dir.i>> /\ e = UnitAt(Seen', l) /\ ~win'.dirty
        BY <1>0, <1>1, <1>2, <3>1, <3>2, <3>3, <3>5
      <4> QED BY <1>0, <1>7, <2>0, <3>5, <3>6, <4>1, OpenedWork
    <3>8. Fresh
      <4>1. Working BY <1>0 DEF Working, Resting, RowPlaces
      <4> QED BY <2>2, <4>1 DEF CardInv
    <3>9. Fresh' BY <1>0, <2>1, <3>8 DEF Fresh
    <3> QED BY <3>7, <3>9
  <2>3. Unwritten' /\ Untouched' BY <1>0, <2>0, <2>1 DEF Unwritten, Untouched
  <2>4. at' \notin RowPlaces \cup {"boot"} BY <2>1 DEF RowPlaces
  <2>5. sound => CardOK(card', before, n) BY <1>0 DEF CardInv
  <2> QED BY <1>0, <2>2, <2>3, <2>4, <2>5, Onward
<1>8. CASE at' = "leave" BY <1>0, <1>8, Leaving
<1>9. CASE e # EndOfDir /\ ~IsReport(e) /\ DirNext(NotFound, "find_next")
  <2>0. at' \in SearchPlaces BY <1>0, <1>9 DEF DirNext, NotFound, SearchPlaces
  <2>1. ASSUME sound PROVE \E D, F, C, G, l : Work(D, F, C, G, l) /\ Searching(Seen, D)'
    <3>1. PICK D, F, C, G, l, a, p : /\ a \in Nat /\ p \in Nat
             /\ Work(D, F, C, G, l) /\ Struct(Seen, D, F, l) /\ Chains(Seen, D, F)
             /\ Spot(Seen[Boot], D, dir, a, p) /\ Unfound(Seen, D, p - 1)
             /\ p \in 1..TableSize(Seen[Boot], D) /\ TableUnit(Seen, D, p) = e
      BY <1>3, <2>1
    <3>2. Unfound(Seen, D, p)
      <4>1. \A q \in 1..p : q \in 1..(p - 1) \/ q = p BY <3>1
      <4> QED BY <1>9, <3>1, <4>1 DEF Unfound
    <3>3. \/ UNCHANGED <<at, result>> /\ Spot(Seen[Boot], D, dir', a, p + 1)
          \/ AtClusterEnd(dir) /\ at' = "find_next" /\ UNCHANGED <<dir, result>>
          \/ p = TableSize(Seen[Boot], D) /\ NotFound
      <4>1. PICK k : k = Seen OBVIOUS
      <4>2. Chains(k, D, F) /\ Spot(k[Boot], D, dir, a, p) BY <3>1, <4>1
      <4> QED BY <1>0, <1>9, <3>1, <4>1, <4>2, SpotNext
    <3>4. CASE UNCHANGED <<at, result>> /\ Spot(Seen[Boot], D, dir', a, p + 1)
      <4>1. p + 1 \in Nat /\ p + 1 - 1 = p BY <3>1
      <4>2. Searching(Seen, D)' BY <1>0, <1>1, <3>1, <3>2, <3>4, <4>1 DEF Searching
      <4> QED BY <3>1, <4>2
    <3>5. CASE AtClusterEnd(dir) /\ at' = "find_next" /\ UNCHANGED <<dir, result>>
      <4>2. Searching(Seen, D)' BY <1>0, <1>1, <3>1, <3>2, <3>5 DEF Searching
      <4> QED BY <3>1, <4>2
    <3>6. CASE p = TableSize(Seen[Boot], D) /\ NotFound
      <4>1. NoReport(Seen) BY <3>1, <3>2, <3>6, NoneFound
      <4> QED BY <1>5, <3>1, <3>6, <4>1
    <3> QED BY <3>3, <3>4, <3>5, <3>6
  <2> QED BY <1>0, <2>0, <2>1, SearchOn
<1> QED BY <1>4, <1>6, <1>7, <1>8, <1>9

---------------------------------------------------------------------------
(* A directory without a report's entry gets one, wherever it is.            *)
LEMMA NoEntryYet ==
  ASSUME NEW k, NEW D, NEW F, NEW l, NEW b, NEW m, Good(k, D, F, l, b, m), NoReport(k),
         Size(k, l) = Len(b), NEW x \in Places
  PROVE  Good(k, D, <<>>, x, b, m) /\ Size(k, x) = Len(b) /\ Len(b) = 0
<1>1. ~IsReport(UnitAt(k, l)) /\ ~IsReport(UnitAt(k, x)) BY DEF Good, Struct, NoReport
<1>2. Good(k, D, <<>>, l, b, m) /\ Size(k, l) = 0 BY <1>1, NoFileYet
<1>3. Entries(k, D, x) BY <1>1, <1>2 DEF Good, Struct, Entries, NoReport
<1>4. Claim(k, <<>>, x) BY <1>1 DEF Claim
<1>5. Size(k, x) = 0 BY <1>1 DEF Size
<1> QED BY <1>2, <1>3, <1>4, <1>5 DEF Good, Struct

(* A new entry in a free unit is a report's, of a file that is empty.        *)
LEMMA EntryMade ==
  ASSUME NEW k, NEW h, NEW D, NEW l, NEW b, NEW m, Good(k, D, <<>>, l, b, m), NoReport(k), Len(b) = 0,
         SameFat(k, h), h[Boot] = k[Boot], NEW p \in 1..TableSize(k[Boot], D), TablePlace(k, D, p) = l,
         Unfree(k, D, p - 1),
         \A x \in Places : UnitAt(h, x) = IF x = l THEN Entry("report", 0, 0) ELSE UnitAt(k, x)
  PROVE  Good(h, D, <<>>, l, b, m) /\ Size(h, l) = 0 /\ UnitAt(h, l) = Entry("report", 0, 0)
<1>0. Chains(k, D, <<>>) /\ l \in Places /\ Entries(k, D, l) BY DEF Good, Struct
<1>1. k[Boot] \in Kinds /\ D \in Seq(Clusters) BY <1>0 DEF Chains, Leads, Kinds
<1>2. Chains(h, D, <<>>) BY <1>0, ChainsSame
<1> DEFINE e == Entry("report", 0, 0)
<1>3. UnitAt(h, l) = e /\ IsReport(e) /\ e[2] = 0 /\ e[3] = 0 /\ e # EndOfDir
  BY <1>0 DEF Entry, IsReport, EndOfDir
<1> HIDE DEF e
<1>4. Size(h, l) = 0 /\ Claim(h, <<>>, l) BY <1>3 DEF Size, Claim
<1>5. TableSize(k[Boot], D) \in Nat BY <1>1, TableSectorsAre
<1>6. \A q \in 1..p : TablePlace(h, D, q) = TablePlace(k, D, q) /\ TablePlace(k, D, q) \in Places
  <2>1. \A q \in 1..p : q \in 1..TableSize(k[Boot], D) BY <1>5
  <2> QED BY <1>1, <2>1, TableInPlaces DEF TablePlace
<1>7. ASSUME NEW q \in 1..p PROVE TableUnit(h, D, q) # EndOfDir
  <2>1. CASE TablePlace(k, D, q) = l BY <1>3, <1>6, <2>1 DEF TableUnit
  <2>2. CASE TablePlace(k, D, q) # l
    <3>1. q \in 1..(p - 1) BY <1>5, <2>2
    <3>2. TableUnit(k, D, q) # EndOfDir BY <3>1 DEF Unfree, IsFree
    <3>3. TableUnit(h, D, q) = TableUnit(k, D, q) BY <1>6, <2>2 DEF TableUnit
    <3> QED BY <3>2, <3>3
  <2> QED BY <2>1, <2>2
<1>8. TablePlace(h, D, p) = l
  <2>1. p \in 1..p BY <1>5
  <2> QED BY <1>6, <2>1
<1>9. Entries(h, D, l)
  <2>1. \A x \in Places : Len(UnitAt(h, x)) = 3 =>
          UnitAt(h, x) \in {Other, Label} \/ (IsReport(UnitAt(h, x)) /\ x = l)
    <3> SUFFICES ASSUME NEW x \in Places, Len(UnitAt(h, x)) = 3
                 PROVE  UnitAt(h, x) \in {Other, Label} \/ (IsReport(UnitAt(h, x)) /\ x = l)
      OBVIOUS
    <3>1. CASE x = l BY <1>3, <3>1
    <3>2. CASE x # l
      <4>1. UnitAt(h, x) = UnitAt(k, x) /\ ~IsReport(UnitAt(k, x)) BY <3>2 DEF NoReport
      <4> QED BY <1>0, <4>1 DEF Entries
    <3> QED BY <3>1, <3>2
  <2> QED BY <1>7, <1>8, <2>1 DEF Entries
<1>10. HasText(h, <<>>, 0, b, m) BY Geometry DEF HasText
<1> QED BY <1>0, <1>2, <1>3, <1>4, <1>9, <1>10 DEF Good, Struct, e

(* dir_alloc and dir_register.                                               *)
LEMMA AllocSound == ASSUME StorageInv, CardInv, Alloc PROVE CardInv'
<1> DEFINE u == win.data[dir.i]
           e == Entry("report", 0, 0)
<1>0. /\ at = "alloc" /\ at \notin Resting /\ Wanted \in {Nowhere, win.s} /\ at \in SearchPlaces
      /\ UNCHANGED <<card, fs, chain, sdVars, callVars, done>>
      /\ before' = before /\ n' = n /\ sound' = sound /\ DirIs /\ dir.i \in 1..SectorUnits
  BY DEF Alloc, Here, callVars, sdVars, Resting, RowPlaces, StorageInv, DirIs, SearchPlaces
<1>1. ~win.dirty /\ Seen = card BY <1>0, SeenIs DEF CardInv, Unwritten, Seen, SeenOn
<1>2. win.s = DirSector /\ win.s \in SectorSet BY <1>0, DirHere
<1>w. Working BY <1>0 DEF Working, Resting, RowPlaces
<1>f. sound => win.data = Seen[win.s]
  <2>1. sound => Fresh BY <1>w DEF CardInv
  <2> QED BY <1>0, <1>2, <2>1, FreshSight
<1>3. ASSUME sound
      PROVE  \E D, F, C, G, l : \E a, p \in Nat :
                /\ Work(D, F, C, G, l) /\ Chains(Seen, D, F) /\ NoReport(Seen)
                /\ Spot(Seen[Boot], D, dir, a, p) /\ Unfree(Seen, D, p - 1)
                /\ p \in 1..TableSize(Seen[Boot], D) /\ TablePlace(Seen, D, p) = <<DirSector, dir.i>>
                /\ TableUnit(Seen, D, p) = u /\ <<DirSector, dir.i>> \in Places
                /\ DirSector \in TextSectors
  <2>1. PICK D, F, C, G, l : Work(D, F, C, G, l) BY <1>3, <1>w DEF CardInv
  <2>2. Chains(Seen, D, F) BY <2>1 DEF Work, Good, Struct
  <2>3. PICK a \in Nat, p \in Nat : Spot(Seen[Boot], D, dir, a, p) /\ Unfree(Seen, D, p - 1) /\ NoReport(Seen)
    BY <1>0, <2>1 DEF Work, Searching
  <2>4. /\ p \in 1..TableSize(Seen[Boot], D) /\ TablePlace(Seen, D, p) = <<DirSector, dir.i>>
        /\ <<DirSector, dir.i>> \in Places /\ DirSector \in TextSectors
    <3>1. PICK k : k = Seen OBVIOUS
    <3>2. Chains(k, D, F) /\ Spot(k[Boot], D, dir, a, p) BY <2>2, <2>3, <3>1
    <3> QED BY <1>0, <3>1, <3>2, SpotUnit
  <2>7. TableUnit(Seen, D, p) = u
    BY <1>2, <1>3, <1>f, <2>4 DEF UnitAt, TableUnit
  <2> QED BY <2>1, <2>2, <2>3, <2>4, <2>7
<1>4. CASE IsFree(u)
  <2>0. Change(dir.i, e) /\ Opened(e, TRUE) /\ UNCHANGED dir BY <1>4 DEF Alloc
  <2>1. at' \in {"seek", "write"} BY <2>0 DEF Opened
  <2>2. done = 0 BY <1>0 DEF CardInv, Untouched
  <2>3. win'.dirty /\ win'.s = win.s
    <3>1. PICK c : c = e OBVIOUS
    <3>2. win' = [s |-> win.s, data |-> [win.data EXCEPT ![dir.i] = c], dirty |-> TRUE]
      BY <2>0, <3>1, ChangedTo
    <3> QED BY <3>2
  <2>4. Fresh' BY <2>3 DEF Fresh
  <2>5. Unwritten' /\ Untouched' BY <1>0, <2>1, <2>2 DEF Unwritten, Untouched
  <2>6. ASSUME sound PROVE \E D, F, C, G, l : Work(D, F, C, G, l)'
    <3>1. PICK D, F, C, G, l, a, p : /\ a \in Nat /\ p \in Nat
                /\ Work(D, F, C, G, l) /\ NoReport(Seen) /\ Unfree(Seen, D, p - 1)
                /\ p \in 1..TableSize(Seen[Boot], D) /\ TablePlace(Seen, D, p) = <<DirSector, dir.i>>
                /\ <<DirSector, dir.i>> \in Places /\ DirSector \in TextSectors
      BY <1>3, <2>6
    <3>2. PICK x : x = <<DirSector, dir.i>> /\ x \in Places BY <3>1
    <3>3. Good(Seen, D, F, l, before, n) /\ Size(Seen, l) = Len(before) BY <1>0, <3>1 DEF Work
    <3>4. Good(Seen, D, <<>>, x, before, n) /\ Size(Seen, x) = Len(before) /\ Len(before) = 0
      BY <3>1, <3>2, <3>3, NoEntryYet
    <3>5. /\ SameFat(Seen, Seen') /\ Seen'[Boot] = Seen[Boot]
          /\ \A y \in Places : UnitAt(Seen', y) = IF y = x THEN e ELSE UnitAt(Seen, y)
      BY <1>0, <1>2, <1>f, <2>0, <2>6, <3>1, <3>2, TextChanged
    <3>6. Good(Seen', D, <<>>, x, before, n) /\ Size(Seen', x) = 0 /\ UnitAt(Seen', x) = e
      <4>1. PICK k, h : k = Seen /\ h = Seen' OBVIOUS
      <4>2. /\ Good(k, D, <<>>, x, before, n) /\ NoReport(k) /\ Unfree(k, D, p - 1)
            /\ SameFat(k, h) /\ h[Boot] = k[Boot]
            /\ p \in 1..TableSize(k[Boot], D) /\ TablePlace(k, D, p) = x
            /\ \A y \in Places : UnitAt(h, y) = IF y = x THEN e ELSE UnitAt(k, y)
        BY <3>1, <3>2, <3>4, <3>5, <4>1
      <4>3. Good(h, D, <<>>, x, before, n) /\ Size(h, x) = 0 /\ UnitAt(h, x) = e
        BY <3>4, <4>2, EntryMade
      <4> QED BY <4>1, <4>3
    <3>7. Good(card', D, <<>>, x, before, n) /\ Size(card', x) = Len(before) BY <1>0, <1>1, <3>4
    <3>8. Pre(D, D) /\ Pre(<<>>, <<>>) BY <3>4, GoodSelf
    <3>9. IsReport(e) /\ (e[2] = 0 <=> <<>> = <<>>) BY DEF IsReport, Entry
    <3>10. x = <<win.s, dir.i>> BY <1>2, <3>2
    <3>11. Work(D, <<>>, D, <<>>, x)'
      <4> HIDE DEF e
      <4>1. Size(Seen', x) = Len(before) /\ at \in {"find", "alloc"} /\ UNCHANGED <<chain, done, before, n>>
        BY <1>0, <3>4, <3>6
      <4> QED BY <2>0, <2>2, <2>3, <3>6, <3>7, <3>8, <3>9, <3>10, <4>1, OpenedWork
    <3> QED BY <3>11
  <2>7. at' \notin RowPlaces \cup {"boot"} BY <2>1 DEF RowPlaces
  <2>8. sound => CardOK(card', before, n) BY <1>0 DEF CardInv
  <2> QED BY <1>0, <2>4, <2>5, <2>6, <2>7, <2>8, Onward
<1>5. CASE ~IsFree(u)
  <2>0. DirNext(Refused /\ UNCHANGED dir, "alloc_next") /\ UNCHANGED win BY <1>5 DEF Alloc
  <2> HIDE DEF u, e
  <2>1. CASE at' = "leave" BY <1>0, <2>1, Leaving
  <2>2. CASE at' # "leave"
    <3>0. at' \in SearchPlaces BY <1>0, <2>0, <2>2 DEF DirNext, Refused, SearchPlaces
    <3>a. Seen' = Seen BY <1>0, <2>0 DEF Seen, SeenOn
    <3>1. ASSUME sound PROVE \E D, F, C, G, l : Work(D, F, C, G, l) /\ Searching(Seen, D)'
      <4>1. PICK D, F, C, G, l, a, p : /\ a \in Nat /\ p \in Nat
               /\ Work(D, F, C, G, l) /\ Chains(Seen, D, F) /\ NoReport(Seen)
               /\ Spot(Seen[Boot], D, dir, a, p) /\ Unfree(Seen, D, p - 1)
               /\ p \in 1..TableSize(Seen[Boot], D) /\ TableUnit(Seen, D, p) = u
        BY <1>3, <3>1
      <4>2. Unfree(Seen, D, p)
        <5>1. \A q \in 1..p : q \in 1..(p - 1) \/ q = p BY <4>1
        <5> QED BY <1>5, <4>1, <5>1 DEF Unfree
      <4>3. \/ UNCHANGED <<at, result>> /\ Spot(Seen[Boot], D, dir', a, p + 1)
            \/ AtClusterEnd(dir) /\ at' = "alloc_next" /\ UNCHANGED <<dir, result>>
        <5>1. PICK k : k = Seen OBVIOUS
        <5>2. Chains(k, D, F) /\ Spot(k[Boot], D, dir, a, p) BY <4>1, <5>1
        <5>3. \/ UNCHANGED <<at, result>> /\ Spot(k[Boot], D, dir', a, p + 1)
              \/ AtClusterEnd(dir) /\ at' = "alloc_next" /\ UNCHANGED <<dir, result>>
              \/ p = TableSize(k[Boot], D) /\ (Refused /\ UNCHANGED dir)
          BY <1>0, <2>0, <4>1, <5>2, SpotNext
        <5> QED BY <2>2, <5>1, <5>3 DEF Refused
      <4>4. CASE UNCHANGED <<at, result>> /\ Spot(Seen[Boot], D, dir', a, p + 1)
        <5>1. p + 1 \in Nat /\ p + 1 - 1 = p BY <4>1
        <5>2. Searching(Seen, D)' BY <1>0, <3>a, <4>1, <4>2, <4>4, <5>1 DEF Searching
        <5> QED BY <4>1, <5>2
      <4>5. CASE AtClusterEnd(dir) /\ at' = "alloc_next" /\ UNCHANGED <<dir, result>>
        <5>2. Searching(Seen, D)' BY <1>0, <3>a, <4>1, <4>2, <4>5 DEF Searching
        <5> QED BY <4>1, <5>2
      <4> QED BY <4>3, <4>4, <4>5
    <3> QED BY <1>0, <2>0, <3>0, <3>1, SearchOn
  <2> QED BY <2>1, <2>2
<1> QED BY <1>4, <1>5

---------------------------------------------------------------------------
(* create_chain.                                                             *)

(* A step that only thinks.                                                  *)
LEMMA Quiet ==
  ASSUME CardInv, Working, at \notin {"copy", "close", "sync"},
         at' \notin Resting \cup {"boot", "fsinfo", "leave", "sync"} \cup SearchPlaces,
         UNCHANGED <<card, win, sdVars, callVars>>, Untouched',
         sound => \E D, F, C, G, l :
                    /\ Work(D, F, C, G, l) /\ DirGrows(Seen, D)' /\ Linking(Seen, D, F)'
                    /\ InTheFile(Seen, F, l)' /\ InTheCluster(F)'
  PROVE  CardInv'
<1>0. at \notin Resting /\ before' = before /\ n' = n /\ Seen' = Seen
  BY DEF Working, callVars, Seen, SeenOn
<1>1. Unwritten' BY DEF Unwritten, SearchPlaces
<1>2. at' \notin RowPlaces \cup {"boot"} BY DEF Resting
<1>3. sound => CardOK(card', before, n) BY DEF CardInv
<1>4. ASSUME sound PROVE Fresh' /\ \E D, F, C, G, l : Work(D, F, C, G, l)'
  <2>1. PICK D, F, C, G, l : /\ Work(D, F, C, G, l) /\ DirGrows(Seen, D)' /\ Linking(Seen, D, F)'
                    /\ InTheFile(Seen, F, l)' /\ InTheCluster(F)'
    BY <1>4
  <2>2. Fresh BY <1>4 DEF CardInv
  <2>3. Fresh' BY <2>2 DEF Fresh
  <2>4. Searching(Seen, D)' BY DEF Searching, SearchPlaces
  <2>5. Work(D, F, C, G, l)' BY <1>0, <2>1, <2>4 DEF Work
  <2> QED BY <2>3, <2>5
<1> QED BY <1>0, <1>1, <1>2, <1>3, <1>4, Onward

(* The file is closed as it is.                                              *)
LEMMA ClosingSound ==
  ASSUME CardInv, InFile, at \notin {"copy", "close"}, at' = "close",
         UNCHANGED <<card, win, sdVars, callVars, done>>,
         fp'.entry = fp.entry, fp'.i = fp.i, fp'.scl = fp.scl, fp'.size = fp.size, fp'.sect = fp.sect
  PROVE  CardInv'
<1>0. /\ at \notin Resting \cup {"boot", "leave", "sync"} /\ before' = before /\ n' = n /\ Seen' = Seen
      /\ Working
  BY DEF Working, callVars, Seen, SeenOn, InFile, Resting, RowPlaces, Chaining
<1>1. Unwritten' /\ Untouched' BY DEF Unwritten, Untouched, Chaining
<1>2. at' \notin RowPlaces \cup {"boot"} BY DEF RowPlaces
<1>3. sound => CardOK(card', before, n) BY DEF CardInv
<1>4. ASSUME sound PROVE Fresh' /\ \E D, F, C, G, l : Work(D, F, C, G, l)'
  <2>1. PICK D, F, C, G, l : Work(D, F, C, G, l) BY <1>0, <1>4 DEF CardInv
  <2>2. Fresh BY <1>0, <1>4 DEF CardInv
  <2>3. Fresh' BY <1>0, <2>2 DEF Fresh
  <2>4. InTheFile(Seen, F, l) BY <2>1 DEF Work
  <2>5. HasText(Seen', F, fp.size, before, n) /\ (win'.dirty => win'.s \in FatSectors \cup {fp.entry, fp.sect})
    BY <1>0, <2>4 DEF InTheFile
  <2>6. /\ Good(Seen', D, F, l, before, n) /\ UnitAt(Seen', l) = UnitAt(Seen, l)
        /\ Good(card', C, G, l, before, n) /\ Pre(C, D) /\ Pre(G, F) /\ Size(card', l) = Len(before)
    BY <1>0, <2>1 DEF Work
  <2>7. Work(D, F, C, G, l)' BY <1>0, <2>1, <2>5, <2>6, Closing
  <2> QED BY <2>3, <2>7
<1> QED BY <1>0, <1>1, <1>2, <1>3, <1>4, Onward

(* What Fails leads to.                                                      *)
LEMMA FailsTo ==
  ASSUME Fails, at \in {"stretch", "seek"}
  PROVE  at' = "leave" \/ (at' = "close" /\ at = "stretch" /\ chain.for = "file")
BY DEF Fails, Close, Chaining

(* dir_next at the end of a cluster.                                         *)
LEMMA NextClusterSound == ASSUME StorageInv, CardInv, NextCluster PROVE CardInv'
<1> DEFINE c == GetFat(dir.c)
<1>0. /\ at \in {"find_next", "alloc_next"} /\ at \notin Resting \cup {"copy", "close", "sync"}
      /\ Wanted \in {Nowhere, win.s} /\ at \in SearchPlaces /\ Working
      /\ UNCHANGED <<card, win, fs, fp, sdVars, callVars, done>>
      /\ before' = before /\ n' = n /\ sound' = sound /\ Wanted = FatOf(dir.c)
  BY WantedAt DEF NextCluster, Here, callVars, sdVars, Resting, RowPlaces, SearchPlaces, Working
<1>1. ~win.dirty /\ Seen = card /\ Seen' = card BY <1>0, SeenIs DEF CardInv, Unwritten, Seen, SeenOn
<1>2. ASSUME sound
      PROVE  \E D, F, C, G, l : \E a, p \in Nat :
                /\ Work(D, F, C, G, l) /\ Struct(Seen, D, F, l) /\ Chains(Seen, D, F)
                /\ Seen[Boot] = "fat32" /\ a \in 1..Len(D) /\ dir.c = D[a] /\ p = a * ClusterUnits
                /\ c = (IF a < Len(D) THEN D[a + 1] ELSE Eoc)
                /\ (at = "find_next" => Unfound(Seen, D, p))
                /\ (at = "alloc_next" => NoReport(Seen) /\ Unfree(Seen, D, p))
  <2>1. PICK D, F, C, G, l : Work(D, F, C, G, l) BY <1>0, <1>2 DEF CardInv
  <2>2. Struct(Seen, D, F, l) /\ Chains(Seen, D, F) BY <2>1 DEF Work, Good, Struct
  <2>3. PICK a \in Nat, p \in Nat : /\ Spot(Seen[Boot], D, dir, a, p) /\ AtClusterEnd(dir)
                /\ (at = "find_next" => Unfound(Seen, D, p))
                /\ (at = "alloc_next" => NoReport(Seen) /\ Unfree(Seen, D, p))
    BY <1>0, <2>1 DEF Work, Searching
  <2>4. D \in Seq(Clusters) BY <2>2 DEF Chains, Leads
  <2>5. Seen[Boot] = "fat32" /\ a \in 1..Len(D) /\ dir.c = D[a] /\ dir.c \in Clusters
    <3>1. dir.c # 0 BY <2>3 DEF AtClusterEnd
    <3> QED BY <2>3, <2>4, <3>1 DEF Spot
  <2>6. p = a * ClusterUnits
    <3>1. PICK u \in Nat \ {0}, h \in Nat \ {0} : u = SectorUnits /\ h = ClusterSectors BY Geometry
    <3>2. p = (a - 1) * (h * u) + (h - 1) * u + u
      BY <2>3, <3>1 DEF Spot, AtClusterEnd, ClusterUnits
    <3>3. (h - 1) * u + u = h * u BY <3>1
    <3>4. PICK w \in Nat : w = h * u BY <3>1
    <3>5. (a - 1) * w + w = a * w BY <3>4
    <3>6. (a - 1) * w \in Int /\ (h - 1) * u \in Int BY <3>1, <3>4
    <3> QED BY <3>1, <3>2, <3>3, <3>4, <3>5, <3>6 DEF ClusterUnits
  <2>7. Fresh BY <1>0, <1>2 DEF CardInv
  <2>8. c = Fat(Seen, D[a])
    <3>1. dir.c \in Clusters /\ Wanted = FatOf(dir.c) BY <1>0, <2>5
    <3>2. GetFat(dir.c) = Fat(Seen, dir.c) BY <1>0, <2>7, <3>1, FatSeen
    <3> QED BY <2>5, <3>2
  <2>9. c = IF a < Len(D) THEN D[a + 1] ELSE Eoc BY <2>2, <2>5, <2>8 DEF Chains, Leads
  <2> QED BY <2>1, <2>2, <2>3, <2>5, <2>6, <2>9
<1> HIDE DEF c
<1>3. \/ Valid(c) /\ dir' = [c |-> c, s |-> 0, i |-> 1]
                  /\ at' = (IF at = "find_next" THEN "find" ELSE "alloc")
      \/ c = Eoc /\ at = "find_next" /\ NotFound
      \/ /\ c = Eoc /\ at = "alloc_next" /\ at' = "stretch"
         /\ chain' = [NoChain EXCEPT !.for = "dir", !.clst = dir.c]
      \/ at' = "leave"
  BY DEF NextCluster, Refused, c
<1>4. CASE Valid(c) /\ dir' = [c |-> c, s |-> 0, i |-> 1] /\ at' = (IF at = "find_next" THEN "find" ELSE "alloc")
  <2>0. at' \in SearchPlaces BY <1>4 DEF SearchPlaces
  <2>1. ASSUME sound PROVE \E D, F, C, G, l : Work(D, F, C, G, l) /\ Searching(Seen, D)'
    <3>1. PICK D, F, C, G, l, a, p : /\ a \in Nat /\ p \in Nat /\ Work(D, F, C, G, l) /\ Chains(Seen, D, F)
                /\ Seen[Boot] = "fat32" /\ a \in 1..Len(D) /\ p = a * ClusterUnits
                /\ c = (IF a < Len(D) THEN D[a + 1] ELSE Eoc)
                /\ (at = "find_next" => Unfound(Seen, D, p))
                /\ (at = "alloc_next" => NoReport(Seen) /\ Unfree(Seen, D, p))
      BY <1>2, <2>1
    <3>2. a < Len(D) /\ c = D[a + 1] BY <1>4, <3>1, Geometry DEF Valid
    <3>3. Len(D) \in Nat BY <3>1 DEF Chains, Leads
    <3>4. dir'.c = D[a + 1] /\ dir'.s = 0 /\ dir'.i = 1 BY <1>4, <3>2
    <3>5. p + 1 = (a + 1 - 1) * ClusterUnits + 0 * SectorUnits + 1
      <4>1. a + 1 - 1 = a /\ 0 * SectorUnits = 0 /\ p + 0 + 1 = p + 1 BY <3>1, Geometry
      <4> QED BY <3>1, <4>1
    <3>6. a + 1 \in Nat \ {0} /\ a + 1 <= Len(D) BY <3>1, <3>2, <3>3
    <3>7. Spot(Seen[Boot], D, dir', a + 1, p + 1) BY <3>1, <3>4, <3>5, <3>6 DEF Spot
    <3>8. p + 1 \in Nat /\ a + 1 \in Nat /\ p + 1 - 1 = p BY <3>1
    <3>9. Searching(Seen, D)' BY <1>0, <1>1, <1>4, <3>1, <3>7, <3>8 DEF Searching
    <3> QED BY <3>1, <3>9
  <2> QED BY <1>0, <2>0, <2>1, SearchOn
<1>5. CASE c = Eoc /\ at = "find_next" /\ NotFound
  <2>0. at' = "alloc" /\ dir' = Top(Seen[Boot]) BY <1>1, <1>5 DEF NotFound
  <2>1. ASSUME sound PROVE \E D, F, C, G, l : Work(D, F, C, G, l) /\ Searching(Seen, D)'
    <3>1. PICK D, F, C, G, l, a, p : /\ a \in Nat /\ p \in Nat /\ Work(D, F, C, G, l)
                /\ Struct(Seen, D, F, l) /\ Chains(Seen, D, F)
                /\ Seen[Boot] = "fat32" /\ a \in 1..Len(D) /\ p = a * ClusterUnits
                /\ c = (IF a < Len(D) THEN D[a + 1] ELSE Eoc)
                /\ (at = "find_next" => Unfound(Seen, D, p))
      BY <1>2, <2>1
    <3>u. Unfound(Seen, D, p) BY <1>5, <3>1
    <3>2. D \in Seq(Clusters) BY <3>1 DEF Chains, Leads
    <3>3. a = Len(D)
      <4>1. ASSUME a < Len(D) PROVE FALSE
        <5>1. a + 1 \in 1..Len(D) BY <3>1, <3>2, <4>1
        <5>2. c \in Clusters BY <3>1, <3>2, <4>1, <5>1
        <5> QED BY <1>5, <5>2, Geometry
      <4> QED BY <3>1, <3>2, <4>1
    <3>4. p = TableSize(Seen[Boot], D) BY <3>1, <3>2, <3>3, TableSectorsAre DEF Kinds
    <3>5. p \in 1..TableSize(Seen[Boot], D)
      <4>1. PICK w \in Nat \ {0} : w = ClusterUnits BY Geometry
      <4>2. a >= 1 BY <3>1
      <4>3. a * w >= 1 BY <3>1, <4>1, <4>2
      <4> QED BY <3>1, <3>4, <4>1, <4>3
    <3>6. NoReport(Seen) BY <3>1, <3>u, <3>4, <3>5, NoneFound
    <3>7. Spot(Seen[Boot], D, dir', 1, 1) /\ Unfree(Seen, D, 0) BY <2>0, <3>1, SpotTop
    <3>8. 1 \in Nat /\ 1 - 1 = 0 OBVIOUS
    <3>9. Searching(Seen, D)' BY <1>1, <2>0, <3>6, <3>7, <3>8 DEF Searching
    <3> QED BY <3>1, <3>9
  <2>2. at' \in SearchPlaces BY <2>0 DEF SearchPlaces
  <2> QED BY <1>0, <2>1, <2>2, SearchOn
<1>6. CASE /\ c = Eoc /\ at = "alloc_next" /\ at' = "stretch"
           /\ chain' = [NoChain EXCEPT !.for = "dir", !.clst = dir.c]
  <2>0. chain'.for = "dir" /\ chain'.clst = dir.c BY <1>6 DEF NoChain
  <2>1. Untouched' BY <1>0, <1>6 DEF CardInv, Untouched
  <2>2. ASSUME sound
        PROVE  \E D, F, C, G, l :
                    /\ Work(D, F, C, G, l) /\ DirGrows(Seen, D)' /\ Linking(Seen, D, F)'
                    /\ InTheFile(Seen, F, l)' /\ InTheCluster(F)'
    <3>1. PICK D, F, C, G, l, a, p : /\ a \in Nat /\ p \in Nat /\ Work(D, F, C, G, l)
                /\ Struct(Seen, D, F, l) /\ Chains(Seen, D, F)
                /\ Seen[Boot] = "fat32" /\ a \in 1..Len(D) /\ p = a * ClusterUnits /\ dir.c = D[a]
                /\ c = (IF a < Len(D) THEN D[a + 1] ELSE Eoc) /\ NoReport(Seen) /\ Unfree(Seen, D, p)
      BY <1>2, <1>6, <2>2
    <3>2. D \in Seq(Clusters) BY <3>1 DEF Chains, Leads
    <3>3. a = Len(D)
      <4>1. ASSUME a < Len(D) PROVE FALSE
        <5>1. a + 1 \in 1..Len(D) BY <3>1, <3>2, <4>1
        <5>2. c \in Clusters BY <3>1, <3>2, <4>1, <5>1
        <5> QED BY <1>6, <5>2, Geometry
      <4> QED BY <3>1, <3>2, <4>1
    <3>4. p = TableSize("fat32", D) BY <3>1, <3>2, <3>3, TableSectorsAre DEF Kinds
    <3>5. DirGrows(Seen, D)' BY <1>1, <1>6, <2>0, <3>1, <3>3, <3>4 DEF DirGrows
    <3>6. Linking(Seen, D, F)' /\ InTheFile(Seen, F, l)' /\ InTheCluster(F)'
      BY <1>6, <2>0 DEF Linking, InTheFile, InTheCluster, InFile, Chaining
    <3> QED BY <3>1, <3>5, <3>6
  <2>3. at' \notin Resting \cup {"boot", "fsinfo", "leave", "sync"} \cup SearchPlaces
    BY <1>6 DEF Resting, RowPlaces, SearchPlaces
  <2> QED BY <1>0, <2>1, <2>2, <2>3, Quiet
<1>7. CASE at' = "leave" BY <1>0, <1>7, Leaving
<1> QED BY <1>3, <1>4, <1>5, <1>6, <1>7

(* Where a boundary of clusters is.                                          *)
LEMMA Boundary ==
  ASSUME NEW x \in Nat \ {0}, NEW w \in Nat \ {0}
  PROVE  /\ x % w = 0 => \E q \in Nat \ {0} : x = q * w /\ x \div w = q /\ (x - 1) \div w = q - 1
         /\ x % w # 0 => (x - 1) \div w = x \div w
<1>1. PICK q \in Nat, r \in 0..(w - 1) : x \div w = q /\ x % w = r /\ x = q * w + r BY Divides
<1>2. PICK y \in Nat : y = x - 1 OBVIOUS
<1>3. CASE r = 0
  <2>1. q # 0 BY <1>1, <1>3
  <2>2. q - 1 \in Int /\ w - 1 \in 0..(w - 1) OBVIOUS
  <2>3. y = (q - 1) * w + (w - 1)
    <3>1. (q - 1) * w = q * w - w OBVIOUS
    <3> QED BY <1>1, <1>2, <1>3, <3>1
  <2>4. y \div w = q - 1 BY <2>2, <2>3, DividedBy, Zenon
  <2> QED BY <1>1, <1>2, <1>3, <2>1, <2>4
<1>4. CASE r # 0
  <2>1. r - 1 \in 0..(w - 1) BY <1>4
  <2>2. y = q * w + (r - 1) BY <1>1, <1>2
  <2>3. q \in Int OBVIOUS
  <2>4. y \div w = q BY <2>1, <2>2, <2>3, DividedBy, Zenon
  <2> QED BY <1>1, <1>2, <1>4, <2>4
<1> QED BY <1>3, <1>4

(* What begins a beginning is a beginning.                                   *)
LEMMA PreTrans ==
  ASSUME NEW a \in Seq(Clusters), NEW b \in Seq(Clusters), NEW c \in Seq(Clusters), Pre(a, b), Pre(b, c)
  PROVE  Pre(a, c)
<1>1. Len(a) \in Nat /\ Len(b) \in Nat /\ Len(c) \in Nat OBVIOUS
<1>2. \A i \in 1..Len(a) : i \in 1..Len(b) BY <1>1 DEF Pre
<1> QED BY <1>1, <1>2 DEF Pre

(* The file has the cluster it goes on in.                                   *)
LEMMA SectorBegins ==
  ASSUME StorageInv, at \in Chaining, chain.for = "file", NEW c, GotCluster(c),
         UNCHANGED <<card, chain, done, before, n>>,
         NEW D, NEW F, NEW C, NEW G, NEW l, Work(D, F, C, G, l), NEW F2, Pre(F, F2),
         fp.ptr < Len(F2) * ClusterUnits, c = F2[1 + fp.ptr \div ClusterUnits], F = <<>> => F2[1] = c,
         Good(Seen', D, F2, l, before, n), HasText(Seen', F2, fp.size, before, n),
         UnitAt(Seen', l) = UnitAt(Seen, l),
         win'.dirty => win'.s \in FatSectors \cup {fp.entry, fp.sect}
  PROVE  Work(D, F2, C, G, l)' /\ at' = "sector"
<1>0. InFile /\ at \notin {"seek", "close", "sync"} BY DEF InFile, Chaining
<1>1. InTheFile(Seen, F, l) /\ Good(Seen, D, F, l, before, n) /\ Good(card, C, G, l, before, n)
      /\ Pre(C, D) /\ Pre(G, F)
  BY DEF Work
<1>2. /\ F \in Seq(Clusters) /\ F2 \in Seq(Clusters) /\ G \in Seq(Clusters)
      /\ Len(F) \in Nat /\ Len(F2) \in Nat
  BY <1>1 DEF Good, Struct, Chains, Leads
<1>3. /\ fp' = [entry |-> fp.entry, i |-> fp.i, scl |-> IF fp.scl = 0 THEN c ELSE fp.scl,
                size |-> fp.size, ptr |-> fp.ptr, c |-> c, sect |-> fp.sect,
                modified |-> fp.modified]
      /\ at' = "sector"
  BY DEF GotCluster, StorageInv, FileIs
<1>4. /\ fp'.entry = fp.entry /\ fp'.i = fp.i /\ fp'.scl = (IF fp.scl = 0 THEN c ELSE fp.scl)
      /\ fp'.size = fp.size /\ fp'.ptr = fp.ptr /\ fp'.c = c /\ fp'.sect = fp.sect
  BY <1>3
<1>5. fp.ptr \in Nat /\ fp.size \in Nat BY <1>0 DEF StorageInv, FileIs
<1>6. F2 # <<>>
  <2>1. Len(F2) # 0 BY <1>2, <1>5, Geometry
  <2> QED BY <2>1
<1>7. fp'.scl = IF F2 = <<>> THEN 0 ELSE F2[1]
  <2>1. CASE F = <<>> BY <1>0, <1>1, <1>4, <1>6, <2>1 DEF InTheFile
  <2>2. CASE F # <<>>
    <3>1. Len(F) \in Nat \ {0} BY <1>2, <2>2, EmptySeq
    <3>2. fp.scl = F[1] /\ F[1] \in Clusters /\ F2[1] = F[1]
      BY <1>0, <1>1, <1>2, <2>2, <3>1 DEF InTheFile, Pre
    <3> QED BY <1>4, <1>6, <3>2, Geometry
  <2> QED BY <2>1, <2>2
<1>8. fp.size <= Len(F2) * ClusterUnits
  <2>1. fp.size <= Len(F) * ClusterUnits BY <1>0, <1>1 DEF InTheFile
  <2>2. Len(F) * ClusterUnits <= Len(F2) * ClusterUnits /\ Len(F) * ClusterUnits \in Nat
        /\ Len(F2) * ClusterUnits \in Nat
    BY <1>2, PrePlaces
  <2> QED BY <1>5, <2>1, <2>2
<1>9. InTheFile(Seen, F2, l)' BY <1>0, <1>1, <1>3, <1>4, <1>7, <1>8 DEF InTheFile
<1>10. InTheCluster(F2)' BY <1>3, <1>4 DEF InTheCluster, Chaining
<1>11. Searching(Seen, D)' /\ DirGrows(Seen, D)' /\ Linking(Seen, D, F2)'
  BY <1>3 DEF Searching, DirGrows, Linking, Chaining
<1>12. Pre(G, F2) BY <1>1, <1>2, PreTrans
<1>13. Size(Seen', l) = Len(before) /\ Size(card', l) = Len(before)
  BY <1>0 DEF Work, Size
<1> QED BY <1>1, <1>3, <1>9, <1>10, <1>11, <1>12, <1>13 DEF Work

(* No cluster is free.                                                       *)
LEMMA NoRoomSound ==
  ASSUME StorageInv, CardInv, at \in Chaining, NoRoom, UNCHANGED <<card, win, sdVars, callVars, done>>
  PROVE  CardInv'
<1>1. CASE chain.for = "dir"
  <2>1. at' = "leave" /\ at \notin Resting BY <1>1 DEF NoRoom, Refused, Chaining, Resting, RowPlaces
  <2> QED BY <2>1, Leaving
<1>2. CASE chain.for # "dir"
  <2>1. chain.for = "file" BY <1>2 DEF StorageInv, ChainIs
  <2>2. fp' = [entry |-> fp.entry, i |-> fp.i, scl |-> fp.scl, size |-> fp.size,
                   ptr |-> fp.ptr, c |-> fp.c, sect |-> fp.sect, modified |-> TRUE]
    BY <1>2 DEF NoRoom, StorageInv, FileIs
  <2>3. InFile /\ at' = "close" /\ at \notin {"copy", "close"} BY <1>2, <2>1 DEF NoRoom, InFile, Chaining
  <2> QED BY <2>2, <2>3, ClosingSound
<1> QED BY <1>1, <1>2

(* The end that is to be stretched, if it is one.                            *)
LEMMA StretchSees ==
  ASSUME StorageInv, at \in {"stretch", "probe", "hunt", "mark", "link"}, chain.for = "file", chain.clst # 0,
         NEW D, NEW F, NEW C, NEW G, NEW l, Work(D, F, C, G, l)
  PROVE  \E q \in 1..Len(F) :
            /\ fp.ptr = q * ClusterUnits /\ chain.clst = F[q] /\ fp.ptr \div ClusterUnits = q
            /\ Fat(Seen, chain.clst) = IF q < Len(F) THEN F[q + 1] ELSE Eoc
            /\ at # "stretch" => q = Len(F)
<1>0. InFile /\ at \notin {"seek", "close"} /\ at \in Chaining BY DEF InFile, Chaining
<1>1. InTheFile(Seen, F, l) /\ InTheCluster(F) BY DEF Work
<1>2. F \in Seq(Clusters) /\ Len(F) \in Nat /\ Leads(Seen, F) BY DEF Work, Good, Struct, Chains, Leads
<1>3. fp.ptr \in Nat /\ fp.ptr = fp.size /\ fp.size <= Len(F) * ClusterUnits
  BY <1>0, <1>1 DEF InTheFile, StorageInv, FileIs
<1>4. /\ fp.ptr > 0 /\ fp.ptr % ClusterUnits = 0 /\ chain.clst = F[fp.ptr \div ClusterUnits]
      /\ at # "stretch" => fp.ptr = Len(F) * ClusterUnits
  BY <1>0, <1>1 DEF InTheCluster
<1>5. PICK w \in Nat \ {0} : w = ClusterUnits BY Geometry
<1>6. PICK x \in Nat \ {0} : x = fp.ptr BY <1>3, <1>4
<1>7. PICK q \in Nat \ {0} : x = q * w /\ x \div w = q
  <2>1. x % w = 0 BY <1>4, <1>5, <1>6
  <2> QED BY <2>1, Boundary
<1>8. PICK h \in Nat : h = Len(F) BY <1>2
<1>9. q <= h
  <2> SUFFICES ASSUME q > h PROVE FALSE OBVIOUS
  <2>1. (q - h - 1) * w >= 0 OBVIOUS
  <2>2. (q - h - 1) * w = q * w - h * w - w OBVIOUS
  <2>3. q * w <= h * w BY <1>3, <1>5, <1>6, <1>7, <1>8
  <2> QED BY <2>1, <2>2, <2>3
<1>10. at # "stretch" => q = h
  <2> SUFFICES ASSUME at # "stretch" PROVE q = h OBVIOUS
  <2>1. q * w = h * w BY <1>4, <1>5, <1>6, <1>7, <1>8
  <2>2. (h - q) * w = h * w - q * w OBVIOUS
  <2>3. (h - q) * w = 0 BY <2>1, <2>2
  <2>4. PICK d \in Int : d = h - q OBVIOUS
  <2>5. d * w = 0 BY <2>3, <2>4
  <2>6. d * w < w /\ d * w > -w BY <2>5
  <2>7. d = 0 BY <2>6, Small
  <2> QED BY <2>4, <2>7
<1>11. q \in 1..h BY <1>7, <1>9
<1>12. chain.clst = F[q] BY <1>4, <1>5, <1>6, <1>7
<1>13. Fat(Seen, F[q]) = IF q < Len(F) THEN F[q + 1] ELSE Eoc BY <1>2, <1>8, <1>11 DEF Leads
<1> QED BY <1>5, <1>6, <1>7, <1>8, <1>10, <1>11, <1>12, <1>13

(* In create_chain the file system is at work, and no file is looked for.    *)
LEMMA ChainWorking ==
  ASSUME at \in Chaining
  PROVE  /\ Working /\ at \notin Resting /\ at \notin {"copy", "close", "sync", "seek", "clear"}
         /\ at \notin {"boot", "leave"} \cup SearchPlaces
BY DEF Working, Resting, RowPlaces, SearchPlaces, Chaining

(* The search for a cluster goes on.                                         *)
LEMMA ThinkOn ==
  ASSUME StorageInv, CardInv, at \in Chaining, at' \in {"probe", "hunt", "mark"},
         UNCHANGED <<card, win, fp, sdVars, callVars, done>>,
         chain'.for = chain.for, chain'.clst = chain.clst,
         at' = "probe" => chain.clst # 0,
         at = "stretch" /\ sound => \A D, F, C, G, l :
            Work(D, F, C, G, l) /\ chain.for = "file" => chain.clst # 0 /\ Fat(Seen, chain.clst) = Eoc,
         at' = "mark" /\ sound => Fat(Seen, chain'.ncl) = 0
  PROVE  CardInv'
<1>0. Seen' = Seen /\ before' = before /\ n' = n /\ done' = done /\ fp' = fp
  BY DEF Seen, SeenOn, callVars
<1>1. at' \in Chaining /\ at' \notin {"copy", "seek", "close", "sector", "write", "clear", "link", "stretch"}
  BY DEF Chaining
<1>2. at' \notin Resting \cup {"boot", "fsinfo", "leave", "sync"} \cup SearchPlaces
  BY DEF Resting, RowPlaces, SearchPlaces
<1>3. Untouched' BY <1>0, <1>1 DEF CardInv, Untouched
<1>4. ASSUME sound
      PROVE  \E D, F, C, G, l :
                    /\ Work(D, F, C, G, l) /\ DirGrows(Seen, D)' /\ Linking(Seen, D, F)'
                    /\ InTheFile(Seen, F, l)' /\ InTheCluster(F)'
  <2>1. PICK D, F, C, G, l : Work(D, F, C, G, l) BY <1>4, ChainWorking DEF CardInv
  <2>2. DirGrows(Seen, D)' BY <1>0, <1>1, <2>1, ChainWorking DEF Work, DirGrows
  <2>3. Linking(Seen, D, F)' BY <1>0, <1>1, <1>4 DEF Linking
  <2>4. InTheFile(Seen, F, l)'
    <3>1. InFile' => InFile BY <1>1 DEF InFile
    <3>2. InTheFile(Seen, F, l) BY <2>1 DEF Work
    <3> QED BY <1>0, <1>1, <3>1, <3>2, ChainWorking DEF InTheFile
  <2>5. InTheCluster(F)'
    <3>1. InTheCluster(F) BY <2>1 DEF Work
    <3>2. CASE chain.for = "file" /\ chain.clst # 0
      <4>1. PICK q \in 1..Len(F) : /\ fp.ptr = q * ClusterUnits /\ chain.clst = F[q]
               /\ Fat(Seen, chain.clst) = (IF q < Len(F) THEN F[q + 1] ELSE Eoc)
               /\ (at # "stretch" => q = Len(F))
        <5>1. at \in {"stretch", "probe", "hunt", "mark", "link"} BY DEF Chaining
        <5> QED BY <2>1, <3>2, <5>1, StretchSees
      <4>2. F \in Seq(Clusters) BY <2>1 DEF Work, Good, Struct, Chains, Leads
      <4>3. q = Len(F)
        <5>1. ASSUME q < Len(F), at = "stretch" PROVE FALSE
          <6>1. q + 1 \in 1..Len(F) BY <4>1, <4>2, <5>1
          <6>2. Fat(Seen, chain.clst) \in Clusters BY <4>1, <4>2, <5>1, <6>1
          <6> QED BY <1>4, <2>1, <3>2, <5>1, <6>2, Geometry
        <5> QED BY <4>1, <4>2, <5>1
      <4>4. fp.ptr = Len(F) * ClusterUnits BY <4>1, <4>3
      <4>5. fp.ptr > 0 /\ fp.ptr % ClusterUnits = 0 /\ chain.clst = F[fp.ptr \div ClusterUnits]
        BY <3>1, <3>2 DEF InTheCluster
      <4> QED BY <1>0, <1>1, <3>2, <4>4, <4>5 DEF InTheCluster
    <3>3. CASE chain.for = "file" /\ chain.clst = 0
      <4>1. fp.ptr = 0 /\ F = <<>> BY <3>1, <3>3 DEF InTheCluster
      <4> QED BY <1>0, <1>1, <3>3, <4>1 DEF InTheCluster
    <3>4. CASE chain.for # "file" BY <1>1, <3>4 DEF InTheCluster
    <3> QED BY <3>2, <3>3, <3>4
  <2> QED BY <2>1, <2>2, <2>3, <2>4, <2>5
<1> QED BY <1>2, <1>3, <1>4, ChainWorking, Quiet

(* create_chain looks at the end of the chain and writes nothing.            *)
LEMMA StretchSound == ASSUME StorageInv, CardInv, Stretch PROVE CardInv'
<1> DEFINE cs == GetFat(chain.clst)
           next == IF Valid(chain.clst + 1) THEN chain.clst + 1 ELSE 2
<1>0. /\ at = "stretch" /\ at \in Chaining
      /\ Wanted = FatOf(chain.clst) /\ Wanted \in {Nowhere, win.s}
      /\ UNCHANGED <<card, win, dir, sdVars, callVars, done>> /\ before' = before /\ n' = n
      /\ sound' = sound /\ chain.for \in {"file", "dir"}
  BY WantedAt DEF Stretch, Here, sdVars, callVars, Chaining, StorageInv, ChainIs
<1>a. Seen' = Seen BY <1>0 DEF Seen, SeenOn
<1>1. cs \in {1} \cup FatEntries /\ (cs # 1 => chain.clst \in Clusters) BY <1>0, FatHere
<1>2. sound /\ chain.clst \in Clusters => cs = Fat(Seen, chain.clst)
  <2>1. sound => Fresh BY <1>0, ChainWorking DEF CardInv
  <2> QED BY <1>0, <2>1, FatSeen
<1>3. \/ Fails /\ UNCHANGED <<fp, chain>>
      \/ Valid(cs) /\ GotCluster(cs) /\ UNCHANGED <<chain, locked>>
      \/ NoRoom /\ UNCHANGED <<chain, locked>>
      \/ /\ cs = Eoc /\ chain' = [chain EXCEPT !.scl = chain.clst, !.ncl = next]
         /\ at' = "probe" /\ UNCHANGED <<fp, result, locked>>
  BY DEF Stretch
<1> HIDE DEF cs, next
<1>5. CASE Fails /\ UNCHANGED <<fp, chain>>
  <2>1. CASE at' = "leave" BY <1>0, <2>1, ChainWorking, Leaving
  <2>2. CASE at' = "close" /\ chain.for = "file"
    <3>1. InFile BY <1>0, <2>2 DEF InFile
    <3> QED BY <1>0, <1>5, <2>2, <3>1, ClosingSound
  <2> QED BY <1>0, <1>5, <2>1, <2>2, FailsTo
<1>6. CASE Valid(cs) /\ GotCluster(cs) /\ UNCHANGED <<chain, locked>>
  <2>0. chain.clst \in Clusters /\ cs \in Clusters BY <1>1, <1>6, Geometry DEF Valid
  <2>1. at' = (IF chain.for = "dir" THEN "clear" ELSE "sector") BY <1>6 DEF GotCluster
  <2>2. ASSUME sound, chain.for = "dir" PROVE FALSE
    <3>1. PICK D, F, C, G, l : Work(D, F, C, G, l) BY <1>0, <2>2, ChainWorking DEF CardInv
    <3>2. Seen[Boot] = "fat32" /\ chain.clst = D[Len(D)] /\ Chains(Seen, D, F)
      BY <1>0, <2>2, <3>1 DEF Work, DirGrows, Good, Struct
    <3>3. D \in Seq(Clusters) /\ D # <<>> BY <3>2 DEF Chains, Leads
    <3>4. Len(D) \in 1..Len(D) /\ ~(Len(D) < Len(D)) BY <3>3, EmptySeq
    <3>5. Fat(Seen, D[Len(D)]) = Eoc BY <3>2, <3>4 DEF Chains, Leads
    <3> QED BY <1>2, <2>0, <2>2, <3>2, <3>5, Geometry
  <2>3. ASSUME sound, chain.for = "file" PROVE \E D, F, C, G, l : Work(D, F, C, G, l)'
    <3>1. PICK D, F, C, G, l : Work(D, F, C, G, l) BY <1>0, <2>3, ChainWorking DEF CardInv
    <3>2. F \in Seq(Clusters) /\ Len(F) \in Nat BY <3>1 DEF Work, Good, Struct, Chains, Leads
    <3>3. PICK q \in 1..Len(F) : /\ fp.ptr = q * ClusterUnits /\ fp.ptr \div ClusterUnits = q
               /\ Fat(Seen, chain.clst) = (IF q < Len(F) THEN F[q + 1] ELSE Eoc)
      BY <1>0, <2>0, <2>3, <3>1, Geometry, StretchSees
    <3>4. q < Len(F) /\ cs = F[q + 1] BY <1>2, <2>0, <2>3, <3>3, Geometry
    <3>5. fp.ptr < Len(F) * ClusterUnits
      <4>1. PICK w \in Nat \ {0}, h \in Nat : w = ClusterUnits /\ h = Len(F) BY <3>2, Geometry
      <4>2. (h - q - 1) * w >= 0 BY <3>4, <4>1
      <4>3. (h - q - 1) * w = h * w - q * w - w BY <4>1
      <4>4. q * w \in Int /\ h * w \in Int BY <4>1
      <4> QED BY <3>3, <4>1, <4>2, <4>3, <4>4
    <3>6. cs = F[1 + fp.ptr \div ClusterUnits]
      <4>1. 1 + q = q + 1 BY <3>3
      <4> QED BY <3>3, <3>4, <4>1
    <3>7. F # <<>> BY <3>2, <3>3
    <3>8. Good(Seen', D, F, l, before, n) /\ HasText(Seen', F, fp.size, before, n)
          /\ (win'.dirty => win'.s \in FatSectors \cup {fp.entry, fp.sect})
      <4>1. InFile BY <1>0, <2>3 DEF InFile
      <4> QED BY <1>0, <1>a, <3>1, <4>1 DEF Work, InTheFile
    <3>9. Pre(F, F) BY <3>2, PreSelf
    <3>10. Work(D, F, C, G, l)'
      <4>1. UnitAt(Seen', l) = UnitAt(Seen, l) BY <1>a
      <4> QED BY <1>0, <1>6, <2>3, <3>1, <3>5, <3>6, <3>7, <3>8, <3>9, <4>1, SectorBegins
    <3> QED BY <3>10
  <2>4. Unwritten' BY <2>1 DEF Unwritten
  <2>5. Untouched' BY <1>0, <2>1 DEF CardInv, Untouched, Chaining
  <2>6. at' \notin RowPlaces \cup {"boot"} BY <2>1 DEF RowPlaces
  <2>7. sound => CardOK(card', before, n) BY <1>0 DEF CardInv
  <2>8. ASSUME sound PROVE Fresh'
    <3>1. Fresh BY <1>0, <2>8, ChainWorking DEF CardInv
    <3> QED BY <1>0, <3>1 DEF Fresh
  <2> QED BY <1>0, <2>2, <2>3, <2>4, <2>5, <2>6, <2>7, <2>8, ChainWorking, Onward
<1>7. CASE NoRoom /\ UNCHANGED <<chain, locked>> BY <1>0, <1>7, NoRoomSound
<1>8. CASE /\ cs = Eoc /\ chain' = [chain EXCEPT !.scl = chain.clst, !.ncl = next]
           /\ at' = "probe" /\ UNCHANGED <<fp, result, locked>>
  <2>1. chain' = [for |-> chain.for, clst |-> chain.clst, scl |-> chain.clst, ncl |-> next]
    BY <1>8 DEF StorageInv, ChainIs
  <2>2. chain'.for = chain.for /\ chain'.clst = chain.clst BY <2>1
  <2>3. cs # 1 BY <1>8, StorageAssumption DEF Eoc
  <2>4. chain.clst \in Clusters /\ chain.clst # 0 BY <1>1, <2>3, Geometry
  <2>5. sound => Fat(Seen, chain.clst) = Eoc BY <1>2, <1>8, <2>4
  <2> QED BY <1>0, <1>8, <2>2, <2>4, <2>5, ThinkOn
<1> QED BY <1>3, <1>5, <1>6, <1>7, <1>8

(* The search for a free cluster.                                            *)
LEMMA HuntSound == ASSUME StorageInv, CardInv, Probe \/ Hunt PROVE CardInv'
<1>0. /\ at \in {"probe", "hunt"} /\ at \in Chaining /\ chain.ncl \in Clusters
      /\ Wanted = FatOf(chain.ncl) /\ Wanted \in {Nowhere, win.s}
      /\ UNCHANGED <<card, win, dir, sdVars, callVars, done>>
  BY WantedAt DEF Probe, Hunt, Here, sdVars, callVars, Chaining, StorageInv, ChainIs
<1>1. sound => GetFat(chain.ncl) = Fat(Seen, chain.ncl)
  <2>1. sound => Fresh BY <1>0, ChainWorking DEF CardInv
  <2> QED BY <1>0, <2>1, FatSeen
<1>2. \/ GetFat(chain.ncl) = 0 /\ at' = "mark" /\ UNCHANGED <<fp, chain>>
      \/ NoRoom
      \/ \E scl, ncl \in Clusters \cup {chain.scl, chain.ncl, fs.last} : HuntFrom(scl, ncl)
  BY DEF Probe, Hunt
<1>3. CASE GetFat(chain.ncl) = 0 /\ at' = "mark" /\ UNCHANGED <<fp, chain>>
  <2>1. at # "stretch" /\ chain'.for = chain.for /\ chain'.clst = chain.clst /\ chain'.ncl = chain.ncl
    BY <1>0, <1>3
  <2> QED BY <1>0, <1>1, <1>3, <2>1, ThinkOn
<1>4. CASE NoRoom BY <1>0, <1>4, NoRoomSound
<1>5. CASE \E scl, ncl \in Clusters \cup {chain.scl, chain.ncl, fs.last} : HuntFrom(scl, ncl)
  <2>1. PICK scl, ncl \in Clusters \cup {chain.scl, chain.ncl, fs.last} : HuntFrom(scl, ncl) BY <1>5
  <2>2. PICK next : NoRoom \/ (/\ chain' = [chain EXCEPT !.scl = scl, !.ncl = next] /\ at' = "hunt"
                               /\ UNCHANGED <<fp, result>>)
    BY <2>1 DEF HuntFrom
  <2>3. CASE NoRoom BY <1>0, <2>3, NoRoomSound
  <2>4. CASE /\ chain' = [chain EXCEPT !.scl = scl, !.ncl = next] /\ at' = "hunt"
             /\ UNCHANGED <<fp, result>>
    <3>1. chain' = [for |-> chain.for, clst |-> chain.clst, scl |-> scl, ncl |-> next]
      BY <2>4 DEF StorageInv, ChainIs
    <3>2. chain'.for = chain.for /\ chain'.clst = chain.clst BY <3>1
    <3> QED BY <1>0, <2>4, <3>2, ThinkOn
  <2> QED BY <2>2, <2>3, <2>4
<1> QED BY <1>2, <1>3, <1>4, <1>5

(* A cluster is put at the end of a chain.                                   *)
LEMMA AppendIs ==
  ASSUME NEW cs \in Seq(Clusters), NEW c \in Clusters
  PROVE  /\ Append(cs, c) \in Seq(Clusters) /\ Len(cs) \in Nat /\ Len(Append(cs, c)) = Len(cs) + 1
         /\ Append(cs, c)[Len(cs) + 1] = c /\ Append(cs, c) # <<>>
OBVIOUS

(* Once a change in the FAT is in the window.                                *)
LEMMA ChainChanges ==
  ASSUME StorageInv, CardInv, at \in {"mark", "link"}, NEW c, NEW v, Change(c, v),
         UNCHANGED <<card, chain, sdVars, callVars, done>>, at' \in {"link", "clear", "sector"},
         at' = "clear" => chain.for = "dir", sound => \E D, F, C, G, l : Work(D, F, C, G, l)'
  PROVE  CardInv'
<1>1. win'.dirty BY ChangedTo
<1>2. at \in Chaining BY DEF Chaining
<1>3. Fresh' /\ Unwritten' BY <1>1 DEF Fresh, Unwritten
<1>4. Untouched'
  <2>1. chain.for = "dir" => done = 0 BY <1>2 DEF CardInv, Untouched
  <2> QED BY <2>1 DEF Untouched
<1>5. at' \notin RowPlaces \cup {"boot"} BY DEF RowPlaces
<1>6. sound => CardOK(card', before, n) BY DEF CardInv
<1> QED BY <1>2, <1>3, <1>4, <1>5, <1>6, ChainWorking, Onward

(* The cluster that was found free is the end of a chain of its own.         *)
LEMMA MarkSound == ASSUME StorageInv, CardInv, Mark PROVE CardInv'
<1>0. /\ at = "mark" /\ at \in Chaining /\ chain.ncl \in Clusters
      /\ chain.clst \in {0} \cup Clusters /\ chain.for \in {"file", "dir"}
      /\ Wanted = FatOf(chain.ncl) /\ Wanted \in {Nowhere, win.s}
      /\ Change(chain.ncl, Eoc)
      /\ UNCHANGED <<card, dir, chain, sdVars, callVars, done>> /\ before' = before /\ n' = n
      /\ chain' = chain /\ done' = done
  BY WantedAt DEF Mark, Here, sdVars, callVars, Chaining, StorageInv, ChainIs
<1>1. IF chain.clst = 0 THEN GotCluster(chain.ncl) ELSE at' = "link" /\ UNCHANGED fp
  BY DEF Mark
<1>2. at' \in {"link", "clear", "sector"} /\ (at' = "clear" => chain.for = "dir")
  BY <1>1 DEF GotCluster
<1>3. ASSUME sound PROVE \E D, F, C, G, l : Work(D, F, C, G, l)'
  <2>1. PICK D, F, C, G, l : Work(D, F, C, G, l) BY <1>0, <1>3, ChainWorking DEF CardInv
  <2>2. Fresh BY <1>0, <1>3, ChainWorking DEF CardInv
  <2>3. win.s = FatSector(chain.ncl) /\ win.data = Seen[win.s] /\ win.s \in FatSectors
    BY <1>0, <2>2, FatSeen
  <2>4. /\ SameText(Seen, Seen') /\ Seen'[Boot] = Seen[Boot]
        /\ \A x \in Clusters : Fat(Seen', x) = (IF x = chain.ncl THEN Eoc ELSE Fat(Seen, x))
        /\ win'.s = win.s /\ win'.dirty
    BY <1>0, <2>3, FatChanged
  <2>5. PICK k : k = Seen OBVIOUS
  <2>6. PICK h : h = Seen' OBVIOUS
  <2>7. PICK b : b = before OBVIOUS
  <2>8. PICK m : m = n OBVIOUS
  <2>9. Good(k, D, F, l, b, m) /\ Chains(k, D, F) /\ l \in Places
    BY <2>1, <2>5, <2>7, <2>8 DEF Work, Good, Struct
  <2>10. D \in Seq(Clusters) /\ F \in Seq(Clusters) /\ Pre(D, D) /\ Pre(F, F)
    BY <2>9, PreSelf DEF Chains, Leads
  <2>11. PICK c \in Clusters : c = chain.ncl BY <1>0
  <2>12. /\ SameText(k, h) /\ h[Boot] = k[Boot] /\ Fat(k, c) = 0
         /\ \A x \in Clusters : Fat(h, x) = (IF x = c THEN Eoc ELSE Fat(k, x))
    BY <1>0, <2>1, <2>4, <2>5, <2>6, <2>11 DEF Work, Linking
  <2>13. Chains(h, D, F) /\ Alone(D, F, c) /\ (F = <<>> => Chains(h, D, <<c>>))
    BY <2>9, <2>12, ChainsMarked
  <2>14. UnitAt(Seen', l) = UnitAt(Seen, l) BY <2>4, <2>9 DEF SameText
  <2>15. Good(card', C, G, l, before, n) /\ Pre(C, D) /\ Pre(G, F) BY <1>0, <2>1 DEF Work
  <2>16. CASE chain.clst = 0
    <3>1. chain.for = "file"
      <4> SUFFICES ASSUME chain.for = "dir" PROVE FALSE BY <1>0
      <4>1. chain.clst = D[Len(D)] /\ k[Boot] = "fat32" BY <1>0, <2>1, <2>5 DEF Work, DirGrows
      <4>2. D # <<>> BY <2>9, <4>1 DEF Chains
      <4>3. D[Len(D)] \in Clusters
        <5>1. Len(D) \in 1..Len(D) BY <2>10, <4>2, EmptySeq
        <5> QED BY <2>10, <5>1
      <4> QED BY <2>16, <4>1, <4>3, Geometry
    <3>2. fp.ptr = 0 /\ F = <<>> BY <1>0, <2>1, <2>16, <3>1 DEF Work, InTheCluster
    <3>3. <<c>> \in Seq(Clusters) /\ Len(<<c>>) = 1 /\ <<c>>[1] = c /\ Pre(F, <<c>>)
      BY <3>2 DEF Pre
    <3>4. /\ Good(h, D, <<c>>, l, b, m)
          /\ \A z \in Nat : z <= Len(F) * ClusterUnits /\ HasText(k, F, z, b, m) => HasText(h, <<c>>, z, b, m)
      <4>1. Grown(b, m, k, h, D, F, D, <<c>>, l) BY <2>9, <2>10, <2>12, <2>13, <3>2, <3>3, GoodGrown, Zenon
      <4> QED BY <4>1 DEF Grown
    <3>5. InFile /\ fp.size \in Nat BY <1>0, <3>1 DEF InFile, StorageInv, FileIs
    <3>6. HasText(h, <<c>>, fp.size, b, m)
      <4>1. fp.size <= Len(F) * ClusterUnits /\ HasText(k, F, fp.size, b, m)
        BY <1>0, <2>1, <2>5, <2>7, <2>8, <3>5 DEF Work, InTheFile
      <4> QED BY <3>4, <3>5, <4>1
    <3>7. fp.ptr < Len(<<c>>) * ClusterUnits BY <3>2, <3>3, Geometry
    <3>8. c = <<c>>[1 + fp.ptr \div ClusterUnits]
      <4>1. PICK w \in Nat \ {0} : w = ClusterUnits BY Geometry
      <4>2. 0 \div w = 0 OBVIOUS
      <4> QED BY <3>2, <3>3, <4>1, <4>2
    <3>9. GotCluster(c) BY <1>1, <2>11, <2>16
    <3>10. Good(Seen', D, <<c>>, l, before, n) /\ HasText(Seen', <<c>>, fp.size, before, n)
      BY <2>6, <2>7, <2>8, <3>4, <3>6
    <3>11. win'.dirty => win'.s \in FatSectors \cup {fp.entry, fp.sect} BY <2>3, <2>4
    <3>12. Work(D, <<c>>, C, G, l)'
      BY <1>0, <2>1, <2>14, <3>1, <3>3, <3>7, <3>8, <3>9, <3>10, <3>11, SectorBegins
    <3> QED BY <3>12
  <2>17. CASE chain.clst # 0
    <3>1. at' = "link" /\ fp' = fp BY <1>1, <2>17
    <3>2. /\ Good(h, D, F, l, b, m) /\ Size(h, l) = Size(k, l)
          /\ \A z \in Nat : z <= Len(F) * ClusterUnits /\ HasText(k, F, z, b, m) => HasText(h, F, z, b, m)
          /\ \A p \in 1..TableSize(k[Boot], D) : TableUnit(h, D, p) = TableUnit(k, D, p)
      <4>1. /\ Good(k, D, F, l, b, m) /\ Chains(h, D, F) /\ SameText(k, h) /\ h[Boot] = k[Boot]
            /\ Pre(D, D) /\ Pre(F, F)
        BY <2>9, <2>10, <2>12, <2>13
      <4>2. Grown(b, m, k, h, D, F, D, F, l) BY <4>1, GoodGrown, Zenon
      <4> QED BY <4>2 DEF Grown
    <3>3. Good(Seen', D, F, l, before, n) BY <2>6, <2>7, <2>8, <3>2
    <3>4. Size(Seen', l) = Len(before) /\ Size(card', l) = Len(before)
      BY <1>0, <2>1, <2>5, <2>6, <3>2 DEF Work
    <3>5. Searching(Seen, D)' BY <3>1 DEF Searching
    <3>6. Linking(Seen, D, F)' BY <1>0, <2>4, <2>11, <2>13, <3>1 DEF Linking
    <3>7. DirGrows(Seen, D)'
      <4>1. CASE chain.for = "dir"
        <5>1. k[Boot] = "fat32" /\ NoReport(k) /\ chain.clst = D[Len(D)] /\ Unfree(k, D, TableSize("fat32", D))
          BY <1>0, <2>1, <2>5, <4>1 DEF Work, DirGrows
        <5>2. h[Boot] = "fat32" /\ NoReport(h) BY <2>12, <5>1 DEF NoReport, SameText
        <5>3. Unfree(h, D, TableSize("fat32", D)) BY <3>2, <5>1 DEF Unfree
        <5> QED BY <1>0, <2>6, <3>1, <5>1, <5>2, <5>3 DEF DirGrows
      <4>2. CASE chain.for # "dir" BY <1>0, <3>1, <4>2 DEF DirGrows
      <4> QED BY <4>1, <4>2
    <3>8. InTheFile(Seen, F, l)'
      <4>1. InFile' => InFile /\ at' # "seek" /\ at' # "close" BY <1>0, <3>1 DEF InFile, Chaining
      <4>2. SUFFICES ASSUME InFile PROVE InTheFile(Seen, F, l)' BY <4>1 DEF InTheFile
      <4>3. InTheFile(Seen, F, l) /\ fp.size \in Nat BY <2>1, <4>2 DEF Work, StorageInv, FileIs
      <4>4. HasText(Seen', F, fp.size, before, n)
        <5>1. fp.size <= Len(F) * ClusterUnits /\ HasText(k, F, fp.size, b, m)
          BY <2>5, <2>7, <2>8, <4>2, <4>3 DEF InTheFile
        <5> QED BY <2>6, <2>7, <2>8, <3>2, <4>3, <5>1
      <4> QED BY <1>0, <2>3, <2>4, <2>14, <3>1, <4>1, <4>2, <4>3, <4>4 DEF InTheFile
    <3>9. InTheCluster(F)'
      <4>1. InTheCluster(F) BY <2>1 DEF Work
      <4>2. at' \in Chaining BY <3>1 DEF Chaining
      <4>3. chain.clst = 0 => FALSE BY <2>17
      <4> QED BY <1>0, <2>17, <3>1, <4>1, <4>2 DEF InTheCluster
    <3>10. Work(D, F, C, G, l)' BY <1>0, <2>15, <3>1, <3>3, <3>4, <3>5, <3>6, <3>7, <3>8, <3>9 DEF Work
    <3> QED BY <3>10
  <2> QED BY <2>16, <2>17
<1> QED BY <1>0, <1>2, <1>3, ChainChanges

(* It is linked to the end of the chain that grows.                          *)
LEMMA LinkSound == ASSUME StorageInv, CardInv, Link PROVE CardInv'
<1>0. /\ at = "link" /\ at \in Chaining /\ chain.ncl \in Clusters
      /\ chain.clst \in Clusters /\ chain.for \in {"file", "dir"}
      /\ Wanted = FatOf(chain.clst) /\ Wanted \in {Nowhere, win.s}
      /\ Change(chain.clst, chain.ncl) /\ GotCluster(chain.ncl)
      /\ UNCHANGED <<card, dir, chain, sdVars, callVars, done>> /\ before' = before /\ n' = n
      /\ chain' = chain /\ done' = done
  BY WantedAt DEF Link, Here, sdVars, callVars, Chaining, StorageInv, ChainIs
<1>2. at' \in {"link", "clear", "sector"} /\ (at' = "clear" => chain.for = "dir")
  BY <1>0 DEF GotCluster
<1>3. ASSUME sound PROVE \E D, F, C, G, l : Work(D, F, C, G, l)'
  <2>1. PICK D, F, C, G, l : Work(D, F, C, G, l) BY <1>0, <1>3, ChainWorking DEF CardInv
  <2>2. Fresh BY <1>0, <1>3, ChainWorking DEF CardInv
  <2>3. win.s = FatSector(chain.clst) /\ win.data = Seen[win.s] /\ win.s \in FatSectors
    BY <1>0, <2>2, FatSeen
  <2>4. /\ SameText(Seen, Seen') /\ Seen'[Boot] = Seen[Boot]
        /\ \A x \in Clusters : Fat(Seen', x) = (IF x = chain.clst THEN chain.ncl ELSE Fat(Seen, x))
        /\ win'.s = win.s /\ win'.dirty
    BY <1>0, <2>3, FatChanged
  <2>5. PICK k : k = Seen OBVIOUS
  <2>6. PICK h : h = Seen' OBVIOUS
  <2>7. PICK b : b = before OBVIOUS
  <2>8. PICK m : m = n OBVIOUS
  <2>9. Good(k, D, F, l, b, m) /\ Chains(k, D, F) /\ l \in Places
    BY <2>1, <2>5, <2>7, <2>8 DEF Work, Good, Struct
  <2>10. D \in Seq(Clusters) /\ F \in Seq(Clusters) /\ Pre(D, D) /\ Pre(F, F)
         /\ Leads(k, D) /\ Leads(k, F) /\ Len(D) \in Nat /\ Len(F) \in Nat
    BY <2>9, PreSelf DEF Chains, Leads
  <2>11. PICK c \in Clusters : c = chain.ncl BY <1>0
  <2>y. PICK y : y = chain.clst OBVIOUS
  <2>12. /\ SameText(k, h) /\ h[Boot] = k[Boot] /\ Fat(k, c) = Eoc /\ Alone(D, F, c)
         /\ \A x \in Clusters : Fat(h, x) = (IF x = y THEN c ELSE Fat(k, x))
    BY <1>0, <2>1, <2>4, <2>5, <2>6, <2>11, <2>y DEF Work, Linking
  <2>13. /\ k[Boot] = "fat32" /\ y = D[Len(D)] => Chains(h, Append(D, c), F) /\ Pre(D, Append(D, c))
         /\ F # <<>> /\ y = F[Len(F)] => Chains(h, D, Append(F, c)) /\ Pre(F, Append(F, c))
    <3>1. \A x \in Clusters : Fat(h, x) = IF x = y THEN c ELSE Fat(k, x) BY <2>12
    <3>2. Chains(k, D, F) /\ Fat(k, c) = Eoc /\ Alone(D, F, c) /\ h[Boot] = k[Boot] BY <2>9, <2>12
    <3>3. LinkedOn(k, h, D, F, c, y) BY <3>1, <3>2, ChainsLinked, Zenon
    <3> QED BY <3>3 DEF LinkedOn
  <2>14. UnitAt(Seen', l) = UnitAt(Seen, l) BY <2>4, <2>9 DEF SameText
  <2>15. /\ Good(card', C, G, l, before, n) /\ Pre(C, D) /\ Pre(G, F) /\ C \in Seq(Clusters)
         /\ Size(k, l) = Len(before) /\ Size(card', l) = Len(before)
    BY <1>0, <2>1, <2>5 DEF Work, Good, Struct, Chains, Leads
  <2>16. CASE chain.for = "file"
    <3>1. PICK q \in 1..Len(F) : /\ fp.ptr = q * ClusterUnits /\ chain.clst = F[q]
                 /\ fp.ptr \div ClusterUnits = q /\ q = Len(F)
      BY <1>0, <2>1, <2>16, Geometry, StretchSees
    <3>2. F # <<>> /\ y = F[Len(F)] BY <2>10, <2>y, <3>1, EmptySeq
    <3>3. PICK F2 : F2 = Append(F, c) OBVIOUS
    <3>4. F2 \in Seq(Clusters) /\ Len(F2) = Len(F) + 1 /\ F2[Len(F) + 1] = c BY <2>10, <3>3, AppendIs
    <3>5. Chains(h, D, F2) /\ Pre(F, F2) BY <2>13, <3>2, <3>3
    <3>6. /\ Good(h, D, F2, l, b, m)
          /\ \A z \in Nat : z <= Len(F) * ClusterUnits /\ HasText(k, F, z, b, m) => HasText(h, F2, z, b, m)
      <4>1. Grown(b, m, k, h, D, F, D, F2, l) BY <2>9, <2>10, <2>12, <3>5, GoodGrown, Zenon
      <4> QED BY <4>1 DEF Grown
    <3>7. InFile /\ fp.size \in Nat BY <1>0, <2>16 DEF InFile, StorageInv, FileIs
    <3>8. HasText(h, F2, fp.size, b, m)
      <4>1. fp.size <= Len(F) * ClusterUnits /\ HasText(k, F, fp.size, b, m)
        BY <1>0, <2>1, <2>5, <2>7, <2>8, <3>7 DEF Work, InTheFile
      <4> QED BY <3>6, <3>7, <4>1
    <3>9. fp.ptr < Len(F2) * ClusterUnits
      <4>1. PICK w \in Nat \ {0} : w = ClusterUnits BY Geometry
      <4>2. (q + 1) * w = q * w + w OBVIOUS
      <4>3. q * w \in Int OBVIOUS
      <4> QED BY <3>1, <3>4, <4>1, <4>2, <4>3
    <3>10. c = F2[1 + fp.ptr \div ClusterUnits]
      <4>1. 1 + q = Len(F) + 1 BY <2>10, <3>1
      <4> QED BY <3>1, <3>4, <4>1
    <3>11. GotCluster(c) BY <1>0, <2>11
    <3>12. Good(Seen', D, F2, l, before, n) /\ HasText(Seen', F2, fp.size, before, n)
      BY <2>6, <2>7, <2>8, <3>6, <3>8
    <3>13. win'.dirty => win'.s \in FatSectors \cup {fp.entry, fp.sect} BY <2>3, <2>4
    <3>14. Work(D, F2, C, G, l)'
      BY <1>0, <2>1, <2>14, <2>16, <3>2, <3>5, <3>9, <3>10, <3>11, <3>12, <3>13, SectorBegins
    <3> QED BY <3>14
  <2>17. CASE chain.for = "dir"
    <3>1. at' = "clear" /\ fp' = fp BY <1>0, <2>17 DEF GotCluster
    <3>2. k[Boot] = "fat32" /\ NoReport(k) /\ chain.clst = D[Len(D)] /\ Unfree(k, D, TableSize("fat32", D))
      BY <1>0, <2>1, <2>5, <2>17 DEF Work, DirGrows
    <3>3. PICK D2 : D2 = Append(D, c) OBVIOUS
    <3>4. D2 \in Seq(Clusters) /\ Len(D2) = Len(D) + 1 /\ D2[Len(D) + 1] = c BY <2>10, <3>3, AppendIs
    <3>5. Chains(h, D2, F) /\ Pre(D, D2) BY <2>13, <2>y, <3>2, <3>3
    <3>6. /\ Good(h, D2, F, l, b, m) /\ Size(h, l) = Size(k, l)
          /\ \A p \in 1..TableSize(k[Boot], D) : TableUnit(h, D2, p) = TableUnit(k, D, p)
      <4>1. /\ Good(k, D, F, l, b, m) /\ Chains(h, D2, F) /\ SameText(k, h) /\ h[Boot] = k[Boot]
            /\ Pre(D, D2) /\ Pre(F, F)
        BY <2>9, <2>10, <2>12, <3>5
      <4>2. Grown(b, m, k, h, D, F, D2, F, l) BY <4>1, GoodGrown, Zenon
      <4> QED BY <4>2 DEF Grown
    <3>7. Good(Seen', D2, F, l, before, n) BY <2>6, <2>7, <2>8, <3>6
    <3>8. Size(Seen', l) = Len(before) BY <2>6, <2>15, <3>6
    <3>9. Searching(Seen, D2)' /\ Linking(Seen, D2, F)' BY <3>1 DEF Searching, Linking
    <3>10. InTheFile(Seen, F, l)' /\ InTheCluster(F)'
      <4>1. ~InFile' /\ at' \notin Chaining BY <3>1 DEF InFile, Chaining
      <4> QED BY <3>1, <4>1 DEF InTheFile, InTheCluster
    <3>11. DirGrows(Seen, D2)'
      <4>1. h[Boot] = "fat32" /\ NoReport(h) BY <2>12, <3>2 DEF NoReport, SameText
      <4>2. D # <<>> BY <2>9, <3>2 DEF Chains
      <4>3. Len(D2) > 1 /\ chain.ncl = D2[Len(D2)] /\ Len(D2) - 1 = Len(D)
        <5>1. Len(D) # 0 BY <2>10, <4>2
        <5> QED BY <2>10, <2>11, <3>4, <5>1
      <4>4. TableSize("fat32", D) = Len(D) * ClusterUnits BY <2>10, TableSectorsAre DEF Kinds
      <4>5. Unfree(h, D2, (Len(D2) - 1) * ClusterUnits) BY <3>2, <3>6, <4>3, <4>4 DEF Unfree
      <4> QED BY <1>0, <2>6, <3>1, <4>1, <4>3, <4>5 DEF DirGrows
    <3>12. Pre(C, D2) BY <2>10, <2>15, <3>4, <3>5, PreTrans
    <3>13. Work(D2, F, C, G, l)' BY <1>0, <2>15, <3>1, <3>7, <3>8, <3>9, <3>10, <3>11, <3>12 DEF Work
    <3> QED BY <3>13
  <2> QED BY <1>0, <2>16, <2>17
<1> QED BY <1>0, <1>2, <1>3, ChainChanges

(* Where in its chain the x-th unit of a file is, counted from 0.            *)
LEMMA PtrIs ==
  ASSUME NEW F \in Seq(Clusters), NEW x \in Nat, x < Len(F) * ClusterUnits
  PROVE  \E a \in 1..Len(F), s \in 0..(ClusterSectors - 1), r \in 0..(SectorUnits - 1) :
            /\ x = (a - 1) * ClusterUnits + s * SectorUnits + r
            /\ 1 + x \div ClusterUnits = a /\ (x \div SectorUnits) % ClusterSectors = s
            /\ x % SectorUnits = r /\ x % ClusterUnits = s * SectorUnits + r
            /\ SectorsOf(F)[1 + x \div SectorUnits] = DataSector(F[a], s)
<1>1. PICK b \in Nat \ {0}, m \in Nat \ {0}, w \in Nat \ {0}, h \in Nat :
         b = ClusterSectors /\ m = SectorUnits /\ w = ClusterUnits /\ h = Len(F) /\ w = b * m
  <2>1. ClusterUnits = ClusterSectors * SectorUnits BY DEF ClusterUnits
  <2>2. /\ ClusterUnits \in Nat \ {0} /\ ClusterSectors \in Nat \ {0} /\ SectorUnits \in Nat \ {0}
        /\ Len(F) \in Nat
    BY Geometry
  <2> QED BY <2>1, <2>2, Zenon
<1>2. PICK a \in Nat, s \in 0..(b - 1), r \in 0..(m - 1) : Parted(x, m, b, a, s, r) BY PartOfPart, Zenon
<1>a. /\ x = (a * b + s) * m + r
      /\ x \div m = a * b + s /\ x % m = r
      /\ (x \div m) \div b = a /\ (x \div m) % b = s
      /\ x \div (b * m) = a /\ x % (b * m) = s * m + r
  BY <1>2, Zenon DEF Parted
<1>3. x < h * w BY <1>1
<1>4. a <= h - 1
  <2>1. x \div w \in 0..(h - 1) BY <1>3, PartBelow, Zenon
  <2> QED BY <1>1, <1>a, <2>1
<1>5. (a * b + s) * m + r = a * (b * m) + (s * m + r)
  <2>1. a \in Int /\ b \in Int /\ m \in Int /\ s \in Int /\ r \in Int OBVIOUS
  <2> QED BY Regrouped
<1>6. PICK c \in 1..Len(F) : c = a + 1 BY <1>1, <1>4
<1>7. s \in 0..(ClusterSectors - 1) /\ r \in 0..(SectorUnits - 1) BY <1>1
<1>8. PICK y \in Nat : y = a * b + s /\ x \div m = y
  <2>1. a * b + s \in Nat OBVIOUS
  <2> QED BY <1>a, <2>1
<1>9. SectorsOf(F)[1 + x \div SectorUnits] = DataSector(F[c], s)
  <2>1. 1 \in 1..SectorUnits BY <1>1
  <2>2. SectorsOf(F)[(c - 1) * ClusterSectors + s + 1] = DataSector(F[c], s)
    BY <1>7, <2>1, FilePlaceAt, Zenon
  <2>3. c - 1 = a BY <1>6
  <2>4. a * b + s + 1 = 1 + y BY <1>8
  <2> QED BY <1>1, <1>8, <2>2, <2>3, <2>4
<1>10. x = (c - 1) * ClusterUnits + s * SectorUnits + r
  <2>1. c - 1 = a BY <1>6
  <2>2. PICK u \in Int, v \in Int : u = a * w /\ v = s * m OBVIOUS
  <2>3. x = u + (v + r) BY <1>1, <1>a, <1>5, <2>2
  <2> QED BY <1>1, <2>1, <2>2, <2>3
<1>11. 1 + x \div ClusterUnits = c /\ (x \div SectorUnits) % ClusterSectors = s
       /\ x % SectorUnits = r /\ x % ClusterUnits = s * SectorUnits + r
  BY <1>1, <1>a, <1>6
<1> QED BY <1>7, <1>9, <1>10, <1>11

(* Everything of the report is written.                                      *)
LEMMA WriteEndsSound == ASSUME StorageInv, CardInv, WriteEnds PROVE CardInv'
<1>1. fp' = [entry |-> fp.entry, i |-> fp.i, scl |-> fp.scl, size |-> fp.size,
             ptr |-> fp.ptr, c |-> fp.c, sect |-> fp.sect, modified |-> TRUE]
  BY DEF WriteEnds, StorageInv, FileIs
<1>2. InFile /\ at \notin {"copy", "close"} /\ at' = "close"
      /\ UNCHANGED <<card, win, sdVars, callVars, done>>
  BY DEF WriteEnds, Here, InFile
<1> QED BY <1>1, <1>2, ClosingSound

(* What is known of an open file, between sectors.                           *)
LEMMA WritingAt ==
  ASSUME StorageInv, at = "write", NEW D, NEW F, NEW C, NEW G, NEW l, Work(D, F, C, G, l)
  PROVE  /\ InTheFile(Seen, F, l) /\ InTheCluster(F) /\ F \in Seq(Clusters) /\ Len(F) \in Nat
         /\ fp.ptr \in Nat /\ fp.ptr = fp.size /\ fp.ptr <= Len(F) * ClusterUnits
         /\ fp.ptr % ClusterUnits # 0 =>
              /\ fp.ptr > 0 /\ fp.ptr < Len(F) * ClusterUnits
              /\ fp.c = F[1 + fp.ptr \div ClusterUnits]
         /\ fp.ptr > 0 /\ fp.ptr % ClusterUnits = 0 =>
              \E q \in 1..Len(F) : fp.ptr \div ClusterUnits = q /\ fp.c = F[q]
<1>1. InFile BY DEF InFile
<1>2. InTheFile(Seen, F, l) /\ InTheCluster(F) /\ F \in Seq(Clusters) /\ Len(F) \in Nat
  BY DEF Work, Good, Struct, Chains, Leads
<1>3. fp.ptr \in Nat /\ fp.ptr = fp.size /\ fp.ptr <= Len(F) * ClusterUnits
  BY <1>1, <1>2 DEF InTheFile, StorageInv, FileIs
<1>4. PICK w \in Nat \ {0}, h \in Nat, x \in Nat : w = ClusterUnits /\ h = Len(F) /\ x = fp.ptr
  BY <1>2, <1>3, Geometry
<1>5. ASSUME x % w # 0
      PROVE  x > 0 /\ x < h * w /\ fp.c = F[1 + x \div w]
  <2>1. x # 0
    <3>1. 0 % w = 0 OBVIOUS
    <3> QED BY <1>5, <3>1
  <2>2. x # h * w
    <3>1. 0 \in 0..(w - 1) /\ h \in Int OBVIOUS
    <3>2. ASSUME x = h * w + 0 PROVE FALSE
      <4>1. x % w = 0 BY <3>1, <3>2, DividedBy, Zenon
      <4> QED BY <1>5, <4>1
    <3>3. h * w + 0 = h * w OBVIOUS
    <3> QED BY <3>2, <3>3
  <2>3. x < h * w
    <3>1. h * w \in Int /\ x <= h * w BY <1>3, <1>4
    <3> QED BY <2>2, <3>1
  <2>4. x \in Nat \ {0} BY <2>1
  <2>5. (x - 1) \div w = x \div w BY <1>5, <2>4, Boundary
  <2>6. fp.c = F[1 + (x - 1) \div w] BY <1>2, <1>4, <2>4 DEF InTheCluster
  <2> QED BY <2>1, <2>3, <2>5, <2>6
<1>6. ASSUME x > 0, x % w = 0 PROVE \E q \in 1..h : x \div w = q /\ fp.c = F[q]
  <2>1. PICK q \in Nat \ {0} : x = q * w /\ x \div w = q /\ (x - 1) \div w = q - 1
    <3>1. x \in Nat \ {0} BY <1>6
    <3> QED BY <1>6, <3>1, Boundary, Zenon
  <2>2. fp.c = F[1 + (x - 1) \div w] BY <1>2, <1>4, <1>6 DEF InTheCluster
  <2>3. 1 + (q - 1) = q OBVIOUS
  <2>4. q <= h
    <3> SUFFICES ASSUME q > h PROVE FALSE OBVIOUS
    <3>1. (q - h - 1) * w >= 0 OBVIOUS
    <3>2. (q - h - 1) * w = q * w - h * w - w OBVIOUS
    <3>3. q * w <= h * w BY <1>3, <1>4, <2>1
    <3> QED BY <3>1, <3>2, <3>3
  <2> QED BY <2>1, <2>2, <2>3, <2>4
<1> QED BY <1>2, <1>3, <1>4, <1>5, <1>6

(* On to the next sector, or for a cluster to put it in.                     *)
LEMMA WriteMoreSound == ASSUME StorageInv, CardInv, WriteMore PROVE CardInv'
<1> DEFINE scl == IF Valid(fs.last) THEN fs.last ELSE 1
           next == IF Valid(scl + 1) THEN scl + 1 ELSE 2
<1>0. /\ at = "write" /\ UNCHANGED <<card, win, fs, dir, sdVars, callVars, done>>
      /\ before' = before /\ n' = n /\ done' = done /\ Seen' = Seen /\ sound' = sound
      /\ Working /\ at \notin {"copy", "close", "sync"} /\ InFile
      /\ fp.ptr \in Nat
  BY DEF WriteMore, Here, sdVars, callVars, Seen, SeenOn, Working, Resting, RowPlaces, InFile, StorageInv, FileIs
<1>1. \/ fp.ptr % SectorUnits # 0 /\ at' = "copy" /\ UNCHANGED <<fp, chain>>
      \/ fp.ptr % SectorUnits = 0 /\ fp.ptr % ClusterUnits # 0 /\ at' = "sector" /\ UNCHANGED <<fp, chain>>
      \/ /\ fp.ptr > 0 /\ fp.ptr % ClusterUnits = 0 /\ chain' = [NoChain EXCEPT !.for = "file", !.clst = fp.c]
         /\ at' = "stretch" /\ UNCHANGED fp
      \/ fp.ptr = 0 /\ fp.scl # 0 /\ fp' = [fp EXCEPT !.c = fp.scl] /\ at' = "sector" /\ UNCHANGED chain
      \/ fp.ptr = 0 /\ fp.scl = 0 /\ fp' = [fp EXCEPT !.modified = TRUE] /\ at' = "close"
      \/ /\ fp.ptr = 0 /\ fp.scl = 0 /\ chain' = [NoChain EXCEPT !.for = "file", !.scl = scl, !.ncl = next]
         /\ at' = "hunt" /\ UNCHANGED fp
  <2> HIDE DEF next
  <2>1. fp.ptr > 0 \/ fp.ptr = 0 BY <1>0
  <2> QED BY <2>1 DEF WriteMore, next
<1> HIDE DEF scl, next
<1>2. at' # "seek" /\ at' # "clear" /\ at' # "mark" /\ at' # "link" BY <1>1
<1>3. at' \notin Resting \cup {"boot", "fsinfo", "leave", "sync"} \cup SearchPlaces
  BY <1>1 DEF Resting, RowPlaces, SearchPlaces
<1>4. CASE fp.ptr = 0 /\ fp.scl = 0 /\ fp' = [fp EXCEPT !.modified = TRUE] /\ at' = "close"
  <2>1. fp' = [entry |-> fp.entry, i |-> fp.i, scl |-> fp.scl, size |-> fp.size,
               ptr |-> fp.ptr, c |-> fp.c, sect |-> fp.sect, modified |-> TRUE]
    BY <1>4 DEF StorageInv, FileIs
  <2> QED BY <1>0, <1>4, <2>1, ClosingSound
<1>5. CASE at' # "close"
  <2>1. /\ fp'.entry = fp.entry /\ fp'.i = fp.i /\ fp'.scl = fp.scl /\ fp'.size = fp.size
        /\ fp'.ptr = fp.ptr /\ fp'.sect = fp.sect
    <3>1. fp' = fp \/ fp' = [entry |-> fp.entry, i |-> fp.i, scl |-> fp.scl, size |-> fp.size,
               ptr |-> fp.ptr, c |-> fp.scl, sect |-> fp.sect, modified |-> fp.modified]
      BY <1>1, <1>5 DEF StorageInv, FileIs
    <3> QED BY <3>1
  <2>2. at' \in Chaining => chain'.for = "file" BY <1>1, <1>5 DEF Chaining, NoChain
  <2>3. Untouched' BY <1>1, <1>2, <2>2 DEF Untouched
  <2>4. ASSUME sound
        PROVE  \E D, F, C, G, l :
                     /\ Work(D, F, C, G, l) /\ DirGrows(Seen, D)' /\ Linking(Seen, D, F)'
                     /\ InTheFile(Seen, F, l)' /\ InTheCluster(F)'
    <3>1. PICK D, F, C, G, l : Work(D, F, C, G, l) BY <1>0, <2>4 DEF CardInv
    <3>2. /\ InTheFile(Seen, F, l) /\ InTheCluster(F) /\ F \in Seq(Clusters) /\ Len(F) \in Nat
          /\ fp.ptr \in Nat /\ fp.ptr = fp.size /\ fp.ptr <= Len(F) * ClusterUnits
          /\ (fp.ptr % ClusterUnits # 0 =>
              /\ fp.ptr > 0 /\ fp.ptr < Len(F) * ClusterUnits
              /\ fp.c = F[1 + fp.ptr \div ClusterUnits])
          /\ (fp.ptr > 0 /\ fp.ptr % ClusterUnits = 0 =>
              \E q \in 1..Len(F) : fp.ptr \div ClusterUnits = q /\ fp.c = F[q])
      BY <1>0, <3>1, WritingAt
    <3>3. DirGrows(Seen, D)' BY <1>2, <2>2 DEF DirGrows
    <3>4. Linking(Seen, D, F)' BY <1>2 DEF Linking
    <3>5. InTheFile(Seen, F, l)'
      <4>1. InTheFile(Seen, F, l) BY <3>2
      <4> QED BY <1>0, <1>2, <2>1, <4>1 DEF InTheFile
    <3>6. InTheCluster(F)'
      <4>1. CASE fp.ptr % SectorUnits # 0 /\ at' = "copy" /\ UNCHANGED <<fp, chain>>
        <5>1. fp.ptr % ClusterUnits # 0
          <6> SUFFICES ASSUME fp.ptr % ClusterUnits = 0 PROVE FALSE OBVIOUS
          <6>1. PICK b \in Nat \ {0}, m \in Nat \ {0}, x \in Nat :
                   b = ClusterSectors /\ m = SectorUnits /\ ClusterUnits = b * m /\ x = fp.ptr
            BY <3>2, Geometry DEF ClusterUnits
          <6>2. PICK a \in Nat, s \in 0..(b - 1), r \in 0..(m - 1) : Parted(x, m, b, a, s, r) BY PartOfPart, Zenon
          <6>a. x % m = r /\ x % (b * m) = s * m + r
            BY <6>2, Zenon DEF Parted
          <6>3. s * m >= 0 /\ s * m \in Int BY <6>a
          <6>4. r = 0 BY <6>1, <6>a, <6>3
          <6> QED BY <4>1, <6>1, <6>a, <6>4
        <5>2. fp.sect = SectorsOf(F)[1 + fp.ptr \div SectorUnits]
          BY <1>0, <3>2, <4>1 DEF InTheCluster
        <5>3. fp' = fp BY <4>1
        <5> QED BY <3>2, <4>1, <5>1, <5>2, <5>3 DEF InTheCluster, Chaining
      <4>2. CASE fp.ptr % SectorUnits = 0 /\ fp.ptr % ClusterUnits # 0 /\ at' = "sector" /\ UNCHANGED <<fp, chain>>
        <5>1. fp' = fp BY <4>2
        <5> QED BY <3>2, <4>2, <5>1 DEF InTheCluster, Chaining
      <4>3. CASE /\ fp.ptr > 0 /\ fp.ptr % ClusterUnits = 0 /\ chain' = [NoChain EXCEPT !.for = "file", !.clst = fp.c]
                 /\ at' = "stretch" /\ UNCHANGED fp
        <5>1. PICK q \in 1..Len(F) : fp.ptr \div ClusterUnits = q /\ fp.c = F[q] BY <3>2, <4>3
        <5>2. fp.c \in Clusters /\ fp.c # 0 BY <3>2, <5>1, Geometry
        <5>3. chain'.clst = fp.c /\ fp' = fp BY <4>3 DEF NoChain
        <5> QED BY <4>3, <5>1, <5>2, <5>3 DEF InTheCluster
      <4>4. CASE fp.ptr = 0 /\ fp.scl # 0 /\ fp' = [fp EXCEPT !.c = fp.scl] /\ at' = "sector" /\ UNCHANGED chain
        <5>1. fp'.c = fp.scl
          <6>1. fp' = [entry |-> fp.entry, i |-> fp.i, scl |-> fp.scl, size |-> fp.size,
               ptr |-> fp.ptr, c |-> fp.scl, sect |-> fp.sect, modified |-> fp.modified]
            BY <4>4 DEF StorageInv, FileIs
          <6> QED BY <6>1
        <5>2. F # <<>> /\ fp.scl = F[1] BY <1>0, <3>2, <4>4 DEF InTheFile
        <5>3. 0 < Len(F) * ClusterUnits /\ 0 \div ClusterUnits = 0
          <6>1. Len(F) \in Nat \ {0} BY <3>2, <5>2, EmptySeq
          <6>2. PICK w \in Nat \ {0}, h \in Nat \ {0} : w = ClusterUnits /\ h = Len(F) BY <6>1, Geometry
          <6>3. h * w > 0 /\ 0 \div w = 0 OBVIOUS
          <6> QED BY <6>2, <6>3
        <5>4. 1 + 0 = 1 OBVIOUS
        <5>5. fp'.ptr = 0 BY <2>1, <4>4
        <5> QED BY <4>4, <5>1, <5>2, <5>3, <5>4, <5>5 DEF InTheCluster, Chaining
      <4>5. CASE /\ fp.ptr = 0 /\ fp.scl = 0 /\ chain' = [NoChain EXCEPT !.for = "file", !.scl = scl, !.ncl = next]
                 /\ at' = "hunt" /\ UNCHANGED fp
        <5>1. F = <<>>
          <6> SUFFICES ASSUME F # <<>> PROVE FALSE OBVIOUS
          <6>1. fp.scl = F[1] BY <1>0, <3>2 DEF InTheFile
          <6>2. 1 \in 1..Len(F) BY <3>2, EmptySeq
          <6>3. F[1] \in Clusters BY <3>2, <6>2
          <6> QED BY <4>5, <6>1, <6>3, Geometry
        <5>2. chain'.clst = 0 /\ fp' = fp BY <4>5 DEF NoChain
        <5> QED BY <4>5, <5>1, <5>2 DEF InTheCluster
      <4> QED BY <1>1, <1>5, <4>1, <4>2, <4>3, <4>4, <4>5
    <3> QED BY <3>1, <3>3, <3>4, <3>5, <3>6
  <2> QED BY <1>0, <1>3, <2>3, <2>4, Quiet
<1> QED BY <1>1, <1>4, <1>5

(* A place of one of the chain's sectors.                                    *)
InSectors(cs, place) ==
  \E a \in 1..Len(cs), s \in 0..(ClusterSectors - 1), i \in 1..SectorUnits :
     place = <<DataSector(cs[a], s), i>>

(* The places of a file are places of its sectors.                           *)
LEMMA FileSector ==
  ASSUME NEW cs \in Seq(Clusters), NEW x \in 1..(Len(cs) * ClusterUnits)
  PROVE  InSectors(cs, PlaceOf(SectorsOf(cs), x))
<1>1. PICK a \in 1..Len(cs), s \in 0..(ClusterSectors - 1), i \in 1..SectorUnits :
            /\ x = (a - 1) * ClusterUnits + s * SectorUnits + i
            /\ PlaceOf(SectorsOf(cs), x) = <<DataSector(cs[a], s), i>>
            /\ a = 1 + (x - 1) \div ClusterUnits
            /\ s * SectorUnits + i \in 1..ClusterUnits
  BY FilePlace
<1> QED BY <1>1 DEF InSectors

(* The directory and the file have no unit in common.                        *)
LEMMA TableFileApart ==
  ASSUME NEW k, NEW D, NEW F, Chains(k, D, F), NEW p \in 1..TableSize(k[Boot], D),
         NEW y \in 1..(Len(F) * ClusterUnits)
  PROVE  TablePlace(k, D, p) # PlaceOf(SectorsOf(F), y)
<1>1. k[Boot] \in Kinds /\ D \in Seq(Clusters) /\ F \in Seq(Clusters) /\ Apart(D, F)
  BY DEF Chains, Leads, Kinds
<1>2. PICK c \in 1..Len(F), t \in 0..(ClusterSectors - 1), j \in 1..SectorUnits :
         PlaceOf(SectorsOf(F), y) = <<DataSector(F[c], t), j>>
  BY <1>1, FileSector DEF InSectors
<1>3. CASE k[Boot] = "fat32"
  <2>1. TableSize(k[Boot], D) = Len(D) * ClusterUnits BY <1>1, <1>3, TableSectorsAre
  <2>2. TablePlace(k, D, p) = PlaceOf(SectorsOf(D), p) BY <1>3 DEF TablePlace, TableSectors
  <2>3. p \in 1..(Len(D) * ClusterUnits) BY <2>1
  <2>4. PICK a \in 1..Len(D), s \in 0..(ClusterSectors - 1), i \in 1..SectorUnits :
           PlaceOf(SectorsOf(D), p) = <<DataSector(D[a], s), i>>
    BY <1>1, <2>3, FileSector DEF InSectors
  <2>5. D[a] # F[c] BY <1>1 DEF Apart
  <2> QED BY <1>2, <2>2, <2>4, <2>5, SectorPlaces
<1>4. CASE k[Boot] = "fat16"
  <2>1. TableSize(k[Boot], D) = RootSectors * SectorUnits BY <1>1, <1>4, TableSectorsAre
  <2>2. TableSectors(k[Boot], D) = [i \in 1..RootSectors |-> <<"root", i - 1>>]
    BY <1>4 DEF TableSectors
  <2>3. p \in 1..(RootSectors * SectorUnits) /\ RootSectors \in Nat BY <2>1, StorageAssumption
  <2>4. PICK e \in 1..RootSectors, i \in 1..SectorUnits :
           \A sectors : PlaceOf(sectors, p) = <<sectors[e], i>>
    BY <2>3, PlaceIs
  <2>5. TablePlace(k, D, p) = <<<<"root", e - 1>>, i>> BY <2>2, <2>4 DEF TablePlace
  <2> QED BY <1>2, <2>5, SectorPlaces
<1> QED BY <1>1, <1>3, <1>4 DEF Kinds

(* A unit that is no entry's, nor one of the file's first P.                 *)
Spare(k, D, F, l, P, x) ==
  /\ x # l /\ (\A p \in 1..TableSize(k[Boot], D) : TablePlace(k, D, p) # x)
  /\ \A y \in 1..P : PlaceOf(SectorsOf(F), y) # x

(* Text was written: nothing of it before the P-th unit, and nothing but     *)
(* text.                                                                     *)
Texted(k, h, D, F, l, b, m, P) ==
  /\ Good(h, D, F, l, b, m) /\ UnitAt(h, l) = UnitAt(k, l) /\ Size(h, l) = Size(k, l)
  /\ \A y \in 1..P : y <= Len(F) * ClusterUnits => FileUnit(h, F, y) = FileUnit(k, F, y)

(* Text that is written where nothing is yet harms nothing.                  *)
LEMMA GoodTexted ==
  ASSUME NEW k, NEW h, NEW D, NEW F, NEW l, NEW b, NEW m, NEW P \in Nat, Good(k, D, F, l, b, m),
         SameFat(k, h), h[Boot] = k[Boot], Size(k, l) <= P,
         \A x \in Places : UnitAt(h, x) = UnitAt(k, x) \/ (Len(UnitAt(h, x)) = 2 /\ Spare(k, D, F, l, P, x))
  PROVE  Texted(k, h, D, F, l, b, m, P)
<1>1. Chains(k, D, F) /\ l \in Places /\ Entries(k, D, l) /\ Claim(k, F, l) BY DEF Good, Struct
<1>2. Chains(h, D, F) BY <1>1, ChainsSame
<1>3. k[Boot] \in Kinds /\ D \in Seq(Clusters) /\ F \in Seq(Clusters) BY <1>1 DEF Chains, Leads, Kinds
<1>4. UnitAt(h, l) = UnitAt(k, l) BY <1>1 DEF Spare
<1>5. Size(h, l) = Size(k, l) BY <1>4 DEF Size
<1>6. \A p \in 1..TableSize(k[Boot], D) : TablePlace(h, D, p) = TablePlace(k, D, p) /\ TableUnit(h, D, p) = TableUnit(k, D, p)
  <2> SUFFICES ASSUME NEW p \in 1..TableSize(k[Boot], D)
               PROVE  TablePlace(h, D, p) = TablePlace(k, D, p) /\ TableUnit(h, D, p) = TableUnit(k, D, p)
    OBVIOUS
  <2>1. TablePlace(h, D, p) = TablePlace(k, D, p) BY DEF TablePlace
  <2>2. TablePlace(k, D, p) \in Places BY <1>3, TableInPlaces DEF TablePlace
  <2>3. ~Spare(k, D, F, l, P, TablePlace(k, D, p)) BY DEF Spare
  <2>4. UnitAt(h, TablePlace(k, D, p)) = UnitAt(k, TablePlace(k, D, p)) BY <2>2, <2>3
  <2> QED BY <2>1, <2>4 DEF TableUnit
<1>7. ASSUME NEW y \in 1..P, y <= Len(F) * ClusterUnits PROVE FileUnit(h, F, y) = FileUnit(k, F, y)
  <2>1. Len(F) * ClusterUnits \in Nat BY <1>3, PreSelf, PrePlaces
  <2>2. y \in 1..(Len(F) * ClusterUnits) BY <1>7, <2>1
  <2>3. PlaceOf(SectorsOf(F), y) \in Places BY <1>3, <2>2, FileInPlaces
  <2>4. ~Spare(k, D, F, l, P, PlaceOf(SectorsOf(F), y)) BY DEF Spare
  <2> QED BY <2>3, <2>4 DEF FileUnit
<1>8. Entries(h, D, l)
  <2>1. ASSUME NEW x \in Places, Len(UnitAt(h, x)) = 3
        PROVE  UnitAt(h, x) \in {Other, Label} \/ (IsReport(UnitAt(h, x)) /\ x = l)
    <3>1. UnitAt(h, x) = UnitAt(k, x) BY <2>1
    <3> QED BY <1>1, <2>1, <3>1 DEF Entries
  <2>2. ASSUME IsReport(UnitAt(h, l))
        PROVE  \E p \in 1..TableSize(h[Boot], D) :
                  TablePlace(h, D, p) = l /\ \A q \in 1..p : TableUnit(h, D, q) # EndOfDir
    <3>1. PICK p \in 1..TableSize(k[Boot], D) :
             TablePlace(k, D, p) = l /\ \A q \in 1..p : TableUnit(k, D, q) # EndOfDir
      BY <1>1, <1>4, <2>2 DEF Entries
    <3>2. TableSize(k[Boot], D) \in Nat BY <1>3, TableSectorsAre
    <3>3. \A q \in 1..p : q \in 1..TableSize(k[Boot], D) BY <3>2
    <3> QED BY <1>6, <3>1, <3>3
  <2> QED BY <2>1, <2>2 DEF Entries
<1>9. Claim(h, F, l) BY <1>1, <1>4 DEF Claim
<1>10. HasText(h, F, Size(h, l), b, m)
  <2>1. HasText(k, F, Size(k, l), b, m) BY DEF Good
  <2>2. Size(k, l) \in Nat /\ Size(k, l) <= Len(F) * ClusterUnits BY FileRead DEF Good
  <2>3. Len(F) * ClusterUnits \in Nat BY <1>3, PreSelf, PrePlaces
  <2>4. \A x \in 1..Size(k, l) : x \in 1..P /\ x <= Len(F) * ClusterUnits BY <2>2, <2>3
  <2> QED BY <1>5, <1>7, <2>1, <2>4 DEF HasText
<1>11. Good(h, D, F, l, b, m) BY <1>1, <1>2, <1>8, <1>9, <1>10 DEF Good, Struct
<1> QED BY <1>4, <1>5, <1>7, <1>11 DEF Texted

(* Beyond its first P units the file's own are spare.                        *)
LEMMA FileSpare ==
  ASSUME NEW k, NEW D, NEW F, NEW l, NEW b, NEW m, Good(k, D, F, l, b, m), IsReport(UnitAt(k, l)),
         NEW P \in Nat, NEW y \in 1..(Len(F) * ClusterUnits), y > P
  PROVE  Spare(k, D, F, l, P, PlaceOf(SectorsOf(F), y))
<1>1. Chains(k, D, F) /\ Entries(k, D, l) /\ Leads(k, F) /\ F \in Seq(Clusters)
  BY DEF Good, Struct, Chains, Leads
<1>2. \A p \in 1..TableSize(k[Boot], D) : TablePlace(k, D, p) # PlaceOf(SectorsOf(F), y)
  BY <1>1, TableFileApart
<1>3. PlaceOf(SectorsOf(F), y) # l BY <1>1, <1>2 DEF Entries
<1>4. ASSUME NEW x \in 1..P PROVE PlaceOf(SectorsOf(F), x) # PlaceOf(SectorsOf(F), y)
  <2>1. Len(F) * ClusterUnits \in Nat BY <1>1, PreSelf, PrePlaces
  <2>2. x \in 1..(Len(F) * ClusterUnits) /\ x # y BY <2>1
  <2> QED BY <1>1, <2>2, FileOnce
<1> QED BY <1>2, <1>3, <1>4 DEF Spare

(* What is spare is so before the chains have grown.                         *)
LEMMA SpareBefore ==
  ASSUME NEW k, NEW j, NEW D, NEW F, NEW C, NEW G, NEW l, NEW x, NEW P \in Nat, NEW Q \in Nat,
         Chains(k, D, F), Chains(j, C, G), j[Boot] = k[Boot], Pre(C, D), Pre(G, F),
         Spare(k, D, F, l, P, x), Q <= P, Q <= Len(G) * ClusterUnits
  PROVE  Spare(j, C, G, l, Q, x)
<1>1. F \in Seq(Clusters) /\ G \in Seq(Clusters) BY DEF Chains, Leads
<1>2. ASSUME NEW p \in 1..TableSize(j[Boot], C) PROVE TablePlace(j, C, p) # x
  <2>1. TableSize(j[Boot], C) \in Nat /\ TableSize(k[Boot], D) \in Nat
        /\ TableSize(j[Boot], C) <= TableSize(k[Boot], D)
    BY PreTable
  <2>2. TablePlace(k, D, p) = TablePlace(j, C, p) BY PreTable
  <2>3. p \in 1..TableSize(k[Boot], D) BY <2>1
  <2> QED BY <2>2, <2>3 DEF Spare
<1>3. ASSUME NEW y \in 1..Q PROVE PlaceOf(SectorsOf(G), y) # x
  <2>1. Len(G) * ClusterUnits \in Nat BY <1>1, PrePlaces
  <2>2. y \in 1..(Len(G) * ClusterUnits) /\ y \in 1..P BY <2>1
  <2>3. PlaceOf(SectorsOf(F), y) = PlaceOf(SectorsOf(G), y) BY <1>1, <2>2, PrePlaces
  <2> QED BY <2>2, <2>3 DEF Spare
<1> QED BY <1>2, <1>3 DEF Spare

(* The entry takes the file's size.                                          *)
LEMMA EntryWritten ==
  ASSUME NEW k, NEW h, NEW D, NEW F, NEW l, NEW b, NEW m, Good(k, D, F, l, b, m), IsReport(UnitAt(k, l)),
         SameFat(k, h), h[Boot] = k[Boot], NEW scl, scl = IF F = <<>> THEN 0 ELSE F[1],
         NEW size \in Nat, size <= Len(F) * ClusterUnits, HasText(k, F, size, b, m),
         \A x \in Places : UnitAt(h, x) = IF x = l THEN Entry("report", scl, size) ELSE UnitAt(k, x)
  PROVE  Good(h, D, F, l, b, m)
<1> DEFINE e == Entry("report", scl, size)
<1>1. Chains(k, D, F) /\ l \in Places /\ Entries(k, D, l) BY DEF Good, Struct
<1>2. Chains(h, D, F) BY <1>1, ChainsSame
<1>3. k[Boot] \in Kinds /\ D \in Seq(Clusters) /\ F \in Seq(Clusters) BY <1>1 DEF Chains, Leads, Kinds
<1>4. UnitAt(h, l) = e BY <1>1
<1>5. IsReport(e) /\ Len(e) = 3 /\ e[2] = scl /\ e[3] = size /\ e # EndOfDir
  BY DEF IsReport, Entry, EndOfDir
<1> HIDE DEF e
<1>6. \A p \in 1..TableSize(k[Boot], D) :
        TablePlace(h, D, p) = TablePlace(k, D, p) /\ TableUnit(h, D, p) \in {e, TableUnit(k, D, p)}
  <2> SUFFICES ASSUME NEW p \in 1..TableSize(k[Boot], D)
               PROVE  TablePlace(h, D, p) = TablePlace(k, D, p) /\ TableUnit(h, D, p) \in {e, TableUnit(k, D, p)}
    OBVIOUS
  <2>1. TablePlace(h, D, p) = TablePlace(k, D, p) BY DEF TablePlace
  <2>2. TablePlace(k, D, p) \in Places BY <1>3, TableInPlaces DEF TablePlace
  <2>3. UnitAt(h, TablePlace(k, D, p)) \in {e, UnitAt(k, TablePlace(k, D, p))} BY <2>2 DEF e
  <2> QED BY <2>1, <2>3 DEF TableUnit
<1>7. PICK p \in 1..TableSize(k[Boot], D) :
             TablePlace(k, D, p) = l /\ \A q \in 1..p : TableUnit(k, D, q) # EndOfDir
  BY <1>1 DEF Entries
<1>8. Entries(h, D, l)
  <2>1. ASSUME NEW x \in Places, Len(UnitAt(h, x)) = 3
        PROVE  UnitAt(h, x) \in {Other, Label} \/ (IsReport(UnitAt(h, x)) /\ x = l)
    <3>1. CASE x = l BY <1>4, <1>5, <3>1
    <3>2. CASE x # l
      <4>1. UnitAt(h, x) = UnitAt(k, x) BY <3>2
      <4> QED BY <1>1, <2>1, <4>1 DEF Entries
    <3> QED BY <3>1, <3>2
  <2>2. TableSize(k[Boot], D) \in Nat BY <1>3, TableSectorsAre
  <2>3. \A q \in 1..p : q \in 1..TableSize(k[Boot], D) BY <2>2
  <2>4. TablePlace(h, D, p) = l /\ \A q \in 1..p : TableUnit(h, D, q) # EndOfDir
    BY <1>5, <1>6, <1>7, <2>3
  <2> QED BY <2>1, <2>4 DEF Entries
<1>9. Claim(h, F, l)
  <2>1. scl = 0 => size = 0
    <3> SUFFICES ASSUME scl = 0 PROVE size = 0 OBVIOUS
    <3>1. F = <<>>
      <4> SUFFICES ASSUME F # <<>> PROVE FALSE OBVIOUS
      <4>1. 1 \in 1..Len(F) BY <1>3, EmptySeq
      <4>2. F[1] \in Clusters BY <1>3, <4>1
      <4> QED BY <4>2, Geometry
    <3>2. Len(F) * ClusterUnits = 0
      <4>1. Len(F) = 0 BY <3>1
      <4> QED BY <4>1, Geometry
    <3> QED BY <3>2
  <2>2. scl # 0 => F # <<>> /\ F[1] = scl /\ size <= Len(F) * ClusterUnits OBVIOUS
  <2> QED BY <1>4, <1>5, <2>1, <2>2 DEF Claim
<1>10. HasText(h, F, Size(h, l), b, m)
  <2>1. Size(h, l) = size BY <1>4, <1>5 DEF Size
  <2>2. Len(F) * ClusterUnits \in Nat BY <1>3, PreSelf, PrePlaces
  <2>3. ASSUME NEW x \in 1..size PROVE FileUnit(h, F, x) = FileUnit(k, F, x)
    <3>1. x \in 1..(Len(F) * ClusterUnits) BY <2>2
    <3>2. PlaceOf(SectorsOf(F), x) \in Places BY <1>3, <3>1, FileInPlaces
    <3>3. PlaceOf(SectorsOf(F), x) # l BY <1>1, <1>7, <3>1, TableFileApart
    <3> QED BY <3>2, <3>3 DEF FileUnit
  <2> QED BY <2>1, <2>3 DEF HasText
<1> QED BY <1>1, <1>2, <1>8, <1>9, <1>10 DEF Good, Struct

(* f_sync writes the entry.                                                  *)
LEMMA SyncEntrySound == ASSUME StorageInv, CardInv, SyncEntry PROVE CardInv'
<1>0. /\ at = "close" /\ at' = "sync" /\ Wanted \in {Nowhere, win.s} /\ Wanted = fp.entry
      /\ Change(fp.i, Entry("report", fp.scl, fp.size))
      /\ UNCHANGED <<card, fp, chain, dir, done, sdVars, callVars>> /\ before' = before /\ n' = n
      /\ Working /\ at \notin Resting /\ InFile /\ fp.size \in Nat /\ sound' = sound
  BY WantedAt DEF SyncEntry, Here, sdVars, callVars, Working, Resting, RowPlaces, InFile, StorageInv, FileIs
<1>1. at' \notin RowPlaces \cup {"boot"} /\ Unwritten' /\ Untouched'
  BY <1>0 DEF RowPlaces, Unwritten, Untouched, Chaining
<1>2. sound => CardOK(card', before, n) BY <1>0 DEF CardInv
<1>3. ASSUME sound PROVE Fresh' /\ \E D, F, C, G, l : Work(D, F, C, G, l)'
  <2>1. PICK D, F, C, G, l : Work(D, F, C, G, l) BY <1>0, <1>3 DEF CardInv
  <2>2. Fresh BY <1>0, <1>3 DEF CardInv
  <2>3. InTheFile(Seen, F, l) BY <2>1 DEF Work
  <2>4. /\ l = <<fp.entry, fp.i>> /\ IsReport(UnitAt(Seen, l)) /\ fp.scl = (IF F = <<>> THEN 0 ELSE F[1])
        /\ fp.size <= Len(F) * ClusterUnits /\ HasText(Seen, F, fp.size, before, n)
    BY <1>0, <2>3 DEF InTheFile
  <2>5. l \in Places BY <2>1 DEF Work, Good, Struct
  <2>6. fp.entry \in TextSectors /\ fp.i \in 1..SectorUnits BY <2>4, <2>5 DEF Places
  <2>7. win.s = fp.entry /\ win.s \in SectorSet
    <3>1. fp.entry \in SectorSet /\ fp.entry[1] \in Texts BY <2>6 DEF TextSectors
    <3>2. fp.entry # Nowhere BY <3>1, Names DEF Texts
    <3> QED BY <1>0, <3>1, <3>2
  <2>8. win.data = Seen[win.s]
    <3>1. win.dirty \/ win.data = card[win.s]
      <4>1. win.dirty \in BOOLEAN BY DEF StorageInv, WindowHolds
      <4> QED BY <1>0, <2>2, <2>7, <4>1 DEF Fresh
    <3> QED BY <2>7, <3>1, InSight
  <2>9. PICK v : v = Entry("report", fp.scl, fp.size) OBVIOUS
  <2>10. /\ SameFat(Seen, Seen') /\ Seen'[Boot] = Seen[Boot]
         /\ \A x \in Places : UnitAt(Seen', x) = (IF x = <<win.s, fp.i>> THEN v ELSE UnitAt(Seen, x))
         /\ win'.s = win.s /\ win'.dirty
    <3>1. Change(fp.i, v) /\ UNCHANGED card BY <1>0, <2>9
    <3> QED BY <2>6, <2>7, <2>8, <3>1, TextChanged
  <2>11. PICK k : k = Seen OBVIOUS
  <2>12. PICK h : h = Seen' OBVIOUS
  <2>13. PICK b : b = before OBVIOUS
  <2>14. PICK m : m = n OBVIOUS
  <2>15. PICK scl : scl = fp.scl OBVIOUS
  <2>16. PICK size \in Nat : size = fp.size BY <1>0
  <2>17. /\ Good(k, D, F, l, b, m) /\ IsReport(UnitAt(k, l)) /\ SameFat(k, h) /\ h[Boot] = k[Boot]
         /\ size <= Len(F) * ClusterUnits /\ HasText(k, F, size, b, m)
    BY <2>1, <2>4, <2>10, <2>11, <2>12, <2>13, <2>14, <2>16 DEF Work
  <2>18. scl = IF F = <<>> THEN 0 ELSE F[1] BY <2>4, <2>15
  <2>19. \A x \in Places : UnitAt(h, x) = IF x = l THEN Entry("report", scl, size) ELSE UnitAt(k, x)
    BY <2>4, <2>7, <2>9, <2>10, <2>11, <2>12, <2>15, <2>16
  <2>20. Good(h, D, F, l, b, m) BY <2>17, <2>18, <2>19, EntryWritten
  <2>21. Good(Seen', D, F, l, before, n) BY <2>12, <2>13, <2>14, <2>20
  <2>22. /\ Searching(Seen, D)' /\ DirGrows(Seen, D)' /\ Linking(Seen, D, F)'
         /\ InTheFile(Seen, F, l)' /\ InTheCluster(F)'
    BY <1>0 DEF Searching, DirGrows, Linking, InTheFile, InFile, InTheCluster, Chaining
  <2>23. Work(D, F, C, G, l)' BY <1>0, <2>1, <2>21, <2>22 DEF Work
  <2>24. Fresh' BY <2>10 DEF Fresh
  <2> QED BY <2>23, <2>24
<1> QED BY <1>0, <1>1, <1>2, <1>3, Onward

(* Less than a sector: the window is the file's sector, unread.              *)
LEMMA EdgeSound == ASSUME StorageInv, CardInv, Edge PROVE CardInv'
<1>0. /\ at = "sector" /\ at' = "copy" /\ ~win.dirty
      /\ win' = [s |-> DataSector(fp.c, Csect), data |-> Filled(Junk), dirty |-> FALSE]
      /\ fp' = [fp EXCEPT !.sect = DataSector(fp.c, Csect)]
      /\ UNCHANGED <<card, chain, dir, done, sdVars, callVars>> /\ before' = before /\ n' = n
      /\ Working /\ at \notin Resting /\ InFile /\ fp.ptr \in Nat /\ sound' = sound
      /\ fp.ptr % SectorUnits = 0
  BY DEF Edge, Here, Syncs, sdVars, callVars, Working, Resting, RowPlaces, InFile, StorageInv, FileIs
<1>1. at' \notin RowPlaces \cup {"boot"} /\ Unwritten' /\ Untouched'
  BY <1>0 DEF RowPlaces, Unwritten, Untouched, Chaining
<1>2. sound => CardOK(card', before, n) BY <1>0 DEF CardInv
<1>3. fp' = [entry |-> fp.entry, i |-> fp.i, scl |-> fp.scl, size |-> fp.size, ptr |-> fp.ptr,
             c |-> fp.c, sect |-> DataSector(fp.c, Csect), modified |-> fp.modified]
  BY <1>0 DEF StorageInv, FileIs
<1>4. /\ fp'.entry = fp.entry /\ fp'.i = fp.i /\ fp'.scl = fp.scl /\ fp'.size = fp.size
      /\ fp'.ptr = fp.ptr /\ fp'.c = fp.c /\ fp'.sect = DataSector(fp.c, Csect)
  BY <1>3
<1>5. ~win'.dirty /\ win'.s = DataSector(fp.c, Csect) /\ win'.data = Filled(Junk) BY <1>0
<1>6. Seen = card /\ Seen' = card' /\ Seen' = Seen BY <1>0, <1>5 DEF Seen, SeenOn
<1>7. ASSUME sound PROVE Fresh' /\ \E D, F, C, G, l : Work(D, F, C, G, l)'
  <2>1. PICK D, F, C, G, l : Work(D, F, C, G, l) BY <1>0, <1>7 DEF CardInv
  <2>2. InTheFile(Seen, F, l) /\ InTheCluster(F) /\ F \in Seq(Clusters)
    BY <2>1 DEF Work, Good, Struct, Chains, Leads
  <2>3. fp.ptr < Len(F) * ClusterUnits /\ fp.c = F[1 + fp.ptr \div ClusterUnits]
    BY <1>0, <2>2 DEF InTheCluster
  <2>4. PICK a \in 1..Len(F), s \in 0..(ClusterSectors - 1), r \in 0..(SectorUnits - 1) :
            /\ 1 + fp.ptr \div ClusterUnits = a /\ (fp.ptr \div SectorUnits) % ClusterSectors = s
            /\ SectorsOf(F)[1 + fp.ptr \div SectorUnits] = DataSector(F[a], s)
    BY <1>0, <2>2, <2>3, PtrIs
  <2>5. SectorsOf(F)[1 + fp.ptr \div SectorUnits] = DataSector(fp.c, Csect)
    BY <2>3, <2>4 DEF Csect
  <2>6. InTheCluster(F)' BY <1>0, <1>4, <1>5, <2>3, <2>5 DEF InTheCluster, Chaining
  <2>7. InTheFile(Seen, F, l)'
    <3>1. InTheFile(Seen, F, l) BY <2>2
    <3> QED BY <1>0, <1>4, <1>5, <1>6, <3>1 DEF InTheFile
  <2>8. Searching(Seen, D)' /\ DirGrows(Seen, D)' /\ Linking(Seen, D, F)'
    BY <1>0 DEF Searching, DirGrows, Linking, Chaining
  <2>9. Work(D, F, C, G, l)' BY <1>0, <1>6, <2>1, <2>6, <2>7, <2>8 DEF Work
  <2>10. Fresh' BY <1>0, <1>4 DEF Fresh
  <2> QED BY <2>9, <2>10
<1> QED BY <1>0, <1>1, <1>2, <1>7, Onward

(* The seek to the end.                                                      *)
LEMMA SeekSound == ASSUME StorageInv, CardInv, Seek PROVE CardInv'
<1>0. /\ at = "seek" /\ Wanted \in {Nowhere, win.s}
      /\ (fp.ptr > ClusterUnits => Wanted = FatOf(fp.c))
      /\ UNCHANGED <<card, win, chain, dir, done, sdVars, callVars>> /\ before' = before /\ n' = n
      /\ Working /\ at \notin Resting \cup {"copy", "close", "sync"} /\ InFile /\ fp.ptr \in Nat /\ fp.size \in Nat
      /\ sound' = sound /\ Seen' = Seen /\ done' = done /\ win' = win
  BY WantedAt DEF Seek, Here, sdVars, callVars, Working, Resting, RowPlaces, InFile, StorageInv, FileIs, Seen, SeenOn
<1>a. PICK w \in Nat \ {0} : w = ClusterUnits BY Geometry
<1>1. CASE at' = "leave" BY <1>0, <1>1, Leaving
<1>2. ASSUME at' \in {"seek", "write"},
             sound => \E D, F, C, G, l :
                         Work(D, F, C, G, l) /\ InTheFile(Seen, F, l)' /\ InTheCluster(F)'
      PROVE  CardInv'
  <2>1. at' \notin Resting \cup {"boot", "fsinfo", "leave", "sync"} \cup SearchPlaces
    BY <1>2 DEF Resting, RowPlaces, SearchPlaces
  <2>2. Untouched'
    <3>1. done = 0 BY <1>0 DEF CardInv, Untouched
    <3> QED BY <1>0, <3>1 DEF Untouched
  <2>3. \A D, F : DirGrows(Seen, D)' /\ Linking(Seen, D, F)' BY <1>2 DEF DirGrows, Linking, Chaining
  <2>4. sound => \E D, F, C, G, l :
                     /\ Work(D, F, C, G, l) /\ DirGrows(Seen, D)' /\ Linking(Seen, D, F)'
                     /\ InTheFile(Seen, F, l)' /\ InTheCluster(F)'
    BY <1>2, <2>3
  <2> QED BY <1>0, <2>1, <2>2, <2>4, Quiet
<1>3. ASSUME sound
      PROVE  \E D, F, C, G, l, b : /\ Work(D, F, C, G, l) /\ F \in Seq(Clusters) /\ Len(F) \in Nat
                /\ Leads(Seen, F)
                /\ InTheFile(Seen, F, l) /\ fp.ptr \in 1..fp.size /\ fp.size <= Len(F) * ClusterUnits
                /\ b \in Nat /\ fp.size = fp.ptr + b * ClusterUnits /\ fp.c = F[1 + b] /\ 1 + b \in 1..Len(F)
  <2>1. PICK D, F, C, G, l : Work(D, F, C, G, l) BY <1>0, <1>3 DEF CardInv
  <2>2. InTheFile(Seen, F, l) /\ InTheCluster(F) /\ F \in Seq(Clusters) /\ Len(F) \in Nat /\ Leads(Seen, F)
    BY <2>1 DEF Work, Good, Struct, Chains, Leads
  <2>3. fp.ptr \in 1..fp.size /\ fp.size <= Len(F) * ClusterUnits
    BY <1>0, <2>2 DEF InTheCluster, InTheFile
  <2>4. PICK b \in Nat : fp.size = fp.ptr + b * ClusterUnits /\ fp.c = F[1 + b]
    BY <1>0, <2>2 DEF InTheCluster
  <2>5. PICK h \in Nat : h = Len(F) BY <2>2
  <2>6. b < h
    <3> SUFFICES ASSUME b >= h PROVE FALSE OBVIOUS
    <3>1. (b - h) * w >= 0 OBVIOUS
    <3>2. (b - h) * w = b * w - h * w OBVIOUS
    <3>3. b * w \in Int /\ h * w \in Int OBVIOUS
    <3>4. fp.ptr + b * w <= h * w /\ fp.ptr > 0 BY <1>0, <1>a, <2>3, <2>4, <2>5
    <3> QED BY <1>0, <3>1, <3>2, <3>3, <3>4
  <2>7. 1 + b \in 1..Len(F) BY <2>5, <2>6
  <2> QED BY <2>1, <2>2, <2>3, <2>4, <2>7
<1>4. CASE fp.ptr > ClusterUnits
  <2> DEFINE c == GetFat(fp.c)
  <2>1. (Fails /\ UNCHANGED fp)
        \/ (c >= 2 /\ fp' = [fp EXCEPT !.c = c, !.ptr = @ - ClusterUnits] /\ at' = at)
    <3>1. c \in Int
      <4>1. c \in {1} \cup FatEntries BY <1>0, <1>4, FatHere
      <4> QED BY <4>1, Geometry DEF FatEntries
    <3> HIDE DEF c
    <3>2. IF c < 2 THEN Fails /\ UNCHANGED fp
             ELSE /\ fp' = [fp EXCEPT !.c = c, !.ptr = @ - ClusterUnits]
                  /\ UNCHANGED <<at, result, locked>>
      BY <1>4 DEF Seek, c
    <3> QED BY <3>1, <3>2
  <2>2. CASE Fails /\ UNCHANGED fp BY <1>0, <1>1, <2>2, FailsTo
  <2>3. CASE c >= 2 /\ fp' = [fp EXCEPT !.c = c, !.ptr = @ - ClusterUnits] /\ at' = at
    <3> HIDE DEF c
    <3>1. fp' = [entry |-> fp.entry, i |-> fp.i, scl |-> fp.scl, size |-> fp.size, ptr |-> fp.ptr - ClusterUnits,
                 c |-> c, sect |-> fp.sect, modified |-> fp.modified]
      BY <2>3 DEF StorageInv, FileIs
    <3>2. /\ fp'.entry = fp.entry /\ fp'.i = fp.i /\ fp'.scl = fp.scl /\ fp'.size = fp.size
          /\ fp'.ptr = fp.ptr - ClusterUnits /\ fp'.c = c /\ fp'.sect = fp.sect
      BY <3>1
    <3>3. ASSUME sound PROVE \E D, F, C, G, l :
                         Work(D, F, C, G, l) /\ InTheFile(Seen, F, l)' /\ InTheCluster(F)'
      <4>1. PICK D, F, C, G, l, b : /\ Work(D, F, C, G, l) /\ F \in Seq(Clusters) /\ Len(F) \in Nat
                /\ Leads(Seen, F)
                /\ InTheFile(Seen, F, l) /\ fp.ptr \in 1..fp.size /\ fp.size <= Len(F) * ClusterUnits
                /\ b \in Nat /\ fp.size = fp.ptr + b * ClusterUnits /\ fp.c = F[1 + b] /\ 1 + b \in 1..Len(F)
        BY <1>3, <3>3
      <4>2. PICK h \in Nat : h = Len(F) BY <4>1
      <4>3. b + 1 < h
        <5> SUFFICES ASSUME b + 1 >= h PROVE FALSE BY <4>1
        <5>0. b \in Nat BY <4>1
        <5>1. (b + 1 - h) * w >= 0 BY <5>0
        <5>2. (b + 1 - h) * w = b * w + w - h * w BY <5>0
        <5>3. b * w \in Int /\ h * w \in Int BY <5>0
        <5>4. fp.ptr + b * w <= h * w /\ fp.ptr > w BY <1>4, <1>a, <4>1, <4>2
        <5> QED BY <1>0, <5>1, <5>2, <5>3, <5>4
      <4>4. PICK e \in Nat : e = b + 1 BY <4>1
      <4>5. e \in 1..Len(F) /\ e < Len(F) /\ fp.c = F[e] /\ 1 + e = e + 1
        <5>1. 1 + b = e BY <4>1, <4>4
        <5> QED BY <4>1, <4>2, <4>3, <4>4, <5>1
      <4>6. F[e] \in Clusters /\ Fat(Seen, F[e]) = F[e + 1] BY <4>1, <4>5 DEF Leads
      <4>7. Fresh BY <1>0, <3>3 DEF CardInv
      <4>8. c = F[1 + e]
        <5>1. GetFat(fp.c) = Fat(Seen, fp.c) BY <1>0, <1>4, <4>5, <4>6, <4>7, FatSeen
        <5> QED BY <4>5, <4>6, <5>1 DEF c
      <4>9. fp.size = fp'.ptr + e * ClusterUnits /\ fp'.ptr \in 1..fp.size
        <5>1. PICK x \in Nat, z \in Nat : x = fp.ptr /\ z = fp.size BY <1>0
        <5>2. b \in Nat BY <4>1
        <5>3. (b + 1) * w = b * w + w /\ b * w \in Nat BY <5>2
        <5>4. z = x + b * w /\ x > w BY <1>4, <1>a, <4>1, <5>1
        <5>5. z = (x - w) + (b + 1) * w /\ x - w \in 1..z BY <5>3, <5>4
        <5> QED BY <1>a, <3>2, <4>4, <5>1, <5>5
      <4>10. InTheCluster(F)'
        <5>1. at' = "seek" BY <1>0, <2>3
        <5> QED BY <3>2, <4>8, <4>9, <5>1 DEF InTheCluster, Chaining
      <4>11. InTheFile(Seen, F, l)'
        <5>1. InTheFile(Seen, F, l) BY <4>1
        <5> QED BY <1>0, <2>3, <3>2, <5>1 DEF InTheFile
      <4> QED BY <4>1, <4>10, <4>11
    <3> QED BY <1>0, <1>2, <2>3, <3>3
  <2> QED BY <2>1, <2>2, <2>3
<1>5. CASE ~(fp.ptr > ClusterUnits)
  <2> DEFINE sect == IF fp.size % SectorUnits = 0 THEN Nowhere ELSE DataSector(fp.c, fp.ptr \div SectorUnits)
  <2>1. at' = "write" /\ fp' = [fp EXCEPT !.ptr = fp.size, !.sect = sect] BY <1>5 DEF Seek
  <2> HIDE DEF sect
  <2>2. fp' = [entry |-> fp.entry, i |-> fp.i, scl |-> fp.scl, size |-> fp.size, ptr |-> fp.size,
               c |-> fp.c, sect |-> sect, modified |-> fp.modified]
    BY <2>1 DEF StorageInv, FileIs
  <2>3. /\ fp'.entry = fp.entry /\ fp'.i = fp.i /\ fp'.scl = fp.scl /\ fp'.size = fp.size
        /\ fp'.ptr = fp.size /\ fp'.c = fp.c /\ fp'.sect = sect
    BY <2>2
  <2>4. ASSUME sound PROVE \E D, F, C, G, l :
                       Work(D, F, C, G, l) /\ InTheFile(Seen, F, l)' /\ InTheCluster(F)'
    <3>1. PICK D, F, C, G, l, b : /\ Work(D, F, C, G, l) /\ F \in Seq(Clusters) /\ Len(F) \in Nat
              /\ Leads(Seen, F)
              /\ InTheFile(Seen, F, l) /\ fp.ptr \in 1..fp.size /\ fp.size <= Len(F) * ClusterUnits
              /\ b \in Nat /\ fp.size = fp.ptr + b * ClusterUnits /\ fp.c = F[1 + b] /\ 1 + b \in 1..Len(F)
      BY <1>3, <2>4
    <3>2. PICK x \in Nat, z \in Nat : x = fp.ptr /\ z = fp.size BY <1>0
    <3>3. z = x + b * w /\ x \in 1..w /\ b \in Nat /\ b * w \in Nat
      <4>1. b \in Nat BY <3>1
      <4>2. b * w \in Nat BY <4>1
      <4> QED BY <1>5, <1>a, <3>1, <3>2, <4>1, <4>2
    <3>4. fp.c = F[1 + (z - 1) \div w]
      <4>1. PICK y \in Nat : y = z - 1 BY <3>3
      <4>2. x - 1 \in 0..(w - 1) /\ b \in Int BY <3>3
      <4>3. y = b * w + (x - 1) BY <3>3, <4>1
      <4>4. y \div w = b BY <4>2, <4>3, DividedBy, Zenon
      <4> QED BY <3>1, <4>1, <4>4
    <3>5. ASSUME z % SectorUnits # 0
          PROVE  z < Len(F) * ClusterUnits /\ sect = SectorsOf(F)[1 + z \div SectorUnits]
      <4>1. PICK m \in Nat \ {0}, cs \in Nat \ {0} : m = SectorUnits /\ cs = ClusterSectors /\ w = cs * m
        <5>1. ClusterUnits = ClusterSectors * SectorUnits BY DEF ClusterUnits
        <5>2. ClusterSectors \in Nat \ {0} /\ SectorUnits \in Nat \ {0} BY Geometry
        <5> QED BY <1>a, <5>1, <5>2, Zenon
      <4>2. z # Len(F) * ClusterUnits
        <5> SUFFICES ASSUME z = Len(F) * ClusterUnits PROVE FALSE OBVIOUS
        <5>1. PICK h \in Nat : h = Len(F) BY <3>1
        <5>2. PICK q \in Int : q = h * cs OBVIOUS
        <5>3. h * (cs * m) = q * m + 0
          <6>1. (h * cs) * m = h * (cs * m) OBVIOUS
          <6>2. h * (cs * m) \in Int /\ q * m \in Int OBVIOUS
          <6> QED BY <5>2, <6>1, <6>2
        <5>4. z = q * m + 0 BY <1>a, <4>1, <5>1, <5>3
        <5>5. 0 \in 0..(m - 1) OBVIOUS
        <5>6. z % m = 0 BY <5>4, <5>5, DividedBy, Zenon
        <5> QED BY <3>5, <4>1, <5>6
      <4>3. z < Len(F) * ClusterUnits
        <5>1. Len(F) * ClusterUnits \in Nat BY <3>1, PreSelf, PrePlaces
        <5> QED BY <3>1, <3>2, <4>2, <5>1
      <4>4. PICK a \in 1..Len(F), s \in 0..(ClusterSectors - 1), r \in 0..(SectorUnits - 1) :
            /\ z = (a - 1) * ClusterUnits + s * SectorUnits + r
            /\ 1 + z \div ClusterUnits = a /\ (z \div SectorUnits) % ClusterSectors = s
            /\ z % SectorUnits = r /\ z % ClusterUnits = s * SectorUnits + r
            /\ SectorsOf(F)[1 + z \div SectorUnits] = DataSector(F[a], s)
        BY <3>1, <4>3, PtrIs
      <4>5. x # w
        <5> SUFFICES ASSUME x = w PROVE FALSE OBVIOUS
        <5>1. PICK q \in Int : q = (b + 1) * cs BY <3>3
        <5>2. (b + 1) * (cs * m) = q * m + 0
          <6>0. PICK e \in Int : e = b + 1 BY <3>3
          <6>1. (e * cs) * m = e * (cs * m) OBVIOUS
          <6>2. e * (cs * m) \in Int /\ q * m \in Int OBVIOUS
          <6> QED BY <5>1, <6>0, <6>1, <6>2
        <5>3. (b + 1) * w = b * w + w BY <3>3
        <5>4. z = q * m + 0 BY <3>3, <4>1, <5>2, <5>3
        <5>5. 0 \in 0..(m - 1) OBVIOUS
        <5>6. z % m = 0 BY <5>4, <5>5, DividedBy, Zenon
        <5> QED BY <3>5, <4>1, <5>6
      <4>6. z \div w = b /\ z % w = x
        <5>1. x \in 0..(w - 1) /\ z = b * w + x /\ b \in Int BY <3>3, <4>5
        <5> QED BY <5>1, DividedBy, Zenon
      <4>7. a = 1 + b BY <1>a, <4>4, <4>6
      <4>8. x = s * m + r /\ s \in Int /\ r \in 0..(m - 1) BY <1>a, <4>1, <4>4, <4>6
      <4>9. x \div m = s BY <4>8, DividedBy, Zenon
      <4>10. sect = DataSector(fp.c, s) BY <3>2, <3>5, <4>1, <4>9 DEF sect
      <4> QED BY <3>1, <4>3, <4>4, <4>7, <4>10
    <3>6. InTheCluster(F)'
      <4>1. fp'.ptr = z BY <2>3, <3>2
      <4>2. at' \notin Chaining BY <2>1 DEF Chaining
      <4> QED BY <1>a, <2>1, <2>3, <3>4, <3>5, <4>1, <4>2 DEF InTheCluster
    <3>7. InTheFile(Seen, F, l)'
      <4>1. InTheFile(Seen, F, l) BY <3>1
      <4>2. win.dirty => win.s \in FatSectors \cup {fp.entry} BY <1>0, <4>1 DEF InTheFile
      <4> QED BY <1>0, <2>1, <2>3, <4>1, <4>2 DEF InTheFile
    <3> QED BY <3>1, <3>6, <3>7
  <2> QED BY <1>2, <2>1, <2>4
<1> QED BY <1>4, <1>5

(* The card is in order as before, and holds no report.                      *)
Cleared(k, h, D, F, l, b, m) == Good(h, D, F, l, b, m) /\ NoReport(h) /\ Size(h, l) = Size(k, l)

(* Where there is no report, units that become the end of a directory        *)
(* change nothing that is read.                                              *)
LEMMA GoodCleared ==
  ASSUME NEW k, NEW h, NEW D, NEW F, NEW l, NEW b, NEW m, Good(k, D, F, l, b, m), NoReport(k),
         SameFat(k, h), h[Boot] = k[Boot],
         \A x \in Places : UnitAt(h, x) \in {UnitAt(k, x), EndOfDir}
  PROVE  Cleared(k, h, D, F, l, b, m)
<1>1. Chains(k, D, F) /\ l \in Places /\ Entries(k, D, l) BY DEF Good, Struct
<1>2. Chains(h, D, F) BY <1>1, ChainsSame
<1>3. ~IsReport(EndOfDir) /\ Len(EndOfDir) = 1 BY DEF IsReport, EndOfDir
<1>4. NoReport(h)
  <2> SUFFICES ASSUME NEW x \in Places PROVE ~IsReport(UnitAt(h, x)) BY DEF NoReport
  <2>1. UnitAt(h, x) \in {UnitAt(k, x), EndOfDir} /\ ~IsReport(UnitAt(k, x)) BY DEF NoReport
  <2> QED BY <1>3, <2>1
<1>5. ~IsReport(UnitAt(h, l)) /\ ~IsReport(UnitAt(k, l)) BY <1>1, <1>4 DEF NoReport
<1>6. Size(h, l) = 0 /\ Size(k, l) = 0 BY <1>5 DEF Size
<1>7. Entries(h, D, l)
  <2>1. ASSUME NEW x \in Places, Len(UnitAt(h, x)) = 3
        PROVE  UnitAt(h, x) \in {Other, Label} \/ (IsReport(UnitAt(h, x)) /\ x = l)
    <3>1. UnitAt(h, x) = UnitAt(k, x) BY <1>3, <2>1
    <3> QED BY <1>1, <2>1, <3>1 DEF Entries
  <2> QED BY <1>5, <2>1 DEF Entries
<1>8. Claim(h, F, l) BY <1>5 DEF Claim
<1>9. HasText(h, F, Size(h, l), b, m)
  <2>1. HasText(k, F, 0, b, m) BY <1>6 DEF Good
  <2> QED BY <1>6, <2>1 DEF HasText
<1>10. Good(h, D, F, l, b, m) BY <1>1, <1>2, <1>7, <1>8, <1>9 DEF Good, Struct
<1> QED BY <1>4, <1>6, <1>10 DEF Cleared

(* What is free in the directory before its last cluster is so whatever      *)
(* becomes of that.                                                          *)
LEMMA UnfreeKept ==
  ASSUME NEW k, NEW h, NEW D, NEW F, Chains(k, D, F), k[Boot] = "fat32", h[Boot] = "fat32", Len(D) > 1,
         Unfree(k, D, (Len(D) - 1) * ClusterUnits),
         \A x \in Places : UnitAt(h, x) = UnitAt(k, x)
            \/ \E s \in 0..(ClusterSectors - 1) : x[1] = DataSector(D[Len(D)], s)
  PROVE  Unfree(h, D, (Len(D) - 1) * ClusterUnits)
<1>1. D \in Seq(Clusters) /\ Leads(k, D) BY DEF Chains, Leads
<1>2. PICK e \in Nat, w \in Nat \ {0} : e = Len(D) - 1 /\ w = ClusterUnits
  <2>1. Len(D) \in Nat BY <1>1
  <2> QED BY <2>1, Geometry
<1>3. SUFFICES ASSUME NEW q \in 1..(e * w) PROVE ~IsFree(TableUnit(h, D, q))
  BY <1>2 DEF Unfree
<1>4. ~IsFree(TableUnit(k, D, q)) BY <1>2, <1>3 DEF Unfree
<1>5. q \in 1..(Len(D) * ClusterUnits)
  <2>1. Len(D) = e + 1 BY <1>1, <1>2
  <2>2. (e + 1) * w = e * w + w /\ e * w \in Nat BY <1>2
  <2> QED BY <1>2, <1>3, <2>1, <2>2
<1>6. PICK a \in 1..Len(D), s \in 0..(ClusterSectors - 1), i \in 1..SectorUnits :
         PlaceOf(SectorsOf(D), q) = <<DataSector(D[a], s), i>> /\ a = 1 + (q - 1) \div ClusterUnits
  BY <1>1, <1>5, FilePlace
<1>7. a # Len(D)
  <2>1. PICK x \in Nat : x = q - 1 /\ x < e * w
    <3>1. e * w \in Nat BY <1>2
    <3> QED BY <1>3, <3>1
  <2>2. x \div w \in 0..(e - 1) BY <2>1, PartBelow, Zenon
  <2>3. a = 1 + x \div w BY <1>2, <1>6, <2>1
  <2>4. Len(D) = e + 1 BY <1>1, <1>2
  <2> QED BY <2>2, <2>3, <2>4
<1>8. Len(D) \in 1..Len(D) BY <1>1
<1>9. D[a] # D[Len(D)] BY <1>1, <1>7, <1>8, LeadsOnce
<1>10. TablePlace(k, D, q) = PlaceOf(SectorsOf(D), q) /\ TablePlace(h, D, q) = PlaceOf(SectorsOf(D), q)
  BY DEF TablePlace, TableSectors
<1>11. PlaceOf(SectorsOf(D), q) \in Places BY <1>1, <1>5, FileInPlaces
<1>12. UnitAt(h, PlaceOf(SectorsOf(D), q)) = UnitAt(k, PlaceOf(SectorsOf(D), q))
  <2>1. \A t : DataSector(D[a], s) # DataSector(D[Len(D)], t) BY <1>9, SectorPlaces
  <2>2. PlaceOf(SectorsOf(D), q)[1] = DataSector(D[a], s) BY <1>6
  <2> QED BY <1>11, <2>1, <2>2
<1> QED BY <1>4, <1>10, <1>12 DEF TableUnit

(* dir_clear.                                                                *)
LEMMA DirClearSound == ASSUME StorageInv, CardInv, DirClear PROVE CardInv'
<1>0. /\ at = "clear" /\ ~win.dirty /\ UNCHANGED <<fp, chain, sdVars, callVars, done>>
      /\ at \notin Resting /\ Working /\ before' = before /\ n' = n /\ sound' = sound
      /\ win' = [s |-> DataSector(chain.ncl, 0), data |-> Filled(EndOfDir), dirty |-> FALSE]
      /\ done' = done /\ chain' = chain
  BY DEF DirClear, Here, Syncs, sdVars, callVars, Resting, RowPlaces, Working
<1>1. \/ /\ \A s \in 0..(ClusterSectors - 1) : card'[DataSector(chain.ncl, s)] = Filled(EndOfDir)
         /\ dir' = [c |-> chain.ncl, s |-> 0, i |-> 1] /\ at' = "alloc"
      \/ at' = "leave"
  BY <1>0 DEF DirClear, Fails, Chaining
<1>2. \A x \in SectorSet : card'[x] = card[x]
         \/ \E s \in 0..(ClusterSectors - 1) : x = DataSector(chain.ncl, s) /\ card'[x] = Filled(EndOfDir)
  <2>1. PICK j \in 0..ClusterSectors :
          card' = [k \in DOMAIN card |->
                     IF \E s \in 0..(j - 1) : k = DataSector(chain.ncl, s)
                     THEN Filled(EndOfDir) ELSE card[k]]
    BY DEF DirClear
  <2>2. ASSUME NEW x \in SectorSet, card'[x] # card[x]
        PROVE  \E s \in 0..(ClusterSectors - 1) : x = DataSector(chain.ncl, s) /\ card'[x] = Filled(EndOfDir)
    <3>1. x \in DOMAIN card BY DEF StorageInv, CardHolds
    <3>2. \E s \in 0..(j - 1) : x = DataSector(chain.ncl, s) BY <2>1, <2>2, <3>1
    <3>3. card'[x] = Filled(EndOfDir) BY <2>1, <3>1, <3>2
    <3>4. \A s \in 0..(j - 1) : s \in 0..(ClusterSectors - 1) BY Geometry
    <3> QED BY <3>2, <3>3, <3>4
  <2> QED BY <2>2
<1>3. Seen = card /\ Seen' = card' BY <1>0 DEF Seen, SeenOn
<1>4. Unwritten' /\ Untouched'
  <2>1. ~win'.dirty BY <1>0
  <2>2. done = 0 BY <1>0 DEF CardInv, Untouched
  <2> QED BY <1>0, <2>1, <2>2 DEF Unwritten, Untouched
<1>5. ASSUME sound
      PROVE  \E D, F, C, G, l :
               /\ Work(D, F, C, G, l) /\ Cleared(card, card', D, F, l, before, n)
               /\ Cleared(card, card', C, G, l, before, n)
               /\ card'[Boot] = "fat32" /\ Len(D) > 1 /\ chain.ncl = D[Len(D)]
               /\ Unfree(card', D, (Len(D) - 1) * ClusterUnits)
  <2>1. PICK D, F, C, G, l : Work(D, F, C, G, l) BY <1>0, <1>5 DEF CardInv
  <2>2. PICK k : k = card OBVIOUS
  <2>3. PICK h : h = card' OBVIOUS
  <2>4. PICK b : b = before OBVIOUS
  <2>5. PICK m : m = n OBVIOUS
  <2>6. Good(k, D, F, l, b, m) /\ Good(k, C, G, l, b, m) BY <1>3, <2>1, <2>2, <2>4, <2>5 DEF Work
  <2>7. /\ k[Boot] = "fat32" /\ NoReport(k) /\ Len(D) > 1 /\ chain.ncl = D[Len(D)]
        /\ Unfree(k, D, (Len(D) - 1) * ClusterUnits)
    BY <1>0, <1>3, <2>1, <2>2 DEF Work, DirGrows
  <2>8. PICK c : c = chain.ncl OBVIOUS
  <2>9. \A x \in SectorSet : h[x] = k[x]
           \/ \E s \in 0..(ClusterSectors - 1) : x = DataSector(c, s) /\ h[x] = Filled(EndOfDir)
    BY <1>2, <2>2, <2>3, <2>8
  <2>10. h[Boot] = k[Boot] BY <2>9, Sectors, Names
  <2>11. SameFat(k, h)
    <3> SUFFICES ASSUME NEW x \in Clusters PROVE Fat(h, x) = Fat(k, x) BY DEF SameFat
    <3>1. h[FatSector(x)] = k[FatSector(x)] BY <2>9, Sectors, Names
    <3> QED BY <3>1 DEF Fat
  <2>12. \A x \in Places : UnitAt(h, x) = UnitAt(k, x)
           \/ (UnitAt(h, x) = EndOfDir /\ \E s \in 0..(ClusterSectors - 1) : x[1] = DataSector(c, s))
    <3> SUFFICES ASSUME NEW x \in Places, UnitAt(h, x) # UnitAt(k, x)
                 PROVE  UnitAt(h, x) = EndOfDir /\ \E s \in 0..(ClusterSectors - 1) : x[1] = DataSector(c, s)
      OBVIOUS
    <3>1. x[1] \in SectorSet /\ x[2] \in 1..SectorUnits BY DEF Places, TextSectors
    <3>2. h[x[1]] # k[x[1]] BY DEF UnitAt
    <3>3. h[x[1]] = Filled(EndOfDir) /\ \E s \in 0..(ClusterSectors - 1) : x[1] = DataSector(c, s)
      BY <2>9, <3>1, <3>2
    <3> QED BY <3>1, <3>3 DEF UnitAt, Filled
  <2>13. Cleared(k, h, D, F, l, b, m) /\ Cleared(k, h, C, G, l, b, m)
    BY <2>6, <2>7, <2>10, <2>11, <2>12, GoodCleared
  <2>14. Unfree(h, D, (Len(D) - 1) * ClusterUnits)
    <3>1. Chains(k, D, F) BY <2>6 DEF Good, Struct
    <3>2. c = D[Len(D)] BY <2>7, <2>8
    <3> QED BY <2>7, <2>10, <2>12, <3>1, <3>2, UnfreeKept
  <2> QED BY <2>1, <2>2, <2>3, <2>4, <2>5, <2>7, <2>10, <2>13, <2>14
<1>6. sound => CardOK(card', before, n)
  <2> SUFFICES ASSUME sound PROVE CardOK(card', before, n) OBVIOUS
  <2>1. PICK D, F, C, G, l : Cleared(card, card', D, F, l, before, n) BY <1>5
  <2> QED BY <2>1, GoodIsOK DEF Cleared
<1>7. CASE at' = "leave"
  <2>1. ~Working' BY <1>7 DEF Working
  <2>2. at' \notin RowPlaces \cup {"boot"} BY <1>7 DEF RowPlaces
  <2> QED BY <1>0, <1>4, <1>6, <2>1, <2>2, Onward
<1>8. CASE /\ \A s \in 0..(ClusterSectors - 1) : card'[DataSector(chain.ncl, s)] = Filled(EndOfDir)
           /\ dir' = [c |-> chain.ncl, s |-> 0, i |-> 1] /\ at' = "alloc"
  <2>1. Fresh'
    <3>1. 0 \in 0..(ClusterSectors - 1) BY Geometry
    <3>2. win'.data = card'[win'.s] BY <1>0, <1>8, <3>1
    <3> QED BY <3>2 DEF Fresh
  <2>2. ASSUME sound PROVE \E D, F, C, G, l : Work(D, F, C, G, l)'
    <3>1. PICK D, F, C, G, l :
               /\ Work(D, F, C, G, l) /\ Cleared(card, card', D, F, l, before, n)
               /\ Cleared(card, card', C, G, l, before, n)
               /\ card'[Boot] = "fat32" /\ Len(D) > 1 /\ chain.ncl = D[Len(D)]
               /\ Unfree(card', D, (Len(D) - 1) * ClusterUnits)
      BY <1>5, <2>2
    <3>2. Good(Seen', D, F, l, before, n) /\ Good(card', C, G, l, before, n)
      BY <1>3, <3>1 DEF Cleared
    <3>3. Size(Seen', l) = Len(before) /\ Size(card', l) = Len(before)
      BY <1>0, <1>3, <3>1 DEF Cleared, Work
    <3>4. D \in Seq(Clusters) BY <3>2 DEF Good, Struct, Chains, Leads
    <3>5. Searching(Seen, D)'
      <4>1. NoReport(Seen') BY <1>3, <3>1 DEF Cleared
      <4>2. PICK a \in Nat \ {0}, w \in Nat \ {0} : a = Len(D) /\ w = ClusterUnits
        <5>1. Len(D) \in Nat \ {0} BY <3>1, <3>4
        <5> QED BY <5>1, Geometry
      <4>3. PICK p \in Nat : p = (a - 1) * w + 1 /\ p - 1 = (a - 1) * w
        <5>1. (a - 1) * w \in Nat BY <4>2
        <5> QED BY <5>1
      <4>4. dir'.c = D[a] /\ dir'.s = 0 /\ dir'.i = 1 BY <1>8, <3>1, <4>2
      <4>5. p = (a - 1) * ClusterUnits + dir'.s * SectorUnits + dir'.i
        <5>1. 0 * SectorUnits = 0 /\ (a - 1) * w \in Int BY Geometry
        <5> QED BY <4>2, <4>3, <4>4, <5>1
      <4>6. Spot(Seen'[Boot], D, dir', a, p) BY <1>3, <3>1, <4>2, <4>4, <4>5 DEF Spot
      <4>7. Unfree(Seen', D, p - 1) BY <1>3, <3>1, <4>2, <4>3
      <4> QED BY <1>8, <4>1, <4>6, <4>7 DEF Searching
    <3>6. /\ DirGrows(Seen, D)' /\ Linking(Seen, D, F)' /\ InTheFile(Seen, F, l)' /\ InTheCluster(F)'
      BY <1>8 DEF DirGrows, Linking, InTheFile, InFile, InTheCluster, Chaining
    <3>7. Pre(C, D) /\ Pre(G, F) BY <3>1 DEF Work
    <3>8. Work(D, F, C, G, l)' BY <1>0, <3>2, <3>3, <3>5, <3>6, <3>7 DEF Work
    <3> QED BY <3>8
  <2>3. at' \notin RowPlaces \cup {"boot"} BY <1>8 DEF RowPlaces
  <2> QED BY <1>0, <1>4, <1>6, <2>1, <2>2, <2>3, Onward
<1> QED BY <1>1, <1>7, <1>8

(* The sector the x-th unit of a file is in, counted from 0.                 *)
LEMMA SectorAt ==
  ASSUME NEW F \in Seq(Clusters), NEW x \in Nat, x < Len(F) * ClusterUnits
  PROVE  /\ SectorsOf(F)[1 + x \div SectorUnits] \in TextSectors
         /\ x % SectorUnits \in 0..(SectorUnits - 1)
         /\ \A i \in 1..SectorUnits :
              /\ x - (x % SectorUnits) + i \in 1..(Len(F) * ClusterUnits)
              /\ PlaceOf(SectorsOf(F), x - (x % SectorUnits) + i) = <<SectorsOf(F)[1 + x \div SectorUnits], i>>
<1>1. PICK a \in 1..Len(F), s \in 0..(ClusterSectors - 1), r \in 0..(SectorUnits - 1) :
            /\ x = (a - 1) * ClusterUnits + s * SectorUnits + r /\ x % SectorUnits = r
            /\ SectorsOf(F)[1 + x \div SectorUnits] = DataSector(F[a], s)
  BY PtrIs
<1>2. DataSector(F[a], s) \in TextSectors BY SectorPlaces
<1>3. ASSUME NEW i \in 1..SectorUnits
      PROVE  /\ x - (x % SectorUnits) + i \in 1..(Len(F) * ClusterUnits)
             /\ PlaceOf(SectorsOf(F), x - (x % SectorUnits) + i) = <<DataSector(F[a], s), i>>
  <2>1. /\ (a - 1) * ClusterUnits + s * SectorUnits + i \in 1..(Len(F) * ClusterUnits)
        /\ PlaceOf(SectorsOf(F), (a - 1) * ClusterUnits + s * SectorUnits + i) = <<DataSector(F[a], s), i>>
    BY FilePlaceAt, Zenon
  <2>2. PICK y \in Int, z \in Int : y = (a - 1) * ClusterUnits /\ z = s * SectorUnits
    <3>1. a - 1 \in Int /\ ClusterUnits \in Int /\ s \in Int /\ SectorUnits \in Int BY Geometry
    <3> QED BY <3>1
  <2>3. x - (x % SectorUnits) + i = (a - 1) * ClusterUnits + s * SectorUnits + i
    <3>1. x = y + z + r /\ x % SectorUnits = r /\ r \in Int BY <1>1, <2>2
    <3>2. x - (x % SectorUnits) + i = y + z + i
      <4>1. x - r + i = y + z + i BY <3>1
      <4>2. x % SectorUnits = r BY <1>1, Zenon
      <4> QED BY <4>1, <4>2, Zenon
    <3>3. y + z + i = (a - 1) * ClusterUnits + s * SectorUnits + i BY <2>2, Zenon
    <3> QED BY <3>2, <3>3, Zenon
  <2> QED BY <2>1, <2>3
<1> QED BY <1>1, <1>2, <1>3

(* What is written from there stays in it.                                   *)
LEMMA WithinSector ==
  ASSUME NEW F \in Seq(Clusters), NEW x \in Nat, x < Len(F) * ClusterUnits, NEW u \in Nat \ {0},
         (x % SectorUnits) + u <= SectorUnits
  PROVE  /\ x + u <= Len(F) * ClusterUnits
         /\ (x + u - 1) \div ClusterUnits = x \div ClusterUnits
         /\ (x + u) % SectorUnits # 0 =>
              x + u < Len(F) * ClusterUnits /\ (x + u) \div SectorUnits = x \div SectorUnits
<1>1. PICK m \in Nat \ {0}, w \in Nat \ {0}, h \in Nat :
         m = SectorUnits /\ w = ClusterUnits /\ h = Len(F) * ClusterUnits
  <2>1. Len(F) * ClusterUnits \in Nat BY PreSelf, PrePlaces
  <2> QED BY <2>1, Geometry
<1>2. PICK a \in 1..Len(F), s \in 0..(ClusterSectors - 1), r \in 0..(SectorUnits - 1) :
            /\ x = (a - 1) * ClusterUnits + s * SectorUnits + r /\ x % SectorUnits = r
            /\ 1 + x \div ClusterUnits = a
  BY PtrIs
<1>3. x - r + m \in 1..h
  <2>1. m \in 1..SectorUnits BY <1>1
  <2>2. x - (x % SectorUnits) + m \in 1..(Len(F) * ClusterUnits) BY <2>1, SectorAt
  <2>3. x % SectorUnits = r BY <1>2, Zenon
  <2>4. x - r + m \in 1..(Len(F) * ClusterUnits) BY <2>2, <2>3, Zenon
  <2> QED BY <1>1, <2>4, Zenon
<1>4. r + u <= m /\ r \in Nat BY <1>1, <1>2
<1>5. x + u <= h BY <1>3, <1>4
<1>6. (x + u - 1) \div w = x \div w
  <2>1. PICK i \in 1..SectorUnits : i = r + u BY <1>1, <1>4
  <2>2. s * SectorUnits + i \in 1..ClusterUnits BY FilePlaceAt, Zenon
  <2>3. PICK z \in Int : z = s * SectorUnits BY <1>1
  <2>4. PICK y \in Nat : y = x + u - 1 OBVIOUS
  <2>5. PICK e \in 0..(w - 1) : e = z + i - 1 BY <1>1, <2>2, <2>3
  <2>6. PICK b \in Int : b = a - 1 OBVIOUS
  <2>7. y = b * w + e
    <3>1. PICK q \in Int : q = b * w OBVIOUS
    <3>2. x = q + z + r BY <1>1, <1>2, <2>3, <2>6, <3>1
    <3> QED BY <2>1, <2>4, <2>5, <3>1, <3>2
  <2>8. y \div w = b BY <2>7, DividedBy, Zenon
  <2>9. x \div w \in Int /\ 1 + x \div w = a BY <1>1, <1>2
  <2> QED BY <2>4, <2>6, <2>8, <2>9
<1>7. ASSUME (x + u) % m # 0 PROVE x + u < h /\ (x + u) \div m = x \div m
  <2>1. PICK q \in Nat, t \in 0..(m - 1) : x \div m = q /\ x % m = t /\ x = q * m + t BY Divides
  <2>2. t = r BY <1>1, <1>2, <2>1
  <2>3. PICK y \in Nat : y = x + u OBVIOUS
  <2>4. r + u # m
    <3> SUFFICES ASSUME r + u = m PROVE FALSE OBVIOUS
    <3>1. (q + 1) * m = q * m + m /\ q * m \in Int /\ q + 1 \in Int OBVIOUS
    <3>2. y = (q + 1) * m + 0 BY <2>1, <2>2, <2>3, <3>1
    <3>3. 0 \in 0..(m - 1) OBVIOUS
    <3>4. y % m = 0 BY <3>1, <3>2, <3>3, DividedBy, Zenon
    <3> QED BY <1>7, <2>3, <3>4
  <2>5. PICK e \in 0..(m - 1) : e = r + u BY <1>4, <2>4
  <2>6. y = q * m + e
    <3>1. PICK z \in Int : z = q * m OBVIOUS
    <3> QED BY <2>1, <2>2, <2>3, <2>5, <3>1
  <2>7. q \in Int OBVIOUS
  <2>8. y \div m = q BY <2>6, <2>7, DividedBy, Zenon
  <2>9. x + u < h BY <1>3, <1>4, <2>4
  <2> QED BY <2>1, <2>3, <2>8, <2>9
<1> QED BY <1>1, <1>5, <1>6, <1>7

(* The text goes on up to the Q-th unit.                                     *)
Continued(k, h, D, F, l, b, m, P, Q) == Texted(k, h, D, F, l, b, m, P) /\ HasText(h, F, Q, b, m)

(* The file goes on: the report's next units after what it has.              *)
LEMMA TextGoesOn ==
  ASSUME NEW k, NEW h, NEW D, NEW F, NEW l, NEW b, NEW m, Good(k, D, F, l, b, m), IsReport(UnitAt(k, l)),
         SameFat(k, h), h[Boot] = k[Boot], IsSeq(b), NEW t \in Nat, NEW P \in Nat, P = Len(b) + t,
         Size(k, l) = Len(b), HasText(k, F, P, b, m), NEW Q \in Nat, Q >= P, Q <= Len(F) * ClusterUnits,
         t + (Q - P) <= ReportUnits,
         \A x \in Places : \/ UnitAt(h, x) = UnitAt(k, x)
                           \/ /\ Len(UnitAt(h, x)) = 2
                              /\ \E y \in 1..(Len(F) * ClusterUnits) : y > P /\ x = PlaceOf(SectorsOf(F), y),
         \A y \in (P + 1)..Q : FileUnit(h, F, y) = <<m, t + (y - P)>>
  PROVE  Continued(k, h, D, F, l, b, m, P, Q)
<1>1. \A x \in Places : UnitAt(h, x) = UnitAt(k, x) \/ (Len(UnitAt(h, x)) = 2 /\ Spare(k, D, F, l, P, x))
  BY FileSpare
<1>2. Len(b) \in Nat BY DEF IsSeq
<1>3. Size(k, l) <= P BY <1>2
<1>4. Texted(k, h, D, F, l, b, m, P) BY <1>1, <1>3, GoodTexted
<1>5. HasText(h, F, Q, b, m)
  <2>0. Len(F) * ClusterUnits \in Nat
    <3>1. F \in Seq(Clusters) BY DEF Good, Struct, Chains, Leads
    <3> QED BY <3>1, PreSelf, PrePlaces
  <2>1. Len(b) <= Q /\ Q <= Len(b) + ReportUnits BY <1>2, Geometry
  <2>2. ASSUME NEW x \in 1..Q PROVE FileUnit(h, F, x) = (b \o Report(m))[x]
    <3>1. CASE x <= P
      <4>1. x \in 1..P /\ x <= Len(F) * ClusterUnits BY <2>0, <3>1
      <4>2. FileUnit(h, F, x) = FileUnit(k, F, x) BY <1>4, <4>1 DEF Texted
      <4> QED BY <4>1, <4>2 DEF HasText
    <3>2. CASE x > P
      <4>1. x \in (P + 1)..Q BY <3>2
      <4>2. PICK i \in 1..ReportUnits : i = t + (x - P)
        <5>1. PICK R \in Nat : R = ReportUnits BY Geometry
        <5>2. t + (x - P) \in 1..R
          <6>1. x - P \in 1..(Q - P) BY <4>1
          <6>2. t + (Q - P) <= R BY <5>1
          <6> QED BY <6>1, <6>2
        <5> QED BY <5>1, <5>2
      <4>3. x = Len(b) + i BY <1>2, <4>2
      <4>4. (b \o Report(m))[Len(b) + i] = <<m, i>> BY ZenonT(40), DueIs
      <4> QED BY <4>1, <4>2, <4>3, <4>4
    <3>3. x <= P \/ x > P
      <4>1. x \in Nat /\ P \in Nat OBVIOUS
      <4> QED BY <4>1
    <3> QED BY <3>1, <3>2, <3>3, Zenon
  <2> QED BY <2>1, <2>2 DEF HasText
<1> QED BY <1>4, <1>5 DEF Continued

(* Text into the window.                                                     *)
LEMMA CopySound == ASSUME StorageInv, CardInv, Copy PROVE CardInv'
<1> DEFINE o == fp.ptr % SectorUnits
           u == IF SectorUnits - o < Left THEN SectorUnits - o ELSE Left
           d == [i \in 1..SectorUnits |->
                   IF i \in (o + 1)..(o + u) THEN <<n, done + i - o>> ELSE win.data[i]]
<1>0. /\ at = "copy" /\ InFile /\ UNCHANGED <<card, dir, chain, sdVars, callVars>>
      /\ before' = before /\ n' = n /\ sound' = sound /\ Working /\ at \notin Resting
      /\ win.s = fp.sect /\ fp.ptr \in Nat /\ done \in Nat
      /\ Left \in Nat \ {0} /\ done + Left = ReportUnits
  <2>1. /\ at = "copy" /\ Wanted \in {Nowhere, win.s} /\ UNCHANGED <<card, dir, chain, sdVars, callVars>>
        /\ before' = before /\ n' = n /\ sound' = sound
    BY DEF Copy, Here, sdVars, callVars
  <2>2. InFile /\ fp.sect[1] = "data" BY <2>1 DEF InFile, StorageInv, FileIs
  <2>3. win.s = fp.sect BY <2>1, <2>2, WantedAt, Names
  <2>4. Left > 0 /\ done \in 0..ReportUnits /\ fp.ptr \in Nat BY <2>1, <2>2 DEF StorageInv, FileIs
  <2>5. Left \in Nat \ {0} /\ done + Left = ReportUnits BY <2>4, Geometry DEF Left
  <2>6. Working /\ at \notin Resting BY <2>1 DEF Working, Resting, RowPlaces
  <2> QED BY <2>1, <2>2, <2>3, <2>4, <2>5, <2>6
<1>1. win' = [s |-> win.s, data |-> d, dirty |-> TRUE] BY DEF Copy, StorageInv, WindowHolds
<1>2. /\ fp' = [entry |-> fp.entry, i |-> fp.i, scl |-> fp.scl, size |-> fp.ptr + u,
                ptr |-> fp.ptr + u, c |-> fp.c, sect |-> fp.sect, modified |-> fp.modified]
      /\ done' = done + u /\ at' = "write"
  BY DEF Copy, Written, StorageInv, FileIs
<1>3. u \in Nat \ {0} /\ u <= Left /\ o \in 0..(SectorUnits - 1) /\ o + u <= SectorUnits
  <2>1. PICK m \in Nat \ {0}, x \in Nat : m = SectorUnits /\ x = fp.ptr BY <1>0, Geometry
  <2>2. x % m \in 0..(m - 1) OBVIOUS
  <2>3. o \in 0..(m - 1) BY <2>1, <2>2
  <2> HIDE DEF o
  <2> QED BY <1>0, <2>1, <2>3
<1>4. o = fp.ptr % SectorUnits OBVIOUS
<1>5. \A i \in 1..SectorUnits : d[i] = IF i \in (o + 1)..(o + u) THEN <<n, done + i - o>> ELSE win.data[i]
  OBVIOUS
<1> HIDE DEF o, u, d
<1>6. /\ fp'.entry = fp.entry /\ fp'.i = fp.i /\ fp'.scl = fp.scl /\ fp'.size = fp.ptr + u
      /\ fp'.ptr = fp.ptr + u /\ fp'.c = fp.c /\ fp'.sect = fp.sect
  BY <1>2
<1>7. at' \notin RowPlaces \cup {"boot"} /\ Unwritten' /\ Untouched' /\ Fresh'
  BY <1>1, <1>2 DEF RowPlaces, Unwritten, Untouched, Chaining, Fresh
<1>8. sound => CardOK(card', before, n) BY <1>0 DEF CardInv
<1>9. ASSUME sound PROVE \E D, F, C, G, l : Work(D, F, C, G, l)'
  <2>1. PICK D, F, C, G, l : Work(D, F, C, G, l) BY <1>0, <1>9 DEF CardInv
  <2>2. Fresh BY <1>0, <1>9 DEF CardInv
  <2>3. InTheFile(Seen, F, l) /\ InTheCluster(F) /\ F \in Seq(Clusters)
    BY <2>1 DEF Work, Good, Struct, Chains, Leads
  <2>4. /\ l = <<fp.entry, fp.i>> /\ IsReport(UnitAt(Seen, l)) /\ fp.scl = (IF F = <<>> THEN 0 ELSE F[1])
        /\ fp.ptr = fp.size /\ fp.size = Len(before) + done /\ HasText(Seen, F, fp.size, before, n)
    BY <1>0, <2>3 DEF InTheFile
  <2>5. /\ fp.ptr < Len(F) * ClusterUnits /\ fp.sect = SectorsOf(F)[1 + fp.ptr \div SectorUnits]
        /\ fp.c = F[1 + fp.ptr \div ClusterUnits]
        /\ o = 0 => win.data = Filled(Junk) /\ ~win.dirty
    BY <1>0, <1>4, <2>3 DEF InTheCluster
  <2>6. /\ win.s \in TextSectors
        /\ \A i \in 1..SectorUnits :
              /\ fp.ptr - o + i \in 1..(Len(F) * ClusterUnits)
              /\ PlaceOf(SectorsOf(F), fp.ptr - o + i) = <<win.s, i>>
    BY <1>0, <1>4, <2>3, <2>5, SectorAt
  <2>7. win.s \in SectorSet /\ win.s \notin FatSectors /\ win.s # Boot BY <2>6, SectorPlaces
  <2>8. o # 0 => win.data = Seen[win.s]
    <3> SUFFICES ASSUME o # 0 PROVE win.data = Seen[win.s] OBVIOUS
    <3>1. win.dirty \in BOOLEAN BY DEF StorageInv, WindowHolds
    <3>2. win.dirty \/ win.data = card[win.s] BY <1>0, <1>4, <2>2, <2>7, <3>1 DEF Fresh
    <3> QED BY <2>7, <3>2, InSight
  <2>9. \A s \in SectorSet : Seen'[s] = IF s = win.s THEN d ELSE Seen[s]
    BY <1>0, <1>1, <2>7, SeenChanged
  <2>10. PICK k : k = Seen OBVIOUS
  <2>11. PICK h : h = Seen' OBVIOUS
  <2>12. PICK b : b = before OBVIOUS
  <2>13. PICK m : m = n OBVIOUS
  <2>a. PICK t \in Nat : t = done BY <1>0
  <2>b. PICK P \in Nat : P = fp.ptr BY <1>0
  <2>c. PICK v \in Nat \ {0}, e \in Nat : v = u /\ e = o BY <1>3
  <2>d. PICK Q \in Nat : Q = P + v OBVIOUS
  <2>14. t = done /\ P = fp.ptr /\ Q = fp.ptr + u /\ Q >= P /\ Q - P = u /\ Q = P + u
    <3>1. Q >= P /\ Q - P = v BY <2>d
    <3> QED BY <2>a, <2>b, <2>c, <2>d, <3>1, Zenon
  <2>15. Good(k, D, F, l, b, m) /\ IsReport(UnitAt(k, l)) /\ HasText(k, F, P, b, m)
         /\ P = Len(b) + t /\ Size(k, l) = Len(b)
    BY <1>0, <2>1, <2>4, <2>10, <2>12, <2>13, <2>14 DEF Work
  <2>16. IsSeq(b) BY <1>9, <2>12 DEF CardInv, CardOK
  <2>17. SameFat(k, h) /\ h[Boot] = k[Boot]
    <3>1. \A c \in Clusters : Seen'[FatSector(c)] = Seen[FatSector(c)] BY <2>7, <2>9, Sectors
    <3>2. Seen'[Boot] = Seen[Boot] BY <2>7, <2>9, Sectors
    <3> QED BY <2>10, <2>11, <3>1, <3>2 DEF SameFat, Fat
  <2>18. Q <= Len(F) * ClusterUnits /\ (Q - 1) \div ClusterUnits = P \div ClusterUnits
         /\ (Q % SectorUnits # 0 => Q < Len(F) * ClusterUnits /\ Q \div SectorUnits = P \div SectorUnits)
    <3>1. P < Len(F) * ClusterUnits /\ (P % SectorUnits) + u <= SectorUnits
      BY <1>3, <1>4, <2>5, <2>14
    <3>2. /\ P + u <= Len(F) * ClusterUnits
          /\ (P + u - 1) \div ClusterUnits = P \div ClusterUnits
          /\ (P + u) % SectorUnits # 0 =>
               P + u < Len(F) * ClusterUnits /\ (P + u) \div SectorUnits = P \div SectorUnits
      BY <1>3, <2>3, <3>1, WithinSector, Zenon
    <3>3. Q - 1 = P + u - 1 /\ Q = P + u BY <2>c, <2>d
    <3>4. Q <= Len(F) * ClusterUnits BY <3>2, <3>3, Zenon
    <3>5. (Q - 1) \div ClusterUnits = P \div ClusterUnits BY <3>2, <3>3, Zenon
    <3>6. Q % SectorUnits # 0 => Q < Len(F) * ClusterUnits /\ Q \div SectorUnits = P \div SectorUnits
      BY <3>2, <3>3, Zenon
    <3> QED BY <3>4, <3>5, <3>6, Zenon
  <2>19. t + (Q - P) <= ReportUnits BY SMTT(30), <1>0, <1>3, <2>14, Geometry
  <2>20. \A x \in Places : \/ UnitAt(h, x) = UnitAt(k, x)
                           \/ /\ Len(UnitAt(h, x)) = 2
                              /\ \E y \in 1..(Len(F) * ClusterUnits) : y > P /\ x = PlaceOf(SectorsOf(F), y)
    <3> SUFFICES ASSUME NEW x \in Places, UnitAt(h, x) # UnitAt(k, x)
                 PROVE  /\ Len(UnitAt(h, x)) = 2
                        /\ \E y \in 1..(Len(F) * ClusterUnits) : y > P /\ x = PlaceOf(SectorsOf(F), y)
      OBVIOUS
    <3>1. x[1] \in SectorSet /\ x[2] \in 1..SectorUnits /\ x = <<x[1], x[2]>>
      BY DEF Places, TextSectors
    <3>2. PICK i \in 1..SectorUnits : i = x[2] BY <3>1
    <3>3. x[1] = win.s BY <2>9, <2>10, <2>11, <3>1 DEF UnitAt
    <3>4. UnitAt(h, x) = d[i] /\ UnitAt(k, x) = Seen[win.s][i]
      BY <2>7, <2>9, <2>10, <2>11, <3>2, <3>3 DEF UnitAt
    <3>5. Len(d[i]) = 2 /\ i > o
      <4>1. CASE i \in (o + 1)..(o + u)
        <5>1. d[i] = <<n, done + i - o>> BY <1>5, <4>1
        <5> QED BY <1>3, <4>1, <5>1
      <4>2. CASE i \notin (o + 1)..(o + u)
        <5>1. d[i] = win.data[i] BY <1>5, <4>2
        <5>2. o = 0 BY <2>8, <3>4, <5>1
        <5>3. d[i] = Junk BY <2>5, <5>1, <5>2 DEF Filled
        <5>4. Len(Junk) = 2 BY DEF Junk
        <5> QED BY <5>2, <5>3, <5>4
      <4> QED BY <4>1, <4>2
    <3>6. PICK y \in 1..(Len(F) * ClusterUnits) : y = fp.ptr - o + i BY <2>6
    <3>7. PlaceOf(SectorsOf(F), y) = x BY <2>6, <3>1, <3>2, <3>3, <3>6
    <3>8. y > P
      <4>1. y = P - e + i /\ i > e BY <2>b, <2>c, <3>5, <3>6, Zenon
      <4> QED BY <4>1
    <3> QED BY <3>4, <3>5, <3>7, <3>8
  <2>21. \A y \in (P + 1)..Q : FileUnit(h, F, y) = <<m, t + (y - P)>>
    <3> SUFFICES ASSUME NEW y \in (P + 1)..Q PROVE FileUnit(h, F, y) = <<m, t + (y - P)>> OBVIOUS
    <3>1. PICK i \in 1..SectorUnits : i = o + (y - P) /\ i \in (o + 1)..(o + u)
      <4>1. PICK j \in 1..v : j = y - P BY <2>d
      <4>2. e + v <= SectorUnits /\ SectorUnits \in Nat BY <1>3, <2>c, Geometry
      <4>3. e + j \in 1..SectorUnits /\ e + j \in (e + 1)..(e + v) BY <4>2
      <4> QED BY <2>c, <4>1, <4>3
    <3>2. y = fp.ptr - o + i BY <1>0, <1>3, <2>14, <3>1
    <3>3. PlaceOf(SectorsOf(F), y) = <<win.s, i>> BY <2>6, <3>2
    <3>4. FileUnit(h, F, y) = d[i] BY <2>7, <2>9, <2>11, <3>3 DEF FileUnit, UnitAt
    <3>5. d[i] = <<n, done + i - o>> BY <1>5, <3>1
    <3>6. done + i - o = t + (y - P) BY <1>0, <1>3, <2>14, <3>1
    <3> QED BY <2>13, <3>4, <3>5, <3>6
  <2>22. Continued(k, h, D, F, l, b, m, P, Q)
    BY <2>14, <2>15, <2>16, <2>17, <2>18, <2>19, <2>20, <2>21, TextGoesOn
  <2>23. /\ Good(h, D, F, l, b, m) /\ UnitAt(h, l) = UnitAt(k, l) /\ Size(h, l) = Size(k, l)
         /\ HasText(h, F, Q, b, m)
    BY <2>22 DEF Continued, Texted
  <2>24. Good(Seen', D, F, l, before, n) /\ Size(Seen', l) = Len(before)
    BY <2>11, <2>12, <2>13, <2>15, <2>23
  <2>25. Good(card', C, G, l, before, n) /\ Size(card', l) = Len(before) /\ Pre(C, D) /\ Pre(G, F)
    BY <1>0, <2>1 DEF Work
  <2>26. InTheFile(Seen, F, l)'
    <3>1. IsReport(UnitAt(Seen', l)) /\ HasText(Seen', F, Q, before, n)
      BY <2>11, <2>12, <2>13, <2>15, <2>23
    <3>2. fp'.size = Q /\ fp'.ptr = Q BY <1>6, <2>14
    <3>3. Q = Len(before) + done' 
      <4>1. PICK y \in Nat : y = Len(before) BY <2>12, <2>16 DEF IsSeq
      <4>2. fp.ptr = y + done BY <2>4, <4>1
      <4> QED BY <1>0, <1>2, <1>3, <2>14, <4>1, <4>2
    <3>4. win'.s = fp'.sect BY <1>0, <1>1, <1>6
    <3> QED BY <1>0, <1>2, <1>6, <2>4, <2>18, <3>1, <3>2, <3>3, <3>4 DEF InTheFile
  <2>27. InTheCluster(F)'
    <3>1. fp'.ptr = Q /\ fp'.c = F[1 + (Q - 1) \div ClusterUnits] BY <1>6, <2>5, <2>14, <2>18
    <3>2. Q % SectorUnits # 0 => Q < Len(F) * ClusterUnits /\ fp'.sect = SectorsOf(F)[1 + Q \div SectorUnits]
      BY <1>6, <2>5, <2>14, <2>18
    <3> QED BY <1>2, <3>1, <3>2 DEF InTheCluster, Chaining
  <2>28. Searching(Seen, D)' /\ DirGrows(Seen, D)' /\ Linking(Seen, D, F)'
    BY <1>2 DEF Searching, DirGrows, Linking, Chaining
  <2>29. Work(D, F, C, G, l)' BY <1>0, <2>24, <2>25, <2>26, <2>27, <2>28 DEF Work
  <2> QED BY <2>29
<1> QED BY <1>0, <1>7, <1>8, <1>9, Onward

(* The sectors of a file from its x-th unit on, to the end of the cluster.   *)
LEMMA RunAt ==
  ASSUME NEW F \in Seq(Clusters), NEW x \in Nat, x < Len(F) * ClusterUnits, x % SectorUnits = 0,
         NEW c, c = F[1 + x \div ClusterUnits], NEW q, q = (x \div SectorUnits) % ClusterSectors
  PROVE  /\ q \in 0..(ClusterSectors - 1)
         /\ \A i \in Nat : q + i < ClusterSectors =>
              /\ DataSector(c, q + i) \in TextSectors
              /\ \A u \in 1..SectorUnits :
                   /\ x + i * SectorUnits + u \in 1..(Len(F) * ClusterUnits)
                   /\ PlaceOf(SectorsOf(F), x + i * SectorUnits + u) = <<DataSector(c, q + i), u>>
<1>1. PICK a \in 1..Len(F), s \in 0..(ClusterSectors - 1), r \in 0..(SectorUnits - 1) :
            /\ x = (a - 1) * ClusterUnits + s * SectorUnits + r /\ x % SectorUnits = r
            /\ 1 + x \div ClusterUnits = a /\ (x \div SectorUnits) % ClusterSectors = s
  BY PtrIs
<1>2. r = 0 /\ c = F[a] /\ q = s BY <1>1
<1>3. PICK m \in Nat \ {0}, y \in Int : m = SectorUnits /\ y = (a - 1) * ClusterUnits
  <2>1. a - 1 \in Int /\ ClusterUnits \in Int BY Geometry
  <2>2. (a - 1) * ClusterUnits \in Int BY <2>1
  <2> QED BY <2>2, Geometry
<1>4. ASSUME NEW i \in Nat, s + i < ClusterSectors, NEW u \in 1..SectorUnits
      PROVE  /\ x + i * SectorUnits + u \in 1..(Len(F) * ClusterUnits)
             /\ PlaceOf(SectorsOf(F), x + i * SectorUnits + u) = <<DataSector(c, s + i), u>>
  <2>1. PICK t \in 0..(ClusterSectors - 1) : t = s + i BY <1>4, Geometry
  <2>2. /\ (a - 1) * ClusterUnits + t * SectorUnits + u \in 1..(Len(F) * ClusterUnits)
        /\ PlaceOf(SectorsOf(F), (a - 1) * ClusterUnits + t * SectorUnits + u) = <<DataSector(F[a], t), u>>
    <3>1. a \in 1..Len(F) /\ t \in 0..(ClusterSectors - 1) /\ u \in 1..SectorUnits OBVIOUS
    <3> QED BY <3>1, FilePlaceAt
  <2>3. (a - 1) * ClusterUnits + t * SectorUnits + u = x + i * SectorUnits + u
    <3>1. PICK v \in Int, z \in Int : v = s * m /\ z = i * m OBVIOUS
    <3>2. t * m = v + z
      <4>1. (s + i) * m = s * m + i * m OBVIOUS
      <4> QED BY <2>1, <3>1, <4>1
    <3>3. x = y + v BY <1>1, <1>2, <1>3, <3>1
    <3>4. y + t * m + u = x + z + u BY <3>2, <3>3
    <3> QED BY <1>3, <3>1, <3>4, Zenon
  <2>4. DataSector(F[a], t) = DataSector(c, s + i) BY <1>2, <2>1, Zenon
  <2> QED BY <2>2, <2>3, <2>4, Zenon
<1>5. ASSUME NEW i \in Nat, s + i < ClusterSectors PROVE DataSector(c, s + i) \in TextSectors
  <2>1. s + i \in 0..(ClusterSectors - 1) BY <1>5, Geometry
  <2>2. F[a] \in Clusters OBVIOUS
  <2> QED BY <1>2, <2>1, <2>2, SectorPlaces
<1> QED BY <1>2, <1>4, <1>5

(* Where a run of j of them ends.                                            *)
LEMMA RunEnds ==
  ASSUME NEW F \in Seq(Clusters), NEW x \in Nat, x < Len(F) * ClusterUnits, x % SectorUnits = 0,
         NEW j \in Nat \ {0}, ((x \div SectorUnits) % ClusterSectors) + j <= ClusterSectors,
         NEW z \in Nat, z = x + j * SectorUnits
  PROVE  /\ z <= Len(F) * ClusterUnits /\ z % SectorUnits = 0
         /\ (z - 1) \div ClusterUnits = x \div ClusterUnits
<1>1. PICK a \in 1..Len(F), s \in 0..(ClusterSectors - 1), r \in 0..(SectorUnits - 1) :
            /\ x = (a - 1) * ClusterUnits + s * SectorUnits + r /\ x % SectorUnits = r
            /\ 1 + x \div ClusterUnits = a /\ (x \div SectorUnits) % ClusterSectors = s
  BY PtrIs
<1>2. PICK m \in Nat \ {0}, w \in Nat \ {0}, h \in Nat :
         m = SectorUnits /\ w = ClusterUnits /\ h = Len(F) * ClusterUnits
  <2>1. Len(F) * ClusterUnits \in Nat BY PreSelf, PrePlaces
  <2> QED BY <2>1, Geometry
<1>3. r = 0 BY <1>1
<1>4. PICK i \in Nat : i = j - 1 OBVIOUS
<1>5. PICK t \in 0..(ClusterSectors - 1) : t = s + i BY <1>1, <1>4, Geometry
<1>6. m \in 1..SectorUnits BY <1>2
<1>7. /\ (a - 1) * ClusterUnits + t * SectorUnits + m \in 1..(Len(F) * ClusterUnits)
      /\ t * SectorUnits + m \in 1..ClusterUnits
  BY <1>6, FilePlaceAt, Zenon
<1>8. PICK y \in Int, v \in Int, b \in Int : b = a - 1 /\ y = b * w /\ v = t * m OBVIOUS
<1>9. z = y + v + m
  <2>1. (s + i + 1) * m = s * m + j * m
    <3>1. j = i + 1 BY <1>4
    <3>2. (s + i + 1) * m = s * m + (i + 1) * m OBVIOUS
    <3> QED BY <3>1, <3>2
  <2>2. (t + 1) * m = v + m BY <1>8
  <2>3. PICK p \in Int, o \in Int : p = s * m /\ o = j * m OBVIOUS
  <2>4. v + m = p + o BY <1>5, <2>1, <2>2, <2>3
  <2>5. x = y + p BY <1>1, <1>2, <1>3, <1>8, <2>3
  <2>6. z = x + o BY <1>2, <2>3
  <2> QED BY <2>4, <2>5, <2>6
<1>10. z <= h BY <1>2, <1>7, <1>8, <1>9
<1>11. (z - 1) \div w = x \div w
  <2>1. PICK e \in 0..(w - 1) : e = v + m - 1 BY <1>2, <1>7, <1>8
  <2>2. PICK g \in Nat : g = z - 1
    <3>1. z # 0
      <4>1. j * m > 0 BY <1>2
      <4> QED BY <1>2, <4>1
    <3> QED BY <3>1
  <2>3. g = b * w + e BY <1>8, <1>9, <2>1, <2>2
  <2>4. g \div w = b
    <3>1. g \in Nat /\ w \in Nat \ {0} /\ b \in Int /\ e \in 0..(w - 1) OBVIOUS
    <3>2. g \div w = b /\ g % w = e BY <2>3, <3>1, DividedBy
    <3> QED BY <3>2
  <2>5. x \div w = b
    <3>1. x \div w \in Int /\ 1 + x \div w = a BY <1>1, <1>2
    <3> QED BY <1>8, <3>1
  <2> QED BY <2>2, <2>4, <2>5, Zenon
<1>12. z % m = 0
  <2>1. (x + j * m) % m = x % m BY Mod, Zenon
  <2> QED BY <1>2, <2>1
<1> QED BY <1>2, <1>10, <1>11, <1>12

(* A card as it is when the first j sectors of a run have been written.      *)
Wrote(k, h, c, q, j, t, m) ==
  \A x \in SectorSet :
    \/ h[x] = k[x] /\ \A i \in 0..(j - 1) : x # DataSector(c, q + i)
    \/ \E i \in 0..(j - 1) : x = DataSector(c, q + i)
                             /\ h[x] = [u \in 1..SectorUnits |-> <<m, t + i * SectorUnits + u>>]

(* A run of j sectors of text m is behind the P-th unit of the file.         *)
RunPlaced(k, h, F, P, j, t, m) ==
  /\ SameFat(k, h) /\ h[Boot] = k[Boot]
  /\ \A x \in Places : \/ UnitAt(h, x) = UnitAt(k, x)
                       \/ /\ Len(UnitAt(h, x)) = 2
                          /\ \E y \in 1..(Len(F) * ClusterUnits) : y > P /\ x = PlaceOf(SectorsOf(F), y)
  /\ \A y \in (P + 1)..(P + j * SectorUnits) : FileUnit(h, F, y) = <<m, t + (y - P)>>

(* Sectors written one after the other in a cluster are the file's next      *)
(* ones.                                                                     *)
LEMMA RunIs ==
  ASSUME NEW k, NEW h, NEW F \in Seq(Clusters), NEW P \in Nat, P < Len(F) * ClusterUnits,
         P % SectorUnits = 0, NEW c, c = F[1 + P \div ClusterUnits],
         NEW q, q = (P \div SectorUnits) % ClusterSectors, NEW j \in Nat, q + j <= ClusterSectors,
         NEW t \in Nat, NEW m, Wrote(k, h, c, q, j, t, m)
  PROVE  RunPlaced(k, h, F, P, j, t, m)
<1>1. /\ q \in 0..(ClusterSectors - 1)
      /\ \A i \in Nat : q + i < ClusterSectors =>
              /\ DataSector(c, q + i) \in TextSectors
              /\ \A u \in 1..SectorUnits :
                   /\ P + i * SectorUnits + u \in 1..(Len(F) * ClusterUnits)
                   /\ PlaceOf(SectorsOf(F), P + i * SectorUnits + u) = <<DataSector(c, q + i), u>>
  BY RunAt
<1>2. \A i \in 0..(j - 1) : i \in Nat /\ q + i < ClusterSectors BY <1>1, Geometry
<1>3. \A i \in 0..(j - 1) : DataSector(c, q + i) \in TextSectors BY <1>1, <1>2
<1>4. \A x \in SectorSet : x \notin TextSectors => h[x] = k[x]
  <2> SUFFICES ASSUME NEW x \in SectorSet, x \notin TextSectors PROVE h[x] = k[x] OBVIOUS
  <2>1. \A i \in 0..(j - 1) : x # DataSector(c, q + i) BY <1>3
  <2> QED BY <2>1 DEF Wrote
<1>5. SameFat(k, h) /\ h[Boot] = k[Boot]
  <2>1. \A x \in Clusters : FatSector(x) \in SectorSet /\ FatSector(x) \notin TextSectors
    BY Sectors, SectorPlaces
  <2>2. Boot \in SectorSet /\ Boot \notin TextSectors BY Sectors, SectorPlaces
  <2> QED BY <1>4, <2>1, <2>2 DEF SameFat, Fat
<1>6. PICK w \in Nat \ {0} : w = SectorUnits BY Geometry
<1>7. ASSUME NEW x \in Places, UnitAt(h, x) # UnitAt(k, x)
      PROVE  /\ Len(UnitAt(h, x)) = 2
             /\ \E y \in 1..(Len(F) * ClusterUnits) : y > P /\ x = PlaceOf(SectorsOf(F), y)
  <2>1. x[1] \in SectorSet /\ x[2] \in 1..SectorUnits /\ x = <<x[1], x[2]>>
    BY DEF Places, TextSectors
  <2>2. PICK i \in 0..(j - 1) : x[1] = DataSector(c, q + i)
                       /\ h[x[1]] = [u \in 1..SectorUnits |-> <<m, t + i * SectorUnits + u>>]
    <3>1. h[x[1]] # k[x[1]] BY <1>7 DEF UnitAt
    <3> QED BY <2>1, <3>1 DEF Wrote
  <2>3. PICK u \in 1..SectorUnits : u = x[2] BY <2>1
  <2>4. UnitAt(h, x) = <<m, t + i * SectorUnits + u>> BY <2>2, <2>3 DEF UnitAt
  <2>5. P + i * SectorUnits + u \in 1..(Len(F) * ClusterUnits)
        /\ PlaceOf(SectorsOf(F), P + i * SectorUnits + u) = <<DataSector(c, q + i), u>>
    BY <1>1, <1>2
  <2>6. PICK y \in 1..(Len(F) * ClusterUnits) : y = P + i * SectorUnits + u BY <2>5
  <2>7. y > P
    <3>1. i * w \in Nat BY <1>2
    <3> QED BY <1>6, <2>6, <3>1
  <2>8. x = PlaceOf(SectorsOf(F), y) BY <2>1, <2>2, <2>3, <2>5, <2>6
  <2> QED BY <2>4, <2>7, <2>8
<1>8. ASSUME NEW y \in (P + 1)..(P + j * SectorUnits) PROVE FileUnit(h, F, y) = <<m, t + (y - P)>>
  <2>1. PICK x \in Nat : x = y - P - 1 /\ x < j * w
    <3>1. j * w \in Nat BY <1>6
    <3> QED BY <1>6, <3>1
  <2>2. PICK i \in Nat, r \in 0..(w - 1) : x \div w = i /\ x % w = r /\ x = i * w + r BY Divides
  <2>3. x \div w \in 0..(j - 1) BY <2>1, PartBelow, Zenon
  <2>4. i \in 0..(j - 1) BY <2>2, <2>3
  <2>5. PICK u \in 1..SectorUnits : u = r + 1 BY <1>6
  <2>6. PICK z \in Nat : z = i * SectorUnits /\ z = i * w BY <1>6
  <2>7. y = P + i * SectorUnits + u BY <2>1, <2>2, <2>5, <2>6
  <2>8. PlaceOf(SectorsOf(F), y) = <<DataSector(c, q + i), u>> BY <1>1, <1>2, <2>4, <2>7
  <2>9. h[DataSector(c, q + i)] = [v \in 1..SectorUnits |-> <<m, t + i * SectorUnits + v>>]
    <3>1. DataSector(c, q + i) \in SectorSet BY <1>3, <2>4, SectorPlaces
    <3>2. PICK e \in 0..(j - 1) : DataSector(c, q + i) = DataSector(c, q + e)
             /\ h[DataSector(c, q + i)] = [v \in 1..SectorUnits |-> <<m, t + e * SectorUnits + v>>]
      BY <2>4, <3>1 DEF Wrote
    <3>3. q + i = q + e BY <3>2, SectorPlaces
    <3>4. e = i BY <1>1, <3>3
    <3> QED BY <3>2, <3>4
  <2>10. FileUnit(h, F, y) = <<m, t + i * SectorUnits + u>>
    <3>1. FileUnit(h, F, y) = h[DataSector(c, q + i)][u] BY <2>8 DEF FileUnit, UnitAt
    <3> QED BY <2>9, <3>1
  <2>11. t + i * SectorUnits + u = t + (y - P)
    <3>1. z + u = y - P
      <4>1. x = z + r BY <2>2, <2>6
      <4> QED BY <2>1, <2>5, <4>1
    <3>2. t + z + u = t + (y - P) BY <3>1
    <3> QED BY <2>6, <3>2
  <2> QED BY <2>10, <2>11
<1> QED BY <1>5, <1>7, <1>8 DEF RunPlaced

(* What the file goes on with is nothing of the card's before it.            *)
LEMMA RunSpared ==
  ASSUME NEW k, NEW D, NEW F, NEW l, NEW b, NEW m, Good(k, D, F, l, b, m), IsReport(UnitAt(k, l)),
         NEW i, NEW h, NEW C, NEW G, Good(i, C, G, l, b, m), Pre(C, D), Pre(G, F), i[Boot] = k[Boot],
         NEW P \in Nat, IsSeq(b), Len(b) <= P, Size(i, l) = Len(b), NEW j, NEW t, RunPlaced(i, h, F, P, j, t, m)
  PROVE  Texted(i, h, C, G, l, b, m, Len(b))
<1>1. Len(b) \in Nat BY DEF IsSeq
<1>2. Chains(k, D, F) /\ Chains(i, C, G) BY DEF Good, Struct
<1>3. Len(b) <= Len(G) * ClusterUnits BY FileRead DEF Good
<1>4. SameFat(i, h) /\ h[Boot] = i[Boot] BY DEF RunPlaced
<1>5. ASSUME NEW x \in Places, UnitAt(h, x) # UnitAt(i, x)
      PROVE  Len(UnitAt(h, x)) = 2 /\ Spare(i, C, G, l, Len(b), x)
  <2>1. Len(UnitAt(h, x)) = 2 BY <1>5 DEF RunPlaced
  <2>2. PICK y \in 1..(Len(F) * ClusterUnits) : y > P /\ x = PlaceOf(SectorsOf(F), y)
    BY <1>5 DEF RunPlaced
  <2>3. Spare(k, D, F, l, P, x) BY <2>2, FileSpare
  <2> QED BY <1>1, <1>2, <1>3, <2>1, <2>3, SpareBefore
<1>6. Size(i, l) <= Len(b) BY <1>1
<1> QED BY <1>1, <1>4, <1>5, <1>6, GoodTexted

(* What is seen of a card that changes where the window is not dirty.        *)
LEMMA SeenWritten ==
  ASSUME StorageInv, NEW c, NEW q, NEW j, NEW t, NEW m, Wrote(card, card', c, q, j, t, m),
         DOMAIN card' = SectorSet, win.dirty => \A i \in 0..(j - 1) : win.s # DataSector(c, q + i),
         win'.dirty = win.dirty, win'.s = win.s, win.dirty => win'.data = win.data
  PROVE  Wrote(Seen, Seen', c, q, j, t, m)
<1>1. \A s \in SectorSet : Seen[s] = IF win.dirty /\ s = win.s THEN win.data ELSE card[s]
  BY DEF Seen, SeenOn, StorageInv, CardHolds
<1>2. \A s \in SectorSet : Seen'[s] = IF win.dirty /\ s = win.s THEN win.data ELSE card'[s]
  BY DEF Seen, SeenOn
<1>3. SUFFICES ASSUME NEW x \in SectorSet
               PROVE  \/ Seen'[x] = Seen[x] /\ \A i \in 0..(j - 1) : x # DataSector(c, q + i)
                      \/ \E i \in 0..(j - 1) : x = DataSector(c, q + i)
                             /\ Seen'[x] = [u \in 1..SectorUnits |-> <<m, t + i * SectorUnits + u>>]
  BY DEF Wrote
<1>4. CASE win.dirty /\ x = win.s
  <2>1. Seen'[x] = Seen[x] BY <1>1, <1>2, <1>4
  <2> QED BY <1>4, <2>1
<1>5. CASE ~(win.dirty /\ x = win.s)
  <2>1. Seen'[x] = card'[x] /\ Seen[x] = card[x] BY <1>1, <1>2, <1>5
  <2>2. \/ card'[x] = card[x] /\ \A i \in 0..(j - 1) : x # DataSector(c, q + i)
        \/ \E i \in 0..(j - 1) : x = DataSector(c, q + i)
                             /\ card'[x] = [u \in 1..SectorUnits |-> <<m, t + i * SectorUnits + u>>]
    BY DEF Wrote
  <2> QED BY <2>1, <2>2
<1> QED BY <1>4, <1>5

(* How many sectors f_write sends at once.                                   *)
DirectCount == IF Csect + Left \div SectorUnits > ClusterSectors THEN ClusterSectors - Csect
               ELSE Left \div SectorUnits

(* What f_write leaves on the card.                                          *)
LEMMA DirectWrites ==
  ASSUME StorageInv, Direct
  PROVE  /\ DirectCount \in Nat \ {0} /\ Csect \in Nat /\ Csect + DirectCount <= ClusterSectors
         /\ DirectCount * SectorUnits <= Left
         /\ \/ /\ Wrote(card, card', fp.c, Csect, DirectCount, done, n)
               /\ \/ /\ \E i \in 0..(DirectCount - 1) : win.s = DataSector(fp.c, Csect + i)
                     /\ win' = [s |-> win.s, data |-> card'[win.s], dirty |-> FALSE]
                  \/ (\A i \in 0..(DirectCount - 1) : win.s # DataSector(fp.c, Csect + i)) /\ win' = win
               /\ Written(DirectCount * SectorUnits)
            \/ /\ \E j \in 0..DirectCount : Wrote(card, card', fp.c, Csect, j, done, n)
               /\ Fails /\ UNCHANGED <<win, fp, done>>
         /\ DOMAIN card' = SectorSet
<1> DEFINE cc == IF Csect + Left \div SectorUnits > ClusterSectors THEN ClusterSectors - Csect
                 ELSE Left \div SectorUnits
           Goes(k, j) == \E i \in 0..(j - 1) : k = DataSector(fp.c, Csect + i)
           With(j) == [k \in DOMAIN card |->
                         IF Goes(k, j) THEN Text(done + (k[3] - Csect) * SectorUnits)
                         ELSE card[k]]
<1>0. at = "sector" /\ fp.ptr \in Nat /\ Left \in Nat /\ Left >= SectorUnits
  <2>1. at = "sector" /\ Left >= SectorUnits BY DEF Direct, Here
  <2>2. InFile BY <2>1 DEF InFile
  <2>a. done \in 0..ReportUnits BY DEF StorageInv, FileIs
  <2>3. Left \in Nat BY <2>a, Geometry DEF Left
  <2> QED BY <2>1, <2>2, <2>3 DEF StorageInv, FileIs
<1>1. PICK m \in Nat \ {0}, e \in Nat \ {0}, x \in Nat, y \in Nat :
         m = SectorUnits /\ e = ClusterSectors /\ x = Left /\ y = fp.ptr
  BY <1>0, Geometry
<1>2. Csect \in Nat /\ Csect < e
  <2>1. y \div m \in Nat OBVIOUS
  <2> QED BY <1>1, <2>1 DEF Csect
<1>3. PICK a \in Nat, r \in 0..(m - 1) : x \div m = a /\ x % m = r /\ x = a * m + r BY Divides
<1>4. a # 0
  <2> SUFFICES ASSUME a = 0 PROVE FALSE OBVIOUS
  <2>1. x = r BY <1>3
  <2> QED BY <1>0, <1>1, <2>1
<1>5. cc = IF Csect + a > e THEN e - Csect ELSE a BY <1>1, <1>3
<1> HIDE DEF cc
<1>6. cc \in Nat \ {0} /\ Csect + cc <= ClusterSectors /\ cc <= x \div m BY <1>1, <1>2, <1>3, <1>4, <1>5
<1>7. cc * SectorUnits <= Left
  <2>1. cc * m <= x BY <1>6, Parts
  <2> QED BY <1>1, <2>1
<1>8. ASSUME NEW j \in Nat PROVE DOMAIN With(j) = SectorSet /\ Wrote(card, With(j), fp.c, Csect, j, done, n)
  <2>1. DOMAIN With(j) = SectorSet BY DEF StorageInv, CardHolds
  <2>2. \A k \in SectorSet : With(j)[k] = IF Goes(k, j) THEN Text(done + (k[3] - Csect) * SectorUnits) ELSE card[k]
    BY DEF StorageInv, CardHolds
  <2> HIDE DEF With
  <2>3. ASSUME NEW k \in SectorSet, Goes(k, j)
        PROVE  \E i \in 0..(j - 1) : /\ k = DataSector(fp.c, Csect + i)
                  /\ With(j)[k] = [u \in 1..SectorUnits |-> <<n, done + i * SectorUnits + u>>]
    <3>1. PICK i \in 0..(j - 1) : k = DataSector(fp.c, Csect + i) BY <2>3
    <3>2. Text(done + (k[3] - Csect) * SectorUnits) = [u \in 1..SectorUnits |-> <<n, done + i * SectorUnits + u>>]
      <4>1. k[3] - Csect = i
        <5>1. i \in Nat /\ Csect \in Nat BY <1>2
        <5>2. k[3] = Csect + i BY <3>1 DEF DataSector
        <5> QED BY <5>1, <5>2
      <4> QED BY <4>1 DEF Text
    <3> QED BY <2>2, <2>3, <3>1, <3>2
  <2>4. ASSUME NEW k \in SectorSet, ~Goes(k, j)
        PROVE  With(j)[k] = card[k] /\ \A i \in 0..(j - 1) : k # DataSector(fp.c, Csect + i)
    BY <2>2, <2>4
  <2> QED BY <2>1, <2>3, <2>4 DEF Wrote
<1> HIDE DEF With
<1>9. \/ /\ card' = With(cc)
         /\ win' = IF Goes(win.s, cc) THEN [s |-> win.s, data |-> With(cc)[win.s], dirty |-> FALSE]
                   ELSE win
         /\ Written(cc * SectorUnits)
      \/ /\ \E j \in 0..cc : card' = With(j)
         /\ Fails /\ UNCHANGED <<win, fp, done>>
  BY DEF Direct, With, cc
<1>10. DirectCount = cc BY DEF DirectCount, cc
<1>11. CASE /\ card' = With(cc)
            /\ win' = IF Goes(win.s, cc) THEN [s |-> win.s, data |-> With(cc)[win.s], dirty |-> FALSE]
                   ELSE win
            /\ Written(cc * SectorUnits)
  <2>1. DOMAIN card' = SectorSet /\ Wrote(card, card', fp.c, Csect, cc, done, n) BY <1>6, <1>8, <1>11
  <2>2. \/ /\ \E i \in 0..(cc - 1) : win.s = DataSector(fp.c, Csect + i)
           /\ win' = [s |-> win.s, data |-> card'[win.s], dirty |-> FALSE]
        \/ (\A i \in 0..(cc - 1) : win.s # DataSector(fp.c, Csect + i)) /\ win' = win
    BY <1>11
  <2> QED BY <1>2, <1>6, <1>7, <1>10, <1>11, <2>1, <2>2
<1>12. CASE (\E j \in 0..cc : card' = With(j)) /\ Fails /\ UNCHANGED <<win, fp, done>>
  <2>1. PICK j \in 0..cc : card' = With(j) BY <1>12
  <2>2. DOMAIN card' = SectorSet /\ Wrote(card, card', fp.c, Csect, j, done, n) BY <1>6, <1>8, <2>1
  <2> QED BY <1>2, <1>6, <1>7, <1>10, <1>12, <2>2
<1> QED BY <1>9, <1>11, <1>12

(* Whole sectors go past the window.                                         *)
RunIn(D, F, C, G, l, j) ==
  /\ \A i \in 0..(j - 1) : fp.entry # DataSector(fp.c, Csect + i)
  /\ win.dirty => \A i \in 0..(j - 1) : win.s # DataSector(fp.c, Csect + i)
  /\ RunPlaced(Seen, Seen', F, fp.ptr, j, done, n)
  /\ Texted(card, card', C, G, l, before, n, Len(before))
  /\ Texted(Seen, Seen', D, F, l, before, n, fp.ptr)
  /\ HasText(Seen', F, fp.ptr + j * SectorUnits, before, n)
  /\ fp.ptr + j * SectorUnits <= Len(F) * ClusterUnits

(* The sectors to write are neither the entry's nor one that is dirty.       *)
LEMMA RunClear ==
  ASSUME StorageInv, at = "sector", NEW D, NEW F, NEW C, NEW G, NEW l, Work(D, F, C, G, l),
         win.dirty => win.s # fp.sect, NEW j \in Nat, Csect + j <= ClusterSectors
  PROVE  /\ \A i \in 0..(j - 1) : fp.entry # DataSector(fp.c, Csect + i)
         /\ win.dirty => \A i \in 0..(j - 1) : win.s # DataSector(fp.c, Csect + i)
<1>1. InFile /\ fp.ptr \in Nat /\ fp.ptr % SectorUnits = 0
  BY DEF InFile, StorageInv, FileIs
<1>2. InTheFile(Seen, F, l) /\ InTheCluster(F) /\ Good(Seen, D, F, l, before, n) BY DEF Work
<1>3. /\ l = <<fp.entry, fp.i>> /\ IsReport(UnitAt(Seen, l))
      /\ win.dirty => win.s \in FatSectors \cup {fp.entry}
  BY <1>1, <1>2 DEF InTheFile
<1>4. fp.ptr < Len(F) * ClusterUnits /\ fp.c = F[1 + fp.ptr \div ClusterUnits]
  BY <1>2 DEF InTheCluster
<1>5. PICK k : k = Seen OBVIOUS
<1>6. Chains(k, D, F) /\ l \in Places /\ Entries(k, D, l) /\ F \in Seq(Clusters)
  BY <1>2, <1>5 DEF Good, Struct, Chains, Leads
<1>7. /\ Csect \in 0..(ClusterSectors - 1)
      /\ \A i \in Nat : Csect + i < ClusterSectors =>
              /\ DataSector(fp.c, Csect + i) \in TextSectors
              /\ \A u \in 1..SectorUnits :
                   /\ fp.ptr + i * SectorUnits + u \in 1..(Len(F) * ClusterUnits)
                   /\ PlaceOf(SectorsOf(F), fp.ptr + i * SectorUnits + u) = <<DataSector(fp.c, Csect + i), u>>
  <2>a. PICK x \in Nat : x = fp.ptr BY <1>1
  <2>b. PICK c, q : c = fp.c /\ q = Csect OBVIOUS
  <2>1. x = fp.ptr /\ c = fp.c /\ q = Csect BY <2>a, <2>b
  <2>2. x < Len(F) * ClusterUnits /\ x % SectorUnits = 0 /\ c = F[1 + x \div ClusterUnits]
        /\ q = (x \div SectorUnits) % ClusterSectors
    BY <1>1, <1>4, <2>1 DEF Csect
  <2>3. /\ q \in 0..(ClusterSectors - 1)
        /\ \A i \in Nat : q + i < ClusterSectors =>
              /\ DataSector(c, q + i) \in TextSectors
              /\ \A u \in 1..SectorUnits :
                   /\ x + i * SectorUnits + u \in 1..(Len(F) * ClusterUnits)
                   /\ PlaceOf(SectorsOf(F), x + i * SectorUnits + u) = <<DataSector(c, q + i), u>>
    BY <1>6, <2>2, RunAt
  <2> QED BY <2>1, <2>3
<1>8. \A i \in 0..(j - 1) : i \in Nat /\ Csect + i < ClusterSectors BY <1>7, Geometry
<1>9. ASSUME NEW i \in 0..(j - 1), fp.entry = DataSector(fp.c, Csect + i) PROVE FALSE
  <2>1. fp.i \in 1..SectorUnits BY <1>3, <1>6 DEF Places
  <2>2. PICK y \in 1..(Len(F) * ClusterUnits) : PlaceOf(SectorsOf(F), y) = l
    BY <1>3, <1>7, <1>8, <1>9, <2>1
  <2>3. PICK p \in 1..TableSize(k[Boot], D) : TablePlace(k, D, p) = l BY <1>3, <1>5, <1>6 DEF Entries
  <2> QED BY <1>6, <2>2, <2>3, TableFileApart
<1>10. ASSUME win.dirty, NEW i \in 0..(j - 1), win.s = DataSector(fp.c, Csect + i) PROVE FALSE
  <2>1. win.s \in TextSectors BY <1>7, <1>8, <1>10
  <2>2. win.s \notin FatSectors BY <2>1, SectorPlaces
  <2> QED BY <1>3, <1>9, <1>10, <2>2
<1> QED BY <1>9, <1>10

(* Sectors sent past the window leave both the card and what is seen of it   *)
(* in order.                                                                 *)
LEMMA RunSound ==
  ASSUME StorageInv, CardInv, sound, at = "sector", NEW D, NEW F, NEW C, NEW G, NEW l, Work(D, F, C, G, l),
         win.dirty => win.s # fp.sect, NEW j \in Nat, Csect \in Nat, Csect + j <= ClusterSectors,
         j * SectorUnits <= Left, Wrote(card, card', fp.c, Csect, j, done, n), DOMAIN card' = SectorSet,
         win'.dirty = win.dirty, win'.s = win.s, win.dirty => win'.data = win.data
  PROVE  RunIn(D, F, C, G, l, j)
<1>1. InFile /\ fp.ptr \in Nat /\ fp.ptr % SectorUnits = 0 /\ done \in Nat /\ done + Left = ReportUnits
      /\ Left \in Nat
  <2>1. InFile /\ fp.ptr \in Nat /\ fp.ptr % SectorUnits = 0 /\ done \in 0..ReportUnits
    BY DEF InFile, StorageInv, FileIs
  <2> QED BY <2>1, Geometry DEF Left
<1>2. InTheFile(Seen, F, l) /\ InTheCluster(F) BY DEF Work
<1>3. /\ IsReport(UnitAt(Seen, l)) /\ fp.ptr = fp.size /\ fp.size = Len(before) + done
      /\ fp.size <= Len(F) * ClusterUnits /\ HasText(Seen, F, fp.size, before, n)
  BY <1>1, <1>2 DEF InTheFile
<1>4. fp.ptr < Len(F) * ClusterUnits /\ fp.c = F[1 + fp.ptr \div ClusterUnits]
  BY <1>2 DEF InTheCluster
<1>5. /\ \A i \in 0..(j - 1) : fp.entry # DataSector(fp.c, Csect + i)
      /\ win.dirty => \A i \in 0..(j - 1) : win.s # DataSector(fp.c, Csect + i)
  BY RunClear
<1>6. Wrote(Seen, Seen', fp.c, Csect, j, done, n)
  <2>1. PICK c, q, t, m : c = fp.c /\ q = Csect /\ t = done /\ m = n OBVIOUS
  <2>2. Wrote(card, card', c, q, j, t, m) /\ (win.dirty => \A i \in 0..(j - 1) : win.s # DataSector(c, q + i))
    BY <1>5, <2>1
  <2>3. Wrote(Seen, Seen', c, q, j, t, m) BY <2>2, SeenWritten
  <2> QED BY <2>1, <2>3
<1>a. PICK P \in Nat : P = fp.ptr BY <1>1
<1>b. PICK t \in Nat : t = done BY <1>1
<1>c. PICK q \in Nat : q = Csect OBVIOUS
<1>d. PICK c, m, b : c = fp.c /\ m = n /\ b = before OBVIOUS
<1>7. P = fp.ptr /\ t = done /\ c = fp.c /\ q = Csect /\ m = n /\ b = before
  BY <1>a, <1>b, <1>c, <1>d
<1>8. PICK k, h, i, e : k = Seen /\ h = Seen' /\ i = card /\ e = card' OBVIOUS
<1>9. Good(k, D, F, l, b, m) /\ Good(i, C, G, l, b, m) /\ Pre(C, D) /\ Pre(G, F)
      /\ Size(k, l) = Len(b) /\ Size(i, l) = Len(b)
  BY <1>7, <1>8 DEF Work
<1>10. F \in Seq(Clusters) BY <1>9 DEF Good, Struct, Chains, Leads
<1>11. /\ P < Len(F) * ClusterUnits /\ P % SectorUnits = 0 /\ c = F[1 + P \div ClusterUnits]
       /\ q = (P \div SectorUnits) % ClusterSectors /\ q + j <= ClusterSectors
       /\ Wrote(k, h, c, q, j, t, m) /\ Wrote(i, e, c, q, j, t, m)
  BY <1>1, <1>4, <1>6, <1>7, <1>8 DEF Csect
<1>12. RunPlaced(k, h, F, P, j, t, m) /\ RunPlaced(i, e, F, P, j, t, m) BY <1>10, <1>11, RunIs
<1>13. PICK Q \in Nat, v \in Nat : v = j * SectorUnits /\ Q = P + v
  <2>1. j * SectorUnits \in Nat BY Geometry
  <2> QED BY <2>1
<1>14. IsSeq(b) BY <1>7 DEF CardInv, CardOK
<1>15. Q <= Len(F) * ClusterUnits
  <2>1. CASE j = 0
    <3>1. v = 0
      <4>1. 0 * SectorUnits = 0 BY Geometry
      <4> QED BY <1>13, <2>1, <4>1
    <3>2. Len(F) * ClusterUnits \in Nat BY <1>10, PreSelf, PrePlaces
    <3> QED BY <1>11, <1>13, <3>1, <3>2
  <2>2. CASE j # 0
    <3>1. Q = P + j * SectorUnits BY <1>13
    <3>2. j \in Nat \ {0} BY <2>2
    <3> QED BY <1>10, <1>11, <3>1, <3>2, RunEnds
  <2> QED BY <2>1, <2>2
<1>16. i[Boot] = k[Boot] BY <1>8, SeenIs
<1>17. /\ SameFat(k, h) /\ h[Boot] = k[Boot] /\ IsReport(UnitAt(k, l)) /\ HasText(k, F, P, b, m)
       /\ P = Len(b) + t /\ Q >= P /\ t + (Q - P) <= ReportUnits
       /\ \A x \in Places : \/ UnitAt(h, x) = UnitAt(k, x)
                            \/ /\ Len(UnitAt(h, x)) = 2
                               /\ \E y \in 1..(Len(F) * ClusterUnits) : y > P /\ x = PlaceOf(SectorsOf(F), y)
       /\ \A y \in (P + 1)..Q : FileUnit(h, F, y) = <<m, t + (y - P)>>
  <2>1. IsReport(UnitAt(k, l)) /\ HasText(k, F, P, b, m) /\ P = Len(b) + t BY <1>3, <1>7, <1>8
  <2>2. Q >= P /\ t + (Q - P) <= ReportUnits
    <3>1. v <= Left /\ t + Left = ReportUnits /\ Left \in Nat BY <1>1, <1>7, <1>13
    <3>2. Q - P = v BY <1>13
    <3> QED BY <1>13, <3>1, <3>2, Geometry
  <2>3. Q = P + j * SectorUnits BY <1>13
  <2> QED BY <1>12, <2>1, <2>2, <2>3 DEF RunPlaced
<1>18. Continued(k, h, D, F, l, b, m, P, Q) BY <1>9, <1>14, <1>15, <1>17, TextGoesOn
<1>19. Texted(i, e, C, G, l, b, m, Len(b))
  <2>1. Len(b) \in Nat /\ Len(b) <= P BY <1>14, <1>17 DEF IsSeq
  <2> QED BY <1>9, <1>12, <1>14, <1>16, <1>17, <2>1, RunSpared
<1>20. Texted(k, h, D, F, l, b, m, P) /\ HasText(h, F, Q, b, m) BY <1>18 DEF Continued
<1>21. fp.ptr + j * SectorUnits = Q BY <1>7, <1>13
<1>22. /\ RunPlaced(Seen, Seen', F, fp.ptr, j, done, n)
       /\ Texted(card, card', C, G, l, before, n, Len(before))
       /\ Texted(Seen, Seen', D, F, l, before, n, fp.ptr)
       /\ HasText(Seen', F, Q, before, n)
  BY <1>7, <1>8, <1>12, <1>19, <1>20
<1> QED BY <1>5, <1>15, <1>21, <1>22 DEF RunIn

(* f_write sends whole sectors past the window, and the window follows if    *)
(* it held one.                                                              *)
LEMMA DirectSound == ASSUME StorageInv, CardInv, Direct PROVE CardInv'
<1>0. /\ at = "sector" /\ UNCHANGED <<dir, chain, sdVars, callVars>> /\ InFile
      /\ before' = before /\ n' = n /\ sound' = sound /\ Working /\ at \notin Resting
      /\ (win.dirty => win.s # fp.sect) /\ fp.ptr \in Nat /\ fp.ptr % SectorUnits = 0 /\ done \in Nat
      /\ win.dirty \in BOOLEAN
  <2>1. /\ at = "sector" /\ UNCHANGED <<dir, chain, sdVars, callVars>>
        /\ before' = before /\ n' = n /\ sound' = sound /\ (win.dirty => win.s # fp.sect)
    BY DEF Direct, Here, Syncs, sdVars, callVars
  <2>2. InFile BY <2>1 DEF InFile
  <2>3. Working /\ at \notin Resting BY <2>1 DEF Working, Resting, RowPlaces
  <2>4. fp.ptr \in Nat /\ fp.ptr % SectorUnits = 0 /\ done \in 0..ReportUnits
    BY <2>1, <2>2 DEF StorageInv, FileIs
  <2>5. win.dirty \in BOOLEAN BY DEF StorageInv, WindowHolds
  <2> QED BY <2>1, <2>2, <2>3, <2>4, <2>5
<1>1. /\ DirectCount \in Nat \ {0} /\ Csect \in Nat /\ Csect + DirectCount <= ClusterSectors
      /\ DirectCount * SectorUnits <= Left
      /\ \/ /\ Wrote(card, card', fp.c, Csect, DirectCount, done, n)
            /\ \/ /\ \E i \in 0..(DirectCount - 1) : win.s = DataSector(fp.c, Csect + i)
                  /\ win' = [s |-> win.s, data |-> card'[win.s], dirty |-> FALSE]
               \/ (\A i \in 0..(DirectCount - 1) : win.s # DataSector(fp.c, Csect + i)) /\ win' = win
            /\ Written(DirectCount * SectorUnits)
         \/ /\ \E j \in 0..DirectCount : Wrote(card, card', fp.c, Csect, j, done, n)
            /\ Fails /\ UNCHANGED <<win, fp, done>>
      /\ DOMAIN card' = SectorSet
  BY DirectWrites
<1>2. PICK cc \in Nat \ {0} : cc = DirectCount BY <1>1
<1>3. CASE /\ \E j \in 0..DirectCount : Wrote(card, card', fp.c, Csect, j, done, n)
           /\ Fails /\ UNCHANGED <<win, fp, done>>
  <2>1. PICK j \in 0..cc : Wrote(card, card', fp.c, Csect, j, done, n) BY <1>2, <1>3
  <2>2. at' = "leave" \/ at' = "close" BY <1>0, <1>3 DEF Fails, Close
  <2>3. at' \notin RowPlaces \cup {"boot"} /\ Unwritten' /\ Untouched'
    BY <2>2 DEF RowPlaces, Unwritten, Untouched, Chaining
  <2>4. ASSUME sound
        PROVE  \E D, F, C, G, l : Work(D, F, C, G, l) /\ RunIn(D, F, C, G, l, j)
    <3>1. PICK D, F, C, G, l : Work(D, F, C, G, l) BY <1>0, <2>4 DEF CardInv
    <3>2. j \in Nat /\ Csect + j <= ClusterSectors /\ Csect \in Nat BY SMTT(30), <1>1, <1>2, Geometry
    <3>3. j * SectorUnits <= Left
      <4>1. PICK m \in Nat \ {0}, x \in Nat : m = SectorUnits /\ x = Left
        <5>0. done \in 0..ReportUnits BY DEF StorageInv, FileIs
        <5>1. Left \in Nat BY <5>0, Geometry DEF Left
        <5> QED BY <5>1, Geometry
      <4>2. cc * m <= x BY <1>1, <1>2, <4>1
      <4>3. (cc - j) * m >= 0 /\ (cc - j) * m = cc * m - j * m BY <3>2
      <4>4. cc * m \in Int /\ j * m \in Int BY <3>2
      <4>5. j * m <= x BY <4>2, <4>3, <4>4
      <4> QED BY <4>1, <4>5
    <3>4. win'.dirty = win.dirty /\ win'.s = win.s /\ (win.dirty => win'.data = win.data) BY <1>3
    <3>5. RunIn(D, F, C, G, l, j)
      BY <1>0, <1>1, <2>1, <2>4, <3>1, <3>2, <3>3, <3>4, RunSound
    <3> QED BY <3>1, <3>5
  <2>5. sound => CardOK(card', before, n)
    <3> SUFFICES ASSUME sound PROVE CardOK(card', before, n) OBVIOUS
    <3>1. PICK D, F, C, G, l : RunIn(D, F, C, G, l, j) BY <2>4
    <3>2. Good(card', C, G, l, before, n) BY <3>1 DEF RunIn, Texted
    <3> QED BY <3>2, GoodIsOK
  <2>6. CASE at' = "leave"
    <3>1. ~Working' BY <2>6 DEF Working
    <3> QED BY <1>0, <2>3, <2>5, <3>1, Onward
  <2>7. CASE at' = "close"
    <3>1. ASSUME sound PROVE Fresh' /\ \E D, F, C, G, l : Work(D, F, C, G, l)'
      <4>1. PICK D, F, C, G, l : Work(D, F, C, G, l) /\ RunIn(D, F, C, G, l, j) BY <2>4, <3>1
      <4>2. Fresh BY <1>0, <3>1 DEF CardInv
      <4>3. Fresh'
        <5> SUFFICES ASSUME ~win.dirty, win.s \in SectorSet, win.s = fp.entry PROVE win.data = card'[win.s]
          BY <1>3, <2>7 DEF Fresh
        <5>1. win.data = card[win.s] BY <1>0, <4>2 DEF Fresh
        <5>2. \A i \in 0..(j - 1) : win.s # DataSector(fp.c, Csect + i) BY <4>1 DEF RunIn
        <5>3. card'[win.s] = card[win.s] BY <2>1, <5>2 DEF Wrote
        <5> QED BY <5>1, <5>3
      <4>4. /\ Good(Seen', D, F, l, before, n) /\ UnitAt(Seen', l) = UnitAt(Seen, l)
            /\ \A y \in 1..fp.ptr : y <= Len(F) * ClusterUnits => FileUnit(Seen', F, y) = FileUnit(Seen, F, y)
        BY <4>1 DEF RunIn, Texted
      <4>5. Good(card', C, G, l, before, n) /\ Size(card', l) = Size(card, l) BY <4>1 DEF RunIn, Texted
      <4>6. Pre(C, D) /\ Pre(G, F) /\ Size(card, l) = Len(before) /\ InTheFile(Seen, F, l)
        BY <1>0, <4>1 DEF Work
      <4>7. /\ fp.ptr = fp.size /\ fp.size <= Len(F) * ClusterUnits /\ HasText(Seen, F, fp.size, before, n)
            /\ win.dirty => win.s \in FatSectors \cup {fp.entry, fp.sect}
        BY <1>0, <4>6 DEF InTheFile
      <4>8. HasText(Seen', F, fp.size, before, n)
        <5>1. PICK P \in Nat : P = fp.size /\ P = fp.ptr BY <1>0, <4>7
        <5>2. F \in Seq(Clusters) BY <4>4 DEF Good, Struct, Chains, Leads
        <5>3. PICK z \in Nat : z = Len(F) * ClusterUnits BY <5>2, PreSelf, PrePlaces
        <5>4. \A y \in 1..P : y <= z BY <4>7, <5>1, <5>3
        <5>5. \A y \in 1..P : FileUnit(Seen', F, y) = FileUnit(Seen, F, y) BY <4>4, <5>1, <5>3, <5>4
        <5> QED BY <4>7, <5>1, <5>5 DEF HasText
      <4>9. Work(D, F, C, G, l)'
        BY <1>0, <1>3, <2>7, <4>1, <4>4, <4>5, <4>6, <4>7, <4>8, Closing
      <4> QED BY <4>3, <4>9
    <3> QED BY <1>0, <2>3, <2>5, <3>1, Onward
  <2> QED BY <2>2, <2>6, <2>7
<1>4. CASE /\ Wrote(card, card', fp.c, Csect, cc, done, n)
           /\ \/ /\ \E i \in 0..(cc - 1) : win.s = DataSector(fp.c, Csect + i)
                 /\ win' = [s |-> win.s, data |-> card'[win.s], dirty |-> FALSE]
              \/ (\A i \in 0..(cc - 1) : win.s # DataSector(fp.c, Csect + i)) /\ win' = win
           /\ Written(cc * SectorUnits)
  <2>1. PICK v \in Nat, Q \in Nat : v = cc * SectorUnits /\ Q = fp.ptr + v
    <3>1. cc * SectorUnits \in Nat BY Geometry
    <3> QED BY <1>0, <3>1
  <2>2. /\ fp' = [entry |-> fp.entry, i |-> fp.i, scl |-> fp.scl, size |-> Q,
                  ptr |-> Q, c |-> fp.c, sect |-> fp.sect, modified |-> fp.modified]
        /\ done' = done + v /\ at' = "write"
    BY <1>4, <2>1 DEF Written, StorageInv, FileIs
  <2>3. /\ fp'.entry = fp.entry /\ fp'.i = fp.i /\ fp'.scl = fp.scl /\ fp'.size = Q
        /\ fp'.ptr = Q /\ fp'.c = fp.c /\ fp'.sect = fp.sect
    BY <2>2
  <2>4. at' \notin RowPlaces \cup {"boot"} /\ Unwritten' /\ Untouched'
    BY <2>2 DEF RowPlaces, Unwritten, Untouched, Chaining
  <2>5. ASSUME sound
        PROVE  /\ \E D, F, C, G, l : Work(D, F, C, G, l) /\ RunIn(D, F, C, G, l, cc)
               /\ win'.dirty = win.dirty /\ win'.s = win.s /\ (win.dirty => win'.data = win.data)
    <3>1. PICK D, F, C, G, l : Work(D, F, C, G, l) BY <1>0, <2>5 DEF CardInv
    <3>2. cc \in Nat /\ Csect + cc <= ClusterSectors /\ Csect \in Nat /\ cc * SectorUnits <= Left
      BY <1>1, <1>2
    <3>3. win.dirty => \A i \in 0..(cc - 1) : win.s # DataSector(fp.c, Csect + i)
      BY <1>0, <3>1, <3>2, RunClear
    <3>4. win'.dirty = win.dirty /\ win'.s = win.s /\ (win.dirty => win'.data = win.data)
      <4>1. win.dirty \in BOOLEAN BY <1>0 DEF StorageInv
      <4>2. CASE /\ \E i \in 0..(cc - 1) : win.s = DataSector(fp.c, Csect + i)
                 /\ win' = [s |-> win.s, data |-> card'[win.s], dirty |-> FALSE]
        <5>1. ~win.dirty BY <3>3, <4>2
        <5>2. win'.dirty = FALSE /\ win'.s = win.s BY <4>2
        <5> QED BY <4>1, <5>1, <5>2
      <4>3. CASE win' = win BY <4>3
      <4> QED BY <1>4, <4>2, <4>3
    <3>5. RunIn(D, F, C, G, l, cc)
      BY <1>0, <1>1, <1>4, <2>5, <3>1, <3>2, <3>4, RunSound
    <3> QED BY <3>1, <3>4, <3>5
  <2>6. sound => CardOK(card', before, n)
    <3> SUFFICES ASSUME sound PROVE CardOK(card', before, n) OBVIOUS
    <3>1. PICK D, F, C, G, l : RunIn(D, F, C, G, l, cc) BY <2>5
    <3>2. Good(card', C, G, l, before, n) BY <3>1 DEF RunIn, Texted
    <3> QED BY <3>2, GoodIsOK
  <2>7. ASSUME sound PROVE Fresh' /\ \E D, F, C, G, l : Work(D, F, C, G, l)'
    <3>1. PICK D, F, C, G, l : Work(D, F, C, G, l) /\ RunIn(D, F, C, G, l, cc) BY <2>5, <2>7
    <3>2. Fresh BY <1>0, <2>7 DEF CardInv
    <3>3. Fresh'
      <4> SUFFICES ASSUME ~win'.dirty, win'.s \in SectorSet PROVE win'.data = card'[win'.s] BY DEF Fresh
      <4>1. CASE win' = [s |-> win.s, data |-> card'[win.s], dirty |-> FALSE] BY <4>1
      <4>2. CASE (\A i \in 0..(cc - 1) : win.s # DataSector(fp.c, Csect + i)) /\ win' = win
        <5>1. win.data = card[win.s] BY <1>0, <3>2, <4>2 DEF Fresh
        <5>2. card'[win.s] = card[win.s] BY <1>4, <4>2 DEF Wrote
        <5> QED BY <4>2, <5>1, <5>2
      <4> QED BY <1>4, <4>1, <4>2
    <3>4. /\ Good(Seen', D, F, l, before, n) /\ UnitAt(Seen', l) = UnitAt(Seen, l)
          /\ Size(Seen', l) = Size(Seen, l)
          /\ Good(card', C, G, l, before, n) /\ Size(card', l) = Size(card, l)
      BY <3>1 DEF RunIn, Texted
    <3>5. /\ Size(Seen, l) = Len(before) /\ Size(card, l) = Len(before) /\ Pre(C, D) /\ Pre(G, F)
          /\ InTheFile(Seen, F, l) /\ InTheCluster(F)
      BY <1>0, <3>1 DEF Work
    <3>6. /\ l = <<fp.entry, fp.i>> /\ IsReport(UnitAt(Seen, l)) /\ fp.scl = (IF F = <<>> THEN 0 ELSE F[1])
          /\ fp.ptr = fp.size /\ fp.size = Len(before) + done
          /\ win.dirty => win.s \in FatSectors \cup {fp.entry, fp.sect}
      BY <1>0, <3>5 DEF InTheFile
    <3>7. F \in Seq(Clusters) BY <3>4 DEF Good, Struct, Chains, Leads
    <3>8. Q = fp.ptr + cc * SectorUnits BY <2>1
    <3>9. HasText(Seen', F, Q, before, n) /\ Q <= Len(F) * ClusterUnits BY <3>1, <3>8 DEF RunIn
    <3>10. Q = Len(before) + done'
      <4>1. PICK y \in Nat : y = Len(before) BY <2>7 DEF CardInv, CardOK, IsSeq
      <4>2. fp.ptr = y + done BY <3>6, <4>1
      <4> QED BY <1>0, <2>1, <2>2, <4>1, <4>2
    <3>11. InTheFile(Seen, F, l)'
      <4>1. win'.dirty => win'.s \in FatSectors \cup {fp'.entry, fp'.sect} BY <2>3, <2>5, <2>7, <3>6
      <4>2. IsReport(UnitAt(Seen', l)) BY <3>4, <3>6
      <4> QED BY <1>0, <2>2, <2>3, <3>6, <3>9, <3>10, <4>1, <4>2 DEF InTheFile
    <3>12. InTheCluster(F)'
      <4>1. PICK x \in Nat : x = fp.ptr BY <1>0
      <4>2. fp.ptr < Len(F) * ClusterUnits /\ fp.c = F[1 + fp.ptr \div ClusterUnits]
        BY <1>0, <3>5 DEF InTheCluster
      <4>3. ((x \div SectorUnits) % ClusterSectors) + cc <= ClusterSectors BY <1>1, <1>2, <4>1 DEF Csect
      <4>4. x < Len(F) * ClusterUnits /\ x % SectorUnits = 0 /\ Q = x + cc * SectorUnits
        BY <1>0, <3>8, <4>1, <4>2
      <4>5. Q % SectorUnits = 0 /\ (Q - 1) \div ClusterUnits = x \div ClusterUnits
        BY <3>7, <4>3, <4>4, RunEnds
      <4>6. fp'.c = F[1 + (fp'.ptr - 1) \div ClusterUnits] BY <2>3, <4>1, <4>2, <4>5
      <4> QED BY <2>2, <2>3, <4>5, <4>6 DEF InTheCluster, Chaining
    <3>13. Searching(Seen, D)' /\ DirGrows(Seen, D)' /\ Linking(Seen, D, F)'
      BY <2>2 DEF Searching, DirGrows, Linking, Chaining
    <3>14. Work(D, F, C, G, l)' BY <1>0, <3>4, <3>5, <3>11, <3>12, <3>13 DEF Work
    <3> QED BY <3>3, <3>14
  <2> QED BY <1>0, <2>4, <2>6, <2>7, Onward
<1> QED BY <1>1, <1>2, <1>3, <1>4

(* The step of a system that does nothing.                                   *)
LEMMA CardKeeps == ASSUME ~MayGarble, StorageInv, CardInv, [Next]_vars PROVE CardInv'
<1>1. CASE UNCHANGED vars
  <2>1. /\ card' = card /\ win' = win /\ dir' = dir /\ fp' = fp /\ chain' = chain /\ at' = at
        /\ sd' = sd /\ sound' = sound /\ n' = n /\ before' = before /\ done' = done
    BY <1>1 DEF vars, memVars, sdVars, callVars
  <2>2. Seen' = Seen BY <2>1 DEF Seen, SeenOn
  <2>3. (Unwritten' <=> Unwritten) /\ (Untouched' <=> Untouched) /\ (Fresh' <=> Fresh)
        /\ RowBefore' = RowBefore /\ (Working' <=> Working)
    BY <2>1 DEF Unwritten, Untouched, Fresh, RowBefore, Working
  <2>4. \A D, F, C, G, l : Work(D, F, C, G, l) => Work(D, F, C, G, l)'
    <3> SUFFICES ASSUME NEW D, NEW F, NEW C, NEW G, NEW l, Work(D, F, C, G, l) PROVE Work(D, F, C, G, l)'
      OBVIOUS
    <3>1. Searching(Seen, D)' /\ DirGrows(Seen, D)' /\ Linking(Seen, D, F)'
      BY <2>1, <2>2 DEF Work, Searching, DirGrows, Linking
    <3>2. InTheFile(Seen, F, l)' BY <2>1, <2>2 DEF Work, InTheFile, InFile
    <3>3. InTheCluster(F)' BY <2>1 DEF Work, InTheCluster
    <3> QED BY <2>1, <2>2, <3>1, <3>2, <3>3 DEF Work
  <2>5. /\ (sound => CardOK(card, before, n))' /\ (at = "row_write" => sd.was = sound /\ sd.orig = card[LastSector])'
        /\ (at \in RowPlaces /\ sd.was => CardOK(RowBefore, before, n))'
        /\ (at \in RowPlaces \ {"row_write"} => ~sound)'
        /\ (at = "boot" => Fresh /\ (sound => Ready(card, before, n)))'
    BY <2>1, <2>3 DEF CardInv
  <2>6. (sound /\ Working => Fresh /\ \E D, F, C, G, l : Work(D, F, C, G, l))'
    BY <2>1, <2>3, <2>4 DEF CardInv
  <2> QED BY <2>3, <2>5, <2>6 DEF CardInv
<1>2. CASE Next
  <2>1. CASE Flush \/ Fetch \/ Mount \/ MountInfo \/ Find \/ Alloc \/ NextCluster
    BY <2>1, FlushSound, FetchSound, MountSound, FindSound, AllocSound, NextClusterSound
  <2>2. CASE DirClear \/ Seek \/ Stretch \/ Probe \/ Hunt \/ Mark \/ Link
    BY <2>2, DirClearSound, SeekSound, StretchSound, HuntSound, MarkSound, LinkSound
  <2>3. CASE WriteEnds \/ WriteMore \/ Edge \/ Direct \/ Copy \/ SyncEntry \/ SyncFs
    BY <2>3, WriteEndsSound, WriteMoreSound, EdgeSound, DirectSound, CopySound, SyncEntrySound, SyncFsSound
  <2>4. CASE Leave \/ PowerOff \/ SwapCard \/ Call BY <2>4, LeaveSound, SwapSound, CallSound
  <2>5. CASE RowRead \/ RowWrite \/ RowBack \/ RowRestore \/ RowConfirm BY <2>5, RowSound
  <2> QED BY <1>2, <2>1, <2>2, <2>3, <2>4, <2>5 DEF Next, Program
<1> QED BY <1>1, <1>2

(* No call harms what the card holds beside the report it writes.            *)
THEOREM CardAlwaysSound == ~MayGarble => (Spec => []CardStaysSound)
<1> SUFFICES ASSUME ~MayGarble PROVE Spec => []CardStaysSound OBVIOUS
<1>1. Init => StorageInv /\ CardInv BY StorageStarts, CardStarts
<1>2. StorageInv /\ CardInv /\ [Next]_vars => (StorageInv /\ CardInv)'
  BY StorageKeeps, CardKeeps
<1>3. CardInv => CardStaysSound
  <2> SUFFICES ASSUME CardInv PROVE CardStaysSound OBVIOUS
  <2>1. CASE sound
    <3>1. CardOK(card, before, n) BY <2>1 DEF CardInv
    <3>2. EarlierReportsSurvive BY <3>1, TextKept DEF EarlierReportsSurvive
    <3>3. NothingIsShared BY <2>1, <3>1, ChainsKept
    <3> QED BY <3>2, <3>3 DEF CardStaysSound
  <2>2. CASE ~sound BY <2>2 DEF CardStaysSound, EarlierReportsSurvive, NothingIsShared
  <2> QED BY <2>1, <2>2
<1> QED BY <1>1, <1>2, <1>3, PTL DEF Spec
=============================================================================
