------------------------------- MODULE Storage -------------------------------
(***************************************************************************)
(* Save Report and the SD write row on one card.  app/report.c appends a   *)
(* report to the file named for the board, through drivers/fatfs/ff.c as   *)
(* it is configured here (one sector buffer for everything, FAT16 or       *)
(* FAT32, FSInfo kept, no long names) and drivers/sdblock; tests_sd.c      *)
(* writes the card's last sector and puts it back.  One step is what       *)
(* happens between two transfers: each transfer may fail, a failed write   *)
(* may or may not have reached the card, and the power may go at any time. *)
(* A sector is written whole or not at all; the copy of the FAT, whose     *)
(* write nobody checks and nobody reads, is left out.                      *)
(***************************************************************************)
EXTENDS Integers, Sequences, FiniteSets, SequencesExt

CONSTANTS
  MaxCluster,     \* the last cluster: n_fatent - 1
  PerFat,         \* entries in a sector of the FAT
  ClusterSectors, \* csize
  SectorUnits,    \* units of a sector: pieces of text, or directory entries
  ReportUnits,    \* the length of a report
  RootSectors,    \* of a FAT16 root directory
  Cards,          \* <<kind, root directory, are the free clusters counted?>>
  MaxReports,     \* bound: calls of report_write
  MayGarble       \* may a bus error change a block on its way to the card?

ASSUME StorageAssumption ==
  /\ MaxCluster \in Nat /\ MaxCluster >= 4 /\ RootSectors \in Nat \ {0}
  /\ {PerFat, ClusterSectors, SectorUnits, ReportUnits, MaxReports} \subseteq Nat \ {0}
  /\ Cards \subseteq {"fat32", "fat16", "none"} \X {"room", "gone", "full", "taken"} \X BOOLEAN
  /\ MayGarble \in BOOLEAN

Clusters == 2..MaxCluster
Eoc == MaxCluster + 1        \* the end of a chain
Unknown == 2 * MaxCluster    \* 0xFFFFFFFF in FSInfo
Root == 2              \* where a FAT32 root directory begins
ClusterUnits == ClusterSectors * SectorUnits

(* Directory entries, and text: old text read as an entry is somebody's.   *)
EndOfDir == <<"end">>
Gone == <<"gone">>
Entry(name, scl, size) == <<name, scl, size>>
IsReport(e) == Len(e) = 3 /\ e[1] = "report"
Junk == <<0, 0>>
Report(n) == [i \in 1..ReportUnits |-> <<n, i>>]

Filled(u) == [i \in 1..SectorUnits |-> u]
FatSector(c) == <<"fat", c \div PerFat>>
FatSectors == {FatSector(c) : c \in Clusters}
DataSector(c, s) == <<"data", c, s>>
Boot == <<"boot">>
FsInfo == <<"fsinfo">>
Nowhere == <<"none">>
LastSector == DataSector(MaxCluster, ClusterSectors - 1)

VARIABLES
  card,     \* sector -> what it holds
  win,      \* FATFS: winsect, win[], wflag
  fs,       \* FATFS: free_clst, last_clst, fsi_flag
  dir,      \* DIR: clust, sect in it, entry in that
  fp,       \* FIL
  chain,    \* create_chain: its callers, clst, scl, ncl
  at,       \* the place in the program
  locked,   \* is the file in Files[]?
  result,   \* of report_write, or of the SD row
  sd,       \* the SD row: orig, ok; history: whether the card was sound before it
  n, done,  \* history: this call's number, how much of its report is in the file
  before,   \* history: the file when this call began
  clean,    \* history: no transfer of this call has failed
  fits,     \* history: there was room for it
  sound     \* history: no sector is left as the SD row wrote it

sdVars == <<sd, sound>>
callVars == <<n, before, fits>>
memVars == <<win, fs, dir, fp, chain, locked>>
vars == <<card, memVars, at, result, sdVars, callVars, done, clean>>

---------------------------------------------------------------------------
(* What another computer would read on the card.                           *)

Fat(k, c) == k[FatSector(c)][c]

(* The clusters from c on, as far as the table leads.                      *)
ChainFrom(k, c) ==
  LET to[i \in 0..MaxCluster] ==
        IF i = 0 THEN c
        ELSE LET prev == to[i - 1] IN IF prev \in Clusters THEN Fat(k, prev) ELSE prev
  IN [i \in {j \in 1..MaxCluster : to[j - 1] \in Clusters} |-> to[i - 1]]

SectorsOf(cs) ==
  [j \in 1..(Len(cs) * ClusterSectors) |->
     DataSector(cs[1 + (j - 1) \div ClusterSectors], (j - 1) % ClusterSectors)]

Units(k, sectors) ==
  [j \in 1..(Len(sectors) * SectorUnits) |->
     k[sectors[1 + (j - 1) \div SectorUnits]][1 + ((j - 1) % SectorUnits)]]

DirSectors(k) ==
  IF k[Boot] = "fat32" THEN SectorsOf(ChainFrom(k, Root))
  ELSE IF k[Boot] = "fat16" THEN [i \in 1..RootSectors |-> <<"root", i - 1>>]
  ELSE <<>>

Directory(k) == Units(k, DirSectors(k))

(* The entries up to the one that ends the table.                          *)
Listed(k) ==
  LET d == Directory(k)
  IN {i \in DOMAIN d : \A j \in 1..i : d[j] # EndOfDir}

Reports(k) == LET d == Directory(k) IN {d[i] : i \in {j \in Listed(k) : IsReport(d[j])}}

FileOn(k) ==
  LET r == Reports(k)
      e == CHOOSE e \in r : TRUE
      u == Units(k, SectorsOf(ChainFrom(k, e[2])))
  IN IF r = {} THEN <<>> ELSE SubSeq(u, 1, IF e[3] <= Len(u) THEN e[3] ELSE Len(u))

Free(k) == {c \in Clusters : Fat(k, c) = 0}

(* Is there room for a report, and for an entry if it is the first?        *)
Fits(k) ==
  LET size == Len(FileOn(k))
      have == IF Reports(k) = {} THEN 0
              ELSE Len(ChainFrom(k, (CHOOSE e \in Reports(k) : TRUE)[2]))
      slot == \/ Reports(k) # {}
              \/ \E i \in DOMAIN Directory(k) : Directory(k)[i] \in {EndOfDir, Gone}
      need == (size + ReportUnits + ClusterUnits - 1) \div ClusterUnits - have
  IN /\ k[Boot] # "none" /\ (slot \/ k[Boot] = "fat32")
     /\ Cardinality(Free(k)) >= need + (IF slot THEN 0 ELSE 1)

---------------------------------------------------------------------------
(* Files[]: one file is ever opened, so one entry of it is ever in use.    *)

ChkShare == ~locked
IncShare == locked' = TRUE
DecShare == locked' = FALSE
ClearShare == locked' = FALSE

(* The window.  A place that reads or changes a sector has it in the       *)
(* window first, and what is dirty there is written before it moves.       *)

NoWindow == [s |-> Nowhere, data |-> <<>>, dirty |-> FALSE]
NoFs == [free |-> Unknown, last |-> Unknown, fsi |-> "off"]
NoFile == [entry |-> Nowhere, i |-> 0, scl |-> 0, size |-> 0, ptr |-> 0, c |-> 0,
           sect |-> Nowhere, modified |-> FALSE]
NoChain == [for |-> "none", clst |-> 0, scl |-> 0, ncl |-> 0]
NoRow == [orig |-> Filled(Junk), ok |-> TRUE, was |-> TRUE]
Top(kd) == [c |-> IF kd = "fat32" THEN Root ELSE 0, s |-> 0, i |-> 1]

DirSector == IF dir.c = 0 THEN <<"root", dir.s>> ELSE DataSector(dir.c, dir.s)

Chaining == {"stretch", "probe", "hunt", "mark", "link"}

(* get_fat: a cluster there is none of has no entry, and 1 for its value.  *)
Valid(c) == c \in Clusters
FatOf(c) == IF Valid(c) THEN FatSector(c) ELSE Nowhere
GetFat(c) == IF Valid(c) THEN win.data[c] ELSE 1

Wanted ==
  CASE at = "boot" -> Boot
    [] at = "fsinfo" -> FsInfo
    [] at \in {"find", "alloc"} -> DirSector
    [] at \in {"find_next", "alloc_next"} -> FatOf(dir.c)
    [] at = "seek" /\ fp.ptr > ClusterUnits -> FatOf(fp.c)
    [] at \in {"stretch", "link"} -> FatOf(chain.clst)
    [] at \in {"probe", "hunt", "mark"} -> FatOf(chain.ncl)
    [] at = "copy" -> fp.sect
    [] at = "close" -> fp.entry
    [] OTHER -> Nowhere

Left == ReportUnits - done

(* The places that call sync_window themselves.                            *)
Syncs ==
  \/ at \in {"clear", "sync"}
  \/ at = "sector" /\ (win.s = fp.sect \/ Left < SectorUnits)

Here(p) == at = p /\ Wanted \in {Nowhere, win.s} /\ ~(Syncs /\ win.dirty)

Close == IF fp.modified THEN "close" ELSE "leave"

(* Where a failed transfer, or an entry of the FAT that cannot be, leads.  *)
Fails ==
  LET writing == at \in {"sector", "copy"} \/ (at \in Chaining /\ chain.for = "file")
  IN /\ at' = IF at = "boot" THEN "idle" ELSE IF at = "fsinfo" THEN "find"
              ELSE IF writing THEN Close ELSE "leave"
     /\ result' = IF at = "boot" THEN "no_fs"
                  ELSE IF at \in {"fsinfo", "close", "sync"} THEN result ELSE "no_write"
     /\ locked' = (locked /\ at # "seek")

Flush ==
  /\ win.dirty /\ (Syncs \/ Wanted \notin {Nowhere, win.s})
  /\ LET written == [card EXCEPT ![win.s] = win.data]
     IN \/ /\ card' = written
           /\ win' = [win EXCEPT !.dirty = FALSE]
           /\ UNCHANGED <<at, result, locked, clean>>
        \/ /\ card' \in {card, written}
           /\ Fails /\ clean' = FALSE
           /\ UNCHANGED win
  /\ UNCHANGED <<fs, dir, fp, chain, sdVars, callVars, done>>

Fetch ==
  /\ ~win.dirty /\ Wanted \notin {Nowhere, win.s}
  /\ \/ /\ win' = [s |-> Wanted, data |-> card[Wanted], dirty |-> FALSE]
        /\ UNCHANGED <<at, result, locked, clean>>
     \/ win' = NoWindow /\ Fails /\ clean' = FALSE
  /\ UNCHANGED <<card, fs, dir, fp, chain, sdVars, callVars, done>>

(* put_fat and the stores into a directory entry.                          *)
Change(j, v) == win' = [win EXCEPT !.data[j] = v, !.dirty = TRUE]

---------------------------------------------------------------------------
(* report_write up to f_open: sdblock_init, f_mount.                       *)

Invalidate == win' = NoWindow

Call ==
  /\ at = "idle" /\ n < MaxReports
  /\ n' = n + 1 /\ before' = FileOn(card) /\ fits' = Fits(card) /\ done' = 0 /\ sd' = NoRow
  /\ \/ /\ at' = "boot" /\ result' = "ok" /\ clean' = TRUE
        /\ Invalidate /\ fs' = NoFs /\ ClearShare
     \/ /\ at' = "idle" /\ result' = "no_card" /\ clean' = FALSE
        /\ UNCHANGED <<win, fs, locked>>
  /\ UNCHANGED <<card, dir, fp, chain, sound>>

(* check_fs and the rest of mount_volume.                                  *)
Mount ==
  /\ Here("boot")
  /\ at' = CASE win.data = "none" -> "idle" [] win.data = "fat16" -> "find" [] OTHER -> "fsinfo"
  /\ result' = IF win.data = "none" THEN "no_fs" ELSE result
  /\ dir' = Top(win.data)
  /\ UNCHANGED <<card, win, fs, fp, chain, locked, sdVars, callVars, done, clean>>

MountInfo ==
  /\ Here("fsinfo")
  /\ fs' = [free |-> win.data[1], last |-> win.data[2], fsi |-> "clean"]
  /\ at' = "find"
  /\ UNCHANGED <<card, win, dir, fp, chain, locked, result, sdVars, callVars, done, clean>>

---------------------------------------------------------------------------
(* f_open: follow_path, dir_register, the seek to the end.                 *)

(* Seeded fault: the file is opened, and not at its end.                   *)
OpenedAtStart(e, new) ==
  /\ fp' = [NoFile EXCEPT !.entry = win.s, !.i = dir.i, !.modified = new,
                          !.scl = e[2], !.size = e[3]]
  /\ IncShare
  /\ at' = "write"
  /\ UNCHANGED result

Opened(e, new) ==
  /\ fp' = [NoFile EXCEPT !.entry = win.s, !.i = dir.i, !.modified = new,
                          !.scl = e[2], !.size = e[3], !.ptr = e[3], !.c = e[2]]
  /\ IncShare
  /\ at' = IF e[3] > 0 THEN "seek" ELSE "write"
  /\ UNCHANGED result

Refused == at' = "leave" /\ result' = "no_write"

(* Past the last entry of a sector, of a static table, of a cluster.       *)
DirNext(end, table) ==
  LET sectors == IF dir.c = 0 THEN RootSectors ELSE ClusterSectors
  IN \/ /\ dir.i < SectorUnits
        /\ dir' = [dir EXCEPT !.i = @ + 1]
        /\ UNCHANGED <<at, result>>
     \/ /\ dir.i = SectorUnits /\ dir.s + 1 < sectors
        /\ dir' = [dir EXCEPT !.s = @ + 1, !.i = 1]
        /\ UNCHANGED <<at, result>>
     \/ /\ dir.i = SectorUnits /\ dir.s + 1 = sectors /\ dir.c # 0
        /\ at' = table
        /\ UNCHANGED <<dir, result>>
     \/ /\ dir.i = SectorUnits /\ dir.s + 1 = sectors /\ dir.c = 0
        /\ end

(* Seeded fault: at the end of the directory the search starts over.       *)
NotFoundYet == at' = "find" /\ dir' = Top(card[Boot]) /\ UNCHANGED result

NotFound == at' = "alloc" /\ dir' = Top(card[Boot]) /\ UNCHANGED result

Find ==
  /\ Here("find")
  /\ LET e == win.data[dir.i]
     IN \/ e = EndOfDir /\ NotFound /\ UNCHANGED <<fp, locked>>
        \/ /\ IsReport(e)
           /\ IF ChkShare THEN Opened(e, FALSE) ELSE Refused /\ UNCHANGED <<fp, locked>>
           /\ UNCHANGED dir
        \/ /\ e # EndOfDir /\ ~IsReport(e)
           /\ DirNext(NotFound, "find_next")
           /\ UNCHANGED <<fp, locked>>
  /\ UNCHANGED <<card, win, fs, chain, sdVars, callVars, done, clean>>

(* Seeded fault: only the end of the table counts as a free entry.         *)
IsLast(e) == e = EndOfDir

IsFree(e) == e \in {EndOfDir, Gone}

Alloc ==
  /\ Here("alloc")
  /\ IF IsFree(win.data[dir.i])
     THEN LET e == Entry("report", 0, 0)
          IN Change(dir.i, e) /\ Opened(e, TRUE) /\ UNCHANGED dir
     ELSE /\ DirNext(Refused /\ UNCHANGED dir, "alloc_next")
          /\ UNCHANGED <<win, fp, locked>>
  /\ UNCHANGED <<card, fs, chain, sdVars, callVars, done, clean>>

(* dir_next at the end of a cluster: the next one, or the end, or a new.   *)
NextCluster ==
  /\ Here("find_next") \/ Here("alloc_next")
  /\ LET c == GetFat(dir.c)
         on == IF at = "find_next" THEN "find" ELSE "alloc"
     IN \/ /\ Valid(c)
           /\ dir' = [c |-> c, s |-> 0, i |-> 1] /\ at' = on
           /\ UNCHANGED <<chain, result>>
        \/ c = Eoc /\ at = "find_next" /\ NotFound /\ UNCHANGED chain
        \/ /\ c = Eoc /\ at = "alloc_next"
           /\ chain' = [NoChain EXCEPT !.for = "dir", !.clst = dir.c]
           /\ at' = "stretch"
           /\ UNCHANGED <<dir, result>>
        \/ c < 2 /\ Refused /\ UNCHANGED <<dir, chain>>
  /\ UNCHANGED <<card, win, fs, fp, locked, sdVars, callVars, done, clean>>

(* dir_clear, once the window is synced: the new cluster filled, or some.  *)
DirClear ==
  /\ Here("clear")
  /\ \E j \in 0..ClusterSectors :
       card' = [k \in DOMAIN card |->
                  IF \E s \in 0..(j - 1) : k = DataSector(chain.ncl, s)
                  THEN Filled(EndOfDir) ELSE card[k]]
  /\ win' = [s |-> DataSector(chain.ncl, 0), data |-> Filled(EndOfDir), dirty |-> FALSE]
  /\ \/ /\ \A s \in 0..(ClusterSectors - 1) :
             card'[DataSector(chain.ncl, s)] = Filled(EndOfDir)
        /\ dir' = [c |-> chain.ncl, s |-> 0, i |-> 1] /\ at' = "alloc"
        /\ UNCHANGED <<result, locked, clean>>
     \/ Fails /\ clean' = FALSE /\ UNCHANGED dir
  /\ UNCHANGED <<fs, fp, chain, sdVars, callVars, done>>

(* One cluster on while more than one is left, then the sector it ends in. *)
Seek ==
  /\ Here("seek")
  /\ IF fp.ptr > ClusterUnits
     THEN LET c == GetFat(fp.c)
          IN IF c < 2 THEN Fails /\ UNCHANGED fp
             ELSE /\ fp' = [fp EXCEPT !.c = c, !.ptr = @ - ClusterUnits]
                  /\ UNCHANGED <<at, result, locked>>
     ELSE /\ fp' = [fp EXCEPT !.ptr = fp.size,
                       !.sect = IF fp.size % SectorUnits = 0 THEN Nowhere
                                ELSE DataSector(fp.c, fp.ptr \div SectorUnits)]
          /\ at' = "write"
          /\ UNCHANGED <<result, locked>>
  /\ UNCHANGED <<card, win, fs, dir, chain, sdVars, callVars, done, clean>>

---------------------------------------------------------------------------
(* create_chain, for the file or for the directory.                        *)

NoRoom ==
  IF chain.for = "dir" THEN Refused /\ UNCHANGED fp
  ELSE /\ fp' = [fp EXCEPT !.modified = TRUE]
       /\ at' = "close" /\ result' = "no_write"

GotCluster(c) ==
  IF chain.for = "dir" THEN at' = "clear" /\ UNCHANGED <<fp, result>>
  ELSE /\ fp' = [fp EXCEPT !.c = c, !.scl = IF @ = 0 THEN c ELSE @]
       /\ at' = "sector" /\ UNCHANGED result

(* The next cluster to look at; none when the search is all the way round. *)
HuntFrom(scl, ncl) ==
  LET next == IF ncl + 1 > MaxCluster THEN 2 ELSE ncl + 1
  IN IF next < ncl /\ next > scl
     THEN NoRoom /\ UNCHANGED chain
     ELSE /\ chain' = [chain EXCEPT !.scl = scl, !.ncl = next]
          /\ at' = "hunt" /\ UNCHANGED <<fp, result>>

Stretch ==
  /\ Here("stretch")
  /\ LET cs == GetFat(chain.clst)
         next == IF Valid(chain.clst + 1) THEN chain.clst + 1 ELSE 2
     IN \/ cs < 2 /\ Fails /\ UNCHANGED <<fp, chain>>
        \/ Valid(cs) /\ GotCluster(cs) /\ UNCHANGED <<chain, locked>>
        \/ cs = Eoc /\ fs.free = 0 /\ NoRoom /\ UNCHANGED <<chain, locked>>
        \/ /\ cs = Eoc /\ fs.free # 0
           /\ chain' = [chain EXCEPT !.scl = chain.clst, !.ncl = next]
           /\ at' = "probe" /\ UNCHANGED <<fp, result, locked>>
  /\ UNCHANGED <<card, win, fs, dir, sdVars, callVars, done, clean>>

Probe ==
  /\ Here("probe")
  /\ LET free == GetFat(chain.ncl) = 0
         scl == IF Valid(fs.last) THEN fs.last ELSE chain.scl
     IN IF free THEN at' = "mark" /\ UNCHANGED <<fp, chain, result>>
        ELSE HuntFrom(scl, scl)
  /\ UNCHANGED <<card, win, fs, dir, locked, sdVars, callVars, done, clean>>

Hunt ==
  /\ Here("hunt")
  /\ IF GetFat(chain.ncl) = 0
     THEN at' = "mark" /\ UNCHANGED <<fp, chain, result>>
     ELSE IF chain.ncl = chain.scl THEN NoRoom /\ UNCHANGED chain
     ELSE HuntFrom(chain.scl, chain.ncl)
  /\ UNCHANGED <<card, win, fs, dir, locked, sdVars, callVars, done, clean>>

Taken == [free |-> IF fs.free <= MaxCluster - 1 THEN fs.free - 1 ELSE fs.free,
          last |-> chain.ncl,
          fsi |-> IF fs.fsi = "off" THEN "off" ELSE "dirty"]

Mark ==
  /\ Here("mark")
  /\ Change(chain.ncl, Eoc)
  /\ IF chain.clst = 0 THEN fs' = Taken /\ GotCluster(chain.ncl)
     ELSE at' = "link" /\ UNCHANGED <<fs, fp, result>>
  /\ UNCHANGED <<card, dir, chain, locked, sdVars, callVars, done, clean>>

Link ==
  /\ Here("link")
  /\ Change(chain.clst, chain.ncl)
  /\ fs' = Taken /\ GotCluster(chain.ncl)
  /\ UNCHANGED <<card, dir, chain, locked, sdVars, callVars, done, clean>>

---------------------------------------------------------------------------
(* f_write, whose buffer is the report, then f_close.                      *)

Written(u) ==
  /\ fp' = [fp EXCEPT !.ptr = @ + u, !.size = fp.ptr + u]
  /\ done' = done + u
  /\ at' = "write"

WriteEnds ==
  /\ Here("write") /\ Left = 0
  /\ fp' = [fp EXCEPT !.modified = TRUE]
  /\ at' = "close"
  /\ UNCHANGED <<card, win, fs, dir, chain, locked, result, sdVars, callVars, done, clean>>

(* At a boundary: of a cluster, of a sector; or in the middle of a sector. *)
WriteMore ==
  /\ Here("write") /\ Left > 0
  /\ IF fp.ptr % SectorUnits # 0 THEN at' = "copy" /\ UNCHANGED <<fp, chain, result>>
     ELSE IF fp.ptr % ClusterUnits # 0 THEN at' = "sector" /\ UNCHANGED <<fp, chain, result>>
     ELSE IF fp.ptr > 0
     THEN /\ chain' = [NoChain EXCEPT !.for = "file", !.clst = fp.c]
          /\ at' = "stretch" /\ UNCHANGED <<fp, result>>
     ELSE IF fp.scl # 0
     THEN fp' = [fp EXCEPT !.c = fp.scl] /\ at' = "sector" /\ UNCHANGED <<chain, result>>
     ELSE LET scl == IF Valid(fs.last) THEN fs.last ELSE 1
              next == IF Valid(scl + 1) THEN scl + 1 ELSE 2
          IN /\ chain' = [NoChain EXCEPT !.for = "file", !.scl = scl, !.ncl = next]
             /\ \/ fs.free = 0 /\ fp' = [fp EXCEPT !.modified = TRUE]
                   /\ at' = "close" /\ result' = "no_write"
                \/ fs.free # 0 /\ at' = "hunt" /\ UNCHANGED <<fp, result>>
  /\ UNCHANGED <<card, win, fs, dir, locked, sdVars, callVars, done, clean>>

Csect == (fp.ptr \div SectorUnits) % ClusterSectors

(* Less than a sector: the window becomes the one it goes to, unread.      *)
Edge ==
  /\ Here("sector") /\ Left < SectorUnits
  /\ win' = [s |-> DataSector(fp.c, Csect), data |-> Filled(Junk), dirty |-> FALSE]
  /\ fp' = [fp EXCEPT !.sect = DataSector(fp.c, Csect)]
  /\ at' = "copy"
  /\ UNCHANGED <<card, fs, dir, chain, locked, result, sdVars, callVars, done, clean>>

Text(from) == [u \in 1..SectorUnits |-> <<n, from + u>>]

(* Whole sectors go to the card past the window, up to the cluster's end,  *)
(* one after the other: some of them, if one fails.                        *)
Direct ==
  /\ Here("sector") /\ Left >= SectorUnits
  /\ LET cc == IF Csect + Left \div SectorUnits > ClusterSectors THEN ClusterSectors - Csect
               ELSE Left \div SectorUnits
         Goes(k, j) == \E i \in 0..(j - 1) : k = DataSector(fp.c, Csect + i)
         With(j) == [k \in DOMAIN card |->
                       IF Goes(k, j) THEN Text(done + (k[3] - Csect) * SectorUnits) ELSE card[k]]
     IN \/ /\ card' = With(cc)
           /\ win' = IF Goes(win.s, cc) THEN [s |-> win.s, data |-> With(cc)[win.s], dirty |-> FALSE]
                     ELSE win
           /\ Written(cc * SectorUnits)
           /\ UNCHANGED <<result, locked, clean>>
        \/ /\ \E j \in 0..cc : card' = With(j)
           /\ Fails /\ clean' = FALSE
           /\ UNCHANGED <<win, fp, done>>
  /\ UNCHANGED <<fs, dir, chain, sdVars, callVars>>

(* What is left, or what the sector still takes.                           *)
Copy ==
  /\ Here("copy")
  /\ LET o == fp.ptr % SectorUnits
         u == IF SectorUnits - o < Left THEN SectorUnits - o ELSE Left
     IN /\ win' = [win EXCEPT !.dirty = TRUE,
                     !.data = [i \in 1..SectorUnits |->
                                 IF i \in (o + 1)..(o + u) THEN <<n, done + i - o>> ELSE @[i]]]
        /\ Written(u)
  /\ UNCHANGED <<card, fs, dir, chain, locked, result, sdVars, callVars, clean>>

(* f_sync: the entry, the window, FSInfo - whose write nobody looks at.    *)
SyncEntry ==
  /\ Here("close")
  /\ Change(fp.i, Entry("report", fp.scl, fp.size))
  /\ at' = "sync"
  /\ UNCHANGED <<card, fs, dir, fp, chain, locked, result, sdVars, callVars, done, clean>>

SyncFs ==
  /\ Here("sync")
  /\ IF fs.fsi = "dirty"
     THEN /\ win' = [s |-> FsInfo, data |-> <<fs.free, fs.last>>, dirty |-> FALSE]
          /\ fs' = [fs EXCEPT !.fsi = "clean"]
          /\ card' \in {card, [card EXCEPT ![FsInfo] = <<fs.free, fs.last>>]}
     ELSE UNCHANGED <<card, win, fs>>
  /\ DecShare /\ at' = "leave"
  /\ UNCHANGED <<dir, fp, chain, result, sdVars, callVars, done, clean>>

(* f_mount(NULL): what the objects still hold is dead.                     *)
Leave ==
  /\ at = "leave"
  /\ at' = "idle" /\ ClearShare
  /\ fs' = NoFs /\ fp' = NoFile /\ chain' = NoChain /\ dir' = Top("none")
  /\ UNCHANGED <<card, win, result, sdVars, callVars, done, clean>>

---------------------------------------------------------------------------
(* The SD write row.  Its buffers are pointers, and sizeof of a pointer is *)
(* what it fills with the pattern and what it compares: the first unit.    *)

Scratch == <<"scratch">>
Pattern == [Filled(Scratch) EXCEPT ![1] = <<"pattern">>]
Alike(a, b) == a[1] = b[1]
Sent(data) == {data} \cup (IF MayGarble THEN {[data EXCEPT ![j] = Junk] : j \in DOMAIN data} ELSE {})

Puts(data) == \E d \in Sent(data) : card' = [card EXCEPT ![LastSector] = d]

RowRead ==
  /\ at = "idle" /\ card[Boot] # "none"
  /\ sd' = [orig |-> card[LastSector], ok |-> TRUE, was |-> sound]
  /\ at' = "row_write"
  /\ UNCHANGED <<card, memVars, result, sound, callVars, done, clean>>

RowWrite ==
  /\ at = "row_write"
  /\ \/ Puts(Pattern) /\ UNCHANGED sd
     \/ (Puts(Pattern) \/ UNCHANGED card) /\ sd' = [sd EXCEPT !.ok = FALSE]
  /\ sound' = FALSE
  /\ at' = "row_back"
  /\ UNCHANGED <<memVars, result, callVars, done, clean>>

RowBack ==
  /\ at = "row_back"
  /\ \E good \in {Alike(card[LastSector], Pattern), FALSE} : sd' = [sd EXCEPT !.ok = @ /\ good]
  /\ at' = "row_restore"
  /\ UNCHANGED <<card, memVars, result, sound, callVars, done, clean>>

RowEnds(r) == at' = "idle" /\ result' = r

(* Seeded fault: only a sector the pattern went to is written back.        *)
RowRestoreTested ==
  /\ at = "row_restore"
  /\ \/ sd.ok /\ Puts(sd.orig) /\ at' = "row_confirm" /\ UNCHANGED <<result, sound>>
     \/ ~sd.ok /\ UNCHANGED card /\ RowEnds("row_failed") /\ sound' = sd.was
  /\ UNCHANGED <<memVars, sd, callVars, done, clean>>

RowRestore ==
  /\ at = "row_restore"
  /\ \/ Puts(sd.orig) /\ at' = "row_confirm" /\ UNCHANGED result
     \/ (Puts(sd.orig) \/ UNCHANGED card) /\ RowEnds("restore_failed")
  /\ UNCHANGED <<memVars, sdVars, callVars, done, clean>>

RowConfirm ==
  /\ at = "row_confirm"
  /\ \/ /\ Alike(card[LastSector], sd.orig)
        /\ RowEnds(IF sd.ok THEN "row_passed" ELSE "row_failed") /\ sound' = sd.was
     \/ RowEnds("restore_failed") /\ UNCHANGED sound
  /\ UNCHANGED <<card, memVars, sd, callVars, done, clean>>

---------------------------------------------------------------------------

(* A card as it comes: somebody's file on cluster 3, the rest old text;    *)
(* the root directory with room, with a deleted entry only, or full; or    *)
(* with room, and every cluster taken.                                     *)
Volume(kd, fill, info) ==
  LET used == IF fill = "taken" THEN Clusters ELSE IF kd = "fat32" THEN {Root, 3} ELSE {3}
      size == IF kd = "fat32" THEN ClusterUnits ELSE RootSectors * SectorUnits
      At(j) == IF j = 1 THEN Entry("other", 3, 1)
               ELSE IF fill \in {"room", "taken"} THEN EndOfDir
               ELSE IF j = size /\ fill = "gone" THEN Gone
               ELSE Entry("label", 0, 0)
      Table(s) == [i \in 1..SectorUnits |-> At(s * SectorUnits + i)]
      sectors == {Boot, FsInfo} \cup FatSectors
                 \cup {DataSector(c, s) : c \in Clusters, s \in 0..(ClusterSectors - 1)}
                 \cup {<<"root", s>> : s \in 0..(RootSectors - 1)}
  IN [k \in sectors |->
        CASE k = Boot -> kd
          [] k = FsInfo -> info
          [] k[1] = "fat" -> [c \in {x \in Clusters : FatSector(x) = k} |->
                                IF c \in used THEN Eoc ELSE 0]
          [] k[1] = "root" -> Table(k[2])
          [] k[1] = "data" /\ k[2] = Root /\ kd = "fat32" -> Table(k[3])
          [] OTHER -> Filled(Junk)]

Volumes ==
  {Volume(x[1], x[2], IF ~x[3] THEN <<Unknown, Unknown>>
                      ELSE IF x[2] = "taken" THEN <<0, 3>> ELSE <<MaxCluster - 3, 3>>) : x \in Cards}

(* Switched off, at any point: what is on the card stays.                  *)
PowerOff ==
  /\ at # "idle"
  /\ at' = "idle" /\ result' = "off"
  /\ win' = NoWindow /\ fs' = NoFs /\ dir' = Top("none") /\ fp' = NoFile
  /\ chain' = NoChain /\ locked' = FALSE /\ sd' = NoRow
  /\ UNCHANGED <<card, sound, callVars, done, clean>>

(* Another card in the socket, between calls.                              *)
SwapCard ==
  /\ at = "idle" /\ n > 0
  /\ card' \in Volumes
  /\ before' = FileOn(card') /\ sound' = TRUE /\ sd' = NoRow /\ result' = "none"
  /\ UNCHANGED <<memVars, at, n, fits, done, clean>>

Init ==
  /\ card \in Volumes
  /\ win = NoWindow /\ fs = NoFs /\ dir = Top("none") /\ fp = NoFile /\ chain = NoChain
  /\ at = "idle" /\ locked = FALSE /\ result = "none"
  /\ sd = NoRow /\ sound = TRUE
  /\ n = 0 /\ done = 0 /\ before = <<>> /\ clean = TRUE /\ fits = FALSE

Program ==
  \/ Flush \/ Fetch \/ Mount \/ MountInfo \/ Find \/ Alloc \/ NextCluster \/ DirClear \/ Seek
  \/ Stretch \/ Probe \/ Hunt \/ Mark \/ Link \/ WriteEnds \/ WriteMore \/ Edge \/ Direct \/ Copy
  \/ SyncEntry \/ SyncFs \/ Leave \/ RowWrite \/ RowBack \/ RowRestore \/ RowConfirm

Next == Program \/ Call \/ RowRead \/ PowerOff \/ SwapCard

Spec == Init /\ [][Next]_vars /\ WF_vars(Program)

---------------------------------------------------------------------------
(* Properties                                                              *)

(* One typing invariant: places, registers and the sectors of the card.    *)
TypeOK ==
  /\ at \in {"idle", "boot", "fsinfo", "find", "find_next", "alloc", "alloc_next", "clear", "seek",
             "write", "sector", "copy", "close", "sync", "leave",
             "row_write", "row_back", "row_restore", "row_confirm"} \cup Chaining
  /\ DOMAIN card = DOMAIN Volume("none", "room", <<Unknown, Unknown>>)
  /\ n \in 0..MaxReports /\ done \in 0..ReportUnits
  /\ {fp.scl, dir.c, chain.ncl} \subseteq {0} \cup Clusters
  /\ {clean, fits, sound, locked, sd.ok, win.dirty} \subseteq BOOLEAN
  /\ fs.free \in 0..Unknown

(* report_write appends: at every instant, the power failing at that very  *)
(* one included, the file on the card is what it was when the call began   *)
(* and after that no more than the beginning of this report.               *)
EarlierReportsSurvive ==
  sound => /\ IsPrefix(before, FileOn(card))
           /\ IsPrefix(FileOn(card), before \o Report(n))

(* On the card, at every instant: no cluster belongs to two of the files   *)
(* and the directory, none of theirs is free, and no chain has a loop.     *)
NothingIsShared ==
  sound =>
    LET d == Directory(card)
        heads == {d[i][2] : i \in {j \in Listed(card) : Len(d[j]) = 3 /\ d[j][2] # 0}}
                 \cup (IF card[Boot] = "fat32" THEN {Root} ELSE {})
        On(h) == ToSet(ChainFrom(card, h))
    IN /\ \A h \in heads : Fat(card, Last(ChainFrom(card, h))) = Eoc
       /\ \A g, h \in heads : g # h => On(g) \cap On(h) = {}

(* No call harms what the card holds beside the report it writes: the     *)
(* reports that were there, and the chains of the other files.             *)
CardStaysSound == EarlierReportsSurvive /\ NothingIsShared

(* A call no transfer of which fails, on a card with room for the report,  *)
(* succeeds, whatever became of the calls before it.                       *)
HealthyCardTakesReport ==
  at = "leave" /\ clean /\ fits /\ sound =>
    result = "ok" /\ FileOn(card) = before \o Report(n)

(* tests_sd.c: unless the row says RESTORE FAILED, the card's last sector  *)
(* holds what it held.                                                     *)
SectorComesBack ==
  result \in {"row_passed", "row_failed"} /\ at = "idle" => card[LastSector] = sd.orig

(* Every call and every row come to an end.                                *)
CallsEnd == at # "idle" ~> at = "idle"

(* "Written to ... on the SD card.": it is.                                *)
SavedMeansOnCard ==
  at = "leave" /\ result = "ok" /\ sound => FileOn(card) = before \o Report(n)
=============================================================================
