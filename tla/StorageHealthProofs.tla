------------------------- MODULE StorageHealthProofs -------------------------
(* Proofs about Storage, continued: a call that meets no failure. With as    *)
(* many free clusters as the program and FSInfo believe, or fewer (FreeInv), *)
(* and room at every place for what the call still has to allocate           *)
(* (HealthInv), it saves the report whole.                                   *)
EXTENDS StorageProofs

(* How many clusters are free.                                               *)
FreeCount(k) == Cardinality(Free(k))

(* A cluster that is marked and that no link leads to yet.                   *)
InLink == IF at = "link" THEN 1 ELSE 0

(* No row is in the way of what FSInfo says.                                 *)
Counted == sound \/ (at \in RowPlaces /\ sd.was)

(* No fewer clusters are free than the program and FSInfo count: what was    *)
(* never known counts as more than there are.                                *)
FreeInv ==
  /\ fs = [free |-> fs.free, last |-> fs.last, fsi |-> fs.fsi]
  /\ win.dirty => win.s # FsInfo
  /\ at \in {"boot", "fsinfo"} => fs.free = Unknown
  /\ sound /\ at = "fsinfo" => card[Boot] = "fat32"
  /\ Counted /\ card[Boot] = "fat32" => card[FsInfo][1] \in Nat /\ FreeCount(card) <= card[FsInfo][1]
  /\ sound /\ Working => Free(Seen) \subseteq Free(card)
  /\ sound /\ Working /\ at # "fsinfo" => fs.free \in Nat /\ FreeCount(Seen) + InLink <= fs.free

(* The clusters the file needs, with this report.                            *)
Need == (Len(before) + ReportUnits + ClusterUnits - 1) \div ClusterUnits

(* A unit of the directory is free for an entry.                             *)
Slot(k) == \E i \in DOMAIN Directory(k) : Directory(k)[i] \in {EndOfDir, Gone}

(* Room for the file and for its entry, or for a directory that grows.       *)
Roomy(k) ==
  FreeCount(k) >= Need /\ (Slot(k) \/ (k[Boot] = "fat32" /\ FreeCount(k) >= Need + 1))

(* What a search for a free cluster has passed: from scl on, all the way     *)
(* round.                                                                    *)
Passed(c, scl, ncl) == IF scl < ncl THEN scl < c /\ c < ncl ELSE scl < c \/ c < ncl

(* What the search has passed so far is taken.                               *)
Hunted ==
  /\ chain.scl \in {1} \cup Clusters
  /\ \A c \in Clusters : Passed(c, chain.scl, chain.ncl) => Fat(Seen, c) # 0

(* The file is what it was, and the whole report.                            *)
Whole(k) == \E D, F, l : Good(k, D, F, l, before, n) /\ Size(k, l) = Len(before) + ReportUnits

(* A call without a failure, under way on a sound card with room.            *)
Well == clean /\ fits /\ sound /\ at \notin Resting

(* How many clusters the open file has.                                      *)
Has(k) == Len(ChainFrom(k, fp.scl))

(* There is room for what is still needed, at every place.                   *)
Health ==
  /\ result = "ok"
  /\ at \in {"boot", "fsinfo", "find", "find_next"} => Fits(card)
  /\ at \in {"alloc", "alloc_next"} => Roomy(card)
  /\ at \in Chaining /\ chain.for = "dir" => FreeCount(Seen) + InLink >= Need + 1
  /\ at = "clear" => FreeCount(Seen) >= Need
  /\ InFile => FreeCount(Seen) + InLink + Has(Seen) >= Need
  /\ at = "hunt" => Hunted
  /\ at = "close" => done = ReportUnits
  /\ at = "sync" => Whole(Seen)
  /\ at = "leave" => Whole(card)

(* So it is in every call that goes well.                                    *)
HealthInv == Well => Health

---------------------------------------------------------------------------
(* Free clusters.                                                            *)

(* There are finitely many, no more than there are clusters.                 *)
LEMMA FreeIs ==
  ASSUME NEW k
  PROVE  IsFiniteSet(Free(k)) /\ FreeCount(k) \in Nat /\ FreeCount(k) <= MaxCluster - 1
<1>1. IsFiniteSet(Clusters) /\ Cardinality(Clusters) = MaxCluster - 1
  <2>1. IsFiniteSet(2..MaxCluster)
        /\ Cardinality(2..MaxCluster) = IF 2 > MaxCluster THEN 0 ELSE MaxCluster - 2 + 1
    BY Geometry, FS_Interval
  <2> QED BY <2>1, Geometry
<1>2. Free(k) \subseteq Clusters BY DEF Free
<1>3. IsFiniteSet(Free(k)) /\ Cardinality(Free(k)) <= Cardinality(Clusters) BY <1>1, <1>2, FS_Subset
<1> QED BY <1>1, <1>3, FS_CardinalityType DEF FreeCount

(* The same table, the same clusters free.                                   *)
LEMMA FreeSame ==
  ASSUME NEW k, NEW h, SameFat(k, h)
  PROVE  Free(h) = Free(k) /\ FreeCount(h) = FreeCount(k)
BY DEF Free, FreeCount, SameFat

(* Fewer are fewer.                                                          *)
LEMMA FreeLess ==
  ASSUME NEW k, NEW h, Free(h) \subseteq Free(k)
  PROVE  FreeCount(h) <= FreeCount(k)
BY FreeIs, FS_Subset DEF FreeCount

(* The table with v where c's entry was.                                     *)
FatSet(k, h, c, v) == \A x \in Clusters : Fat(h, x) = IF x = c THEN v ELSE Fat(k, x)

(* One that is taken is one less.                                            *)
LEMMA FreeTaken ==
  ASSUME NEW k, NEW h, NEW c \in Clusters, Fat(k, c) = 0, NEW v, v # 0,
         FatSet(k, h, c, v)
  PROVE  Free(h) \subseteq Free(k) /\ FreeCount(k) = FreeCount(h) + 1
<1>1. Free(h) = Free(k) \ {c} /\ c \in Free(k) BY DEF Free, FatSet
<1>2. Cardinality(Free(k) \ {c}) = Cardinality(Free(k)) - 1 BY <1>1, FreeIs, FS_RemoveElement
<1>3. Cardinality(Free(k)) \in Nat BY FreeIs DEF FreeCount
<1> QED BY <1>1, <1>2, <1>3 DEF FreeCount

(* One that was taken already changes nothing.                               *)
LEMMA FreeLinked ==
  ASSUME NEW k, NEW h, NEW c \in Clusters, Fat(k, c) # 0, NEW v, v # 0,
         FatSet(k, h, c, v)
  PROVE  Free(h) = Free(k) /\ FreeCount(h) = FreeCount(k)
BY DEF Free, FreeCount, FatSet

(* No cluster is free: the count says so.                                    *)
LEMMA NoneFree ==
  ASSUME NEW k, \A c \in Clusters : Fat(k, c) # 0
  PROVE  FreeCount(k) = 0
<1>1. Free(k) = {} BY DEF Free
<1> QED BY <1>1, FS_EmptySet DEF FreeCount

(* A text longer than q clusters needs one more.                             *)
LEMMA NeedMore ==
  ASSUME NEW x \in Nat, NEW m \in Nat \ {0}, NEW q \in Nat, q * m < x
  PROVE  (x + m - 1) \div m >= q + 1
<1>1. PICK y \in Nat : y = x + m - 1 OBVIOUS
<1>2. PICK p \in Nat, r \in 0..(m - 1) : y \div m = p /\ y = p * m + r BY Divides
<1>3. CASE p <= q
  <2>1. p * m <= q * m
    <3>1. (q - p) * m >= 0 BY <1>3
    <3>2. (q - p) * m = q * m - p * m BY <1>2
    <3>3. p * m \in Nat /\ q * m \in Nat BY <1>2
    <3> QED BY <3>1, <3>2, <3>3
  <2>2. p * m \in Nat /\ q * m \in Nat BY <1>2
  <2> QED BY <1>1, <1>2, <2>1, <2>2
<1>4. CASE p > q BY <1>1, <1>2, <1>4
<1> QED BY <1>2, <1>3, <1>4

(* What Need is.                                                             *)
LEMMA NeedIs ==
  ASSUME IsSeq(before)
  PROVE  /\ Need \in Nat /\ Need >= 1
         /\ \A q \in Nat : q * ClusterUnits < Len(before) + ReportUnits => Need >= q + 1
<1>1. PICK x \in Nat : x = Len(before) + ReportUnits /\ x > 0 BY Geometry DEF IsSeq
<1>2. PICK m \in Nat \ {0} : m = ClusterUnits BY Geometry
<1>3. Need = (x + m - 1) \div m BY <1>1, <1>2 DEF Need
<1>4. PICK p \in Nat, r \in 0..(m - 1) : (x + m - 1) \div m = p /\ (x + m - 1) % m = r /\ x + m - 1 = p * m + r
  <2>1. x + m - 1 \in Nat OBVIOUS
  <2> QED BY <2>1, Divides
<1>5. \A q \in Nat : q * m < x => Need >= q + 1 BY <1>3, NeedMore
<1>6. Need >= 1
  <2>1. 0 * m < x BY <1>1
  <2> QED BY <1>5, <2>1
<1> QED BY <1>1, <1>2, <1>3, <1>4, <1>5, <1>6

(* What a chain that is found holds.                                         *)
LEMMA HasIs ==
  ASSUME NEW k, NEW F, Leads(k, F), NEW c, c = IF F = <<>> THEN 0 ELSE F[1]
  PROVE  ChainFrom(k, c) = F /\ Len(F) \in Nat
<1>1. Len(F) \in Nat BY DEF Leads
<1>2. CASE F = <<>> BY <1>1, <1>2, NoChainAtNone
<1>3. CASE F # <<>> BY <1>1, <1>3, ChainFound
<1> QED BY <1>2, <1>3

(* A sector as the program sees it.                                          *)
LEMMA SeenOnAt ==
  ASSUME NEW k, NEW w, w.dirty \in BOOLEAN, NEW s \in DOMAIN k
  PROVE  SeenOn(k, w)[s] = IF w.dirty /\ w.s = s THEN w.data ELSE k[s]
BY DEF SeenOn

(* The table is what it was where no sector of it is written.                *)
LEMMA FatKept ==
  ASSUME StorageInv, DOMAIN card' = SectorSet, win'.dirty \in BOOLEAN,
         \A s \in FatSectors : card'[s] = card[s],
         \/ win' = win
         \/ (win.dirty => win.s \notin FatSectors) /\ (win'.dirty => win'.s \notin FatSectors)
  PROVE  SameFat(card, card') /\ SameFat(Seen, Seen')
<1>1. SameFat(card, card') BY Sectors DEF SameFat, Fat
<1>2. ASSUME NEW c \in Clusters PROVE Fat(Seen', c) = Fat(Seen, c)
  <2>1. PICK s \in FatSectors : s = FatSector(c) BY Sectors
  <2>2. s \in DOMAIN card /\ s \in DOMAIN card' BY <2>1, Sectors DEF StorageInv, CardHolds
  <2>3. win.dirty \in BOOLEAN BY DEF StorageInv, WindowHolds
  <2>4. Seen[s] = (IF win.dirty /\ win.s = s THEN win.data ELSE card[s]) BY <2>2, <2>3, SeenOnAt DEF Seen
  <2>5. Seen'[s] = (IF win'.dirty /\ win'.s = s THEN win'.data ELSE card'[s]) BY <2>2, SeenOnAt DEF Seen
  <2>6. card'[s] = card[s] BY <2>1
  <2>7. Seen'[s] = Seen[s] BY <2>1, <2>4, <2>5, <2>6
  <2> QED BY <2>1, <2>7 DEF Fat
<1> QED BY <1>1, <1>2 DEF SameFat

(* A step that leaves the table, its count, FSInfo and what is counted.      *)
Steady ==
  /\ SameFat(card, card') /\ SameFat(Seen, Seen') /\ card'[FsInfo] = card[FsInfo] /\ card'[Boot] = card[Boot]
  /\ win'.dirty => win'.s # FsInfo

(* It keeps the counts right.                                                *)
LEMMA FreeCalm ==
  ASSUME StorageInv, CardInv, FreeInv, Steady, at \notin Resting, fs' = fs, sound' = sound,
         at' \notin RowPlaces, at = "leave" => at' = "idle",
         at' = "boot" => at = "boot", at' = "fsinfo" => at = "fsinfo" \/ (at = "boot" /\ card[Boot] = "fat32"),
         at' = "link" => at = "link"
  PROVE  FreeInv'
<1>1. Free(card') = Free(card) /\ FreeCount(card') = FreeCount(card)
      /\ Free(Seen') = Free(Seen) /\ FreeCount(Seen') = FreeCount(Seen)
  BY FreeSame DEF Steady
<1>2. Counted' => Counted BY DEF Counted
<1>3. Counted' /\ card'[Boot] = "fat32" =>
         card'[FsInfo][1] \in Nat /\ FreeCount(card') <= card'[FsInfo][1]
  BY <1>1, <1>2 DEF FreeInv, Steady
<1>4. ASSUME sound', Working' PROVE Free(Seen') \subseteq Free(card')
  <2>1. CASE Working BY <1>1, <1>4, <2>1 DEF FreeInv
  <2>2. CASE ~Working
    <3>1. at = "boot" BY <1>4, <2>2 DEF Working, Resting
    <3>2. ~win.dirty BY <3>1 DEF CardInv, Unwritten
    <3>3. Seen = card BY <3>2, SeenIs
    <3> QED BY <1>1, <3>3
  <2> QED BY <2>1, <2>2
<1>5. ASSUME sound', Working', at' # "fsinfo"
      PROVE  fs'.free \in Nat /\ FreeCount(Seen') + InLink' <= fs'.free
  <2>1. CASE at \in {"boot", "fsinfo"}
    <3>1. fs'.free = Unknown BY <2>1 DEF FreeInv
    <3>2. FreeCount(Seen') \in Nat /\ FreeCount(Seen') <= MaxCluster - 1 BY FreeIs
    <3>3. InLink' = 0 BY <2>1 DEF InLink
    <3> QED BY <3>1, <3>2, <3>3, Geometry DEF Unknown
  <2>2. CASE at \notin {"boot", "fsinfo"}
    <3>1. Working BY <1>5, <2>2 DEF Working, Resting
    <3>2. fs.free \in Nat /\ FreeCount(Seen) + InLink <= fs.free BY <1>5, <2>2, <3>1 DEF FreeInv
    <3>3. InLink' \in {0, 1} /\ InLink \in {0, 1} /\ InLink' <= InLink BY DEF InLink
    <3>4. FreeCount(Seen) \in Nat BY FreeIs
    <3> QED BY <1>1, <3>2, <3>3, <3>4
  <2> QED BY <2>1, <2>2
<1>6. sound' /\ at' = "fsinfo" => card'[Boot] = "fat32" BY DEF FreeInv, Steady
<1>7. at' \in {"boot", "fsinfo"} => fs'.free = Unknown BY DEF FreeInv
<1>8. fs' = [free |-> fs'.free, last |-> fs'.last, fsi |-> fs'.fsi] BY DEF FreeInv
<1>9. win'.dirty => win'.s # FsInfo BY DEF Steady
<1> QED BY <1>3, <1>4, <1>5, <1>6, <1>7, <1>8, <1>9 DEF FreeInv

(* Steps that leave the card and the window alone.                           *)
LEMMA SteadyStill == ASSUME StorageInv, FreeInv, UNCHANGED <<card, win>> PROVE Steady
<1>1. Seen' = Seen BY DEF Seen, SeenOn
<1> QED BY <1>1 DEF Steady, SameFat, FreeInv

(* A sector of text changed in the window.                                   *)
LEMMA SteadyText ==
  ASSUME StorageInv, UNCHANGED card, win.s \in TextSectors, win'.s = win.s, win'.dirty \in BOOLEAN
  PROVE  Steady
<1>1. win.s \notin FatSectors /\ win.s # FsInfo BY SectorPlaces
<1>2. SameFat(card, card') /\ SameFat(Seen, Seen') BY <1>1, FatKept DEF StorageInv, CardHolds
<1> QED BY <1>1, <1>2 DEF Steady

(* A sector that is fetched changes no table, and no count.                  *)
LEMMA FetchCalm == ASSUME StorageInv, CardInv, FreeInv, Fetch PROVE Steady /\ FreeInv'
<1>0. /\ ~win.dirty /\ at \notin Resting /\ Wanted # Nowhere
      /\ UNCHANGED <<card, fs, dir, fp, chain, sdVars>> /\ sound' = sound
  BY Rests DEF Fetch, sdVars
<1>1. at # "leave" BY <1>0 DEF Wanted, Chaining
<1>2. ~win'.dirty /\ win'.dirty \in BOOLEAN
  <2>1. win' = [s |-> Wanted, data |-> card[Wanted], dirty |-> FALSE] \/ win' = NoWindow BY DEF Fetch
  <2>2. win' = NoWindow => win'.dirty = FALSE BY DEF NoWindow
  <2>3. win' = [s |-> Wanted, data |-> card[Wanted], dirty |-> FALSE] => win'.dirty = FALSE OBVIOUS
  <2> QED BY <2>1, <2>2, <2>3
<1>3. Seen = card /\ Seen' = card' BY <1>0, <1>2 DEF Seen, SeenOn
<1>4. Steady BY <1>0, <1>2, <1>3 DEF Steady, SameFat
<1>5. at' = at \/ Fails BY DEF Fetch
<1>6. at' = at \/ at' \in {"idle", "find", "close", "leave"} BY <1>5 DEF Fails, Close
<1> QED BY <1>0, <1>1, <1>4, <1>6, FreeCalm DEF RowPlaces, Resting

(* A sector that goes out was already what the program sees.                 *)
LEMMA FlushCalm == ASSUME StorageInv, CardInv, FreeInv, Flush PROVE Seen' = Seen /\ FreeInv'
<1>0. /\ win.dirty /\ at \notin Resting /\ UNCHANGED <<fs, dir, fp, chain, sdVars>> /\ sound' = sound
      /\ win = [s |-> win.s, data |-> win.data, dirty |-> win.dirty]
      /\ fs' = fs /\ sd' = sd /\ (Wanted \notin {Nowhere, win.s} \/ Syncs)
  BY Rests DEF Flush, StorageInv, WindowHolds, sdVars
<1>1. Seen = [card EXCEPT ![win.s] = win.data] BY <1>0, SeenIs
<1>2. \/ card' = Seen /\ win' = [win EXCEPT !.dirty = FALSE] /\ UNCHANGED <<at, result, locked, clean>>
      \/ card' \in {card, Seen} /\ Fails /\ UNCHANGED win
  BY <1>1 DEF Flush
<1>3. Seen' = Seen
  <2>1. CASE card' = Seen /\ win' = [win EXCEPT !.dirty = FALSE]
    <3>1. win' = [s |-> win.s, data |-> win.data, dirty |-> FALSE] BY <1>0, <2>1
    <3> QED BY <2>1, <3>1 DEF Seen, SeenOn
  <2>2. CASE card' \in {card, Seen} /\ UNCHANGED win
    <3>1. Seen' = [card' EXCEPT ![win.s] = win.data] BY <1>0, <2>2 DEF Seen, SeenOn
    <3>2. CASE card' = card BY <1>1, <3>1, <3>2
    <3>3. CASE card' = Seen
      <4>1. [[card EXCEPT ![win.s] = win.data] EXCEPT ![win.s] = win.data] = [card EXCEPT ![win.s] = win.data]
        BY DEF StorageInv, CardHolds
      <4> QED BY <1>1, <3>1, <3>3, <4>1
    <3> QED BY <2>2, <3>2, <3>3
  <2> QED BY <1>2, <2>1, <2>2
<1>4. at \notin {"boot", "fsinfo", "leave"}
  <2>1. at \notin {"boot", "fsinfo"} BY <1>0 DEF CardInv, Unwritten
  <2>2. at # "leave" BY <1>0 DEF Wanted, Syncs, Chaining
  <2> QED BY <2>1, <2>2
<1>5. Working BY <1>0, <1>4 DEF Working
<1>6. at' = at \/ at' \in {"close", "leave"} BY <1>2, <1>4 DEF Fails, Close
<1>7. win'.dirty => win'.s # FsInfo
  <2>1. win' = win \/ win' = [s |-> win.s, data |-> win.data, dirty |-> FALSE] BY <1>0, <1>2
  <2> QED BY <2>1 DEF FreeInv
<1>8. card'[FsInfo] = card[FsInfo] /\ card'[Boot] = card[Boot] /\ (card' = card \/ card' = Seen)
  <2>1. card' = card \/ card' = Seen BY <1>2
  <2>2. win.s # FsInfo BY <1>0 DEF FreeInv
  <2>3. Seen[FsInfo] = card[FsInfo] /\ Seen[Boot] = card[Boot] BY <2>2, SeenIs, Sectors
  <2> QED BY <2>1, <2>3
<1>9. sound => /\ Free(Seen) \subseteq Free(card') /\ Free(card') \subseteq Free(card)
               /\ FreeCount(card') <= FreeCount(card)
  <2>1. sound => Free(Seen) \subseteq Free(card) BY <1>5 DEF FreeInv
  <2> QED BY <1>8, <2>1, FreeLess
<1>10. Counted' /\ card'[Boot] = "fat32" =>
          card'[FsInfo][1] \in Nat /\ FreeCount(card') <= card'[FsInfo][1]
  <2>1. Counted' => sound
    <3>1. at' \notin RowPlaces BY <1>0, <1>6 DEF Resting, RowPlaces
    <3> QED BY <1>0, <3>1 DEF Counted
  <2>2. FreeCount(card) \in Nat /\ FreeCount(card') \in Nat BY FreeIs
  <2>3. sound /\ card[Boot] = "fat32" => card[FsInfo][1] \in Nat /\ FreeCount(card) <= card[FsInfo][1]
    BY DEF FreeInv, Counted
  <2> QED BY <1>8, <1>9, <2>1, <2>2, <2>3
<1>11. sound' /\ Working' => Free(Seen') \subseteq Free(card') BY <1>0, <1>3, <1>9
<1>12. sound' /\ Working' /\ at' # "fsinfo" => fs'.free \in Nat /\ FreeCount(Seen') + InLink' <= fs'.free
  <2>1. SUFFICES ASSUME sound PROVE fs.free \in Nat /\ FreeCount(Seen) + InLink' <= fs.free BY <1>0, <1>3
  <2>2. fs.free \in Nat /\ FreeCount(Seen) + InLink <= fs.free BY <1>4, <1>5, <2>1 DEF FreeInv
  <2>3. InLink' \in {0, 1} /\ InLink \in {0, 1} /\ InLink' <= InLink BY <1>6 DEF InLink
  <2>4. FreeCount(Seen) \in Nat BY FreeIs
  <2> QED BY <2>2, <2>3, <2>4
<1>13. at' \notin {"boot", "fsinfo"} BY <1>4, <1>6
<1>14. fs' = [free |-> fs'.free, last |-> fs'.last, fsi |-> fs'.fsi] BY <1>0 DEF FreeInv
<1>15. FreeInv' BY <1>7, <1>10, <1>11, <1>12, <1>13, <1>14 DEF FreeInv
<1> QED BY <1>3, <1>15

(* Steps that leave card and window alone, and the count.                    *)
LEMMA ThinkCalm ==
  ASSUME StorageInv, CardInv, FreeInv,
         Mount \/ Find \/ NextCluster \/ Seek \/ Stretch \/ Probe \/ Hunt \/ WriteEnds \/ WriteMore
  PROVE  Steady /\ FreeInv'
<1>0. UNCHANGED <<card, win>> /\ fs' = fs /\ sound' = sound /\ at \notin Resting /\ at # "leave"
  BY DEF Mount, Find, NextCluster, Seek, Stretch, Probe, Hunt, WriteEnds, WriteMore, Here, sdVars,
         Resting, RowPlaces
<1>1. Steady BY <1>0, SteadyStill
<1>2. CASE Mount
  <2>1. at = "boot" /\ Wanted \in {Nowhere, win.s} BY <1>2 DEF Mount, Here
  <2>2. win.s = Boot BY <2>1, WantedAt, Names
  <2>3. win.data = card[Boot] BY <2>1, <2>2, Sectors DEF CardInv, Fresh, Unwritten
  <2>4. at' = CASE win.data = "none" -> "idle" [] win.data = "fat16" -> "find" [] OTHER -> "fsinfo"
    BY <1>2 DEF Mount
  <2>5. card[Boot] \in {"fat32", "fat16", "none"} BY DEF StorageInv, CardHolds
  <2>6. at' \in {"idle", "find"} \/ (at' = "fsinfo" /\ card[Boot] = "fat32") BY <2>3, <2>4, <2>5
  <2> QED BY <1>0, <1>1, <2>1, <2>6, FreeCalm DEF RowPlaces
<1>3. CASE ~Mount
  <2>1. at' \in {at, "alloc", "find", "alloc_next", "find_next", "stretch", "leave", "seek", "write", "close",
                 "sector", "clear", "probe", "mark", "hunt", "copy"}
    <3>1. CASE Find
      BY <3>1 DEF Find, NotFound, Opened, Refused, DirNext
    <3>2. CASE NextCluster BY <3>2 DEF NextCluster, NotFound, Refused
    <3>3. CASE Seek
      <4>1. at = "seek" BY <3>3 DEF Seek, Here
      <4>2. Fails => at' \in {"close", "leave"} BY <4>1 DEF Fails, Close
      <4>3. Fails \/ at' = at \/ at' = "write" BY <3>3 DEF Seek
      <4> QED BY <4>2, <4>3
    <3>4. CASE Stretch \/ Probe \/ Hunt
      <4>1. at \in {"stretch", "probe", "hunt"} BY <3>4 DEF Stretch, Probe, Hunt, Here
      <4>2. Fails => at' \in {"close", "leave"} BY <4>1 DEF Fails, Close
      <4>3. NoRoom => at' \in {"close", "leave"} BY DEF NoRoom, Refused
      <4>4. \A c : GotCluster(c) => at' \in {"clear", "sector"} BY DEF GotCluster
      <4>5. \A x, y : HuntFrom(x, y) => at' \in {"close", "leave", "hunt"} BY <4>3 DEF HuntFrom
      <4>6. CASE Stretch
        <5>1. \/ Fails \/ NoRoom \/ at' = "probe" \/ \E c : GotCluster(c) BY <4>6 DEF Stretch
        <5> QED BY <4>2, <4>3, <4>4, <5>1
      <4>7. CASE Probe
        <5>1. at' = "mark" \/ \E x, y : HuntFrom(x, y) BY <4>7 DEF Probe
        <5> QED BY <4>5, <5>1
      <4>8. CASE Hunt
        <5>1. at' = "mark" \/ NoRoom \/ \E x, y : HuntFrom(x, y) BY <4>8 DEF Hunt
        <5> QED BY <4>3, <4>5, <5>1
      <4> QED BY <3>4, <4>6, <4>7, <4>8
    <3>5. CASE WriteEnds \/ WriteMore BY <3>5 DEF WriteEnds, WriteMore
    <3> QED BY <1>3, <3>1, <3>2, <3>3, <3>4, <3>5
  <2>2. at \notin {"boot", "fsinfo"}
    BY <1>3 DEF Find, NextCluster, Seek, Stretch, Probe, Hunt, WriteEnds, WriteMore, Here
  <2> QED BY <1>0, <1>1, <2>1, <2>2, FreeCalm DEF RowPlaces, Resting
<1> QED BY <1>1, <1>2, <1>3

(* Steps that change text.                                                   *)
LEMMA TextCalm ==
  ASSUME StorageInv, CardInv, FreeInv, Alloc \/ Copy \/ SyncEntry \/ Edge
  PROVE  Steady /\ FreeInv'
<1>0. UNCHANGED card /\ fs' = fs /\ sound' = sound /\ at \notin Resting
  BY DEF Alloc, Copy, SyncEntry, Edge, Here, sdVars, Resting, RowPlaces
<1>w. win = [s |-> win.s, data |-> win.data, dirty |-> win.dirty] /\ win.dirty \in BOOLEAN
  BY DEF StorageInv, WindowHolds
<1>1. CASE Alloc
  <2>0. at = "alloc" /\ Wanted \in {Nowhere, win.s} BY <1>1 DEF Alloc, Here
  <2>1. win.s \in TextSectors BY <2>0, DirHere DEF TextSectors
  <2>2. win' = win \/ \E j, v : Change(j, v)
    <3>1. CASE IsFree(win.data[dir.i]) BY <1>1, <3>1 DEF Alloc
    <3>2. CASE ~IsFree(win.data[dir.i]) BY <1>1, <3>2 DEF Alloc
    <3> QED BY <3>1, <3>2
  <2>3. win'.s = win.s /\ win'.dirty \in BOOLEAN
    <3>1. CASE win' = win BY <1>w, <3>1
    <3>2. CASE \E j, v : Change(j, v)
      <4>1. PICK j, v : Change(j, v) BY <3>2
      <4>2. win' = [s |-> win.s, data |-> [win.data EXCEPT ![j] = v], dirty |-> TRUE] BY <4>1, ChangedTo
      <4> QED BY <4>2
    <3> QED BY <2>2, <3>1, <3>2
  <2>4. Steady BY <1>0, <2>1, <2>3, SteadyText
  <2>5. at' \in {"alloc", "alloc_next", "seek", "write", "leave"}
    BY <1>1, <2>0 DEF Alloc, Opened, DirNext, Refused
  <2> QED BY <1>0, <2>0, <2>4, <2>5, FreeCalm DEF RowPlaces
<1>2. CASE Copy
  <2>0. at = "copy" /\ Wanted \in {Nowhere, win.s} /\ at' = "write" BY <1>2 DEF Copy, Here, Written
  <2>1. fp.sect[1] = "data" BY <2>0 DEF StorageInv, FileIs
  <2>2. win.s = fp.sect BY <2>0, <2>1, WantedAt, Names
  <2>3. win'.s = win.s /\ win'.dirty = TRUE BY <1>2, <1>w DEF Copy
  <2>4. win.s \notin FatSectors /\ win.s # FsInfo BY <2>1, <2>2, Names
  <2>5. SameFat(card, card') /\ SameFat(Seen, Seen') BY <1>0, <2>3, <2>4, FatKept DEF StorageInv, CardHolds
  <2>6. Steady BY <1>0, <2>3, <2>4, <2>5 DEF Steady
  <2> QED BY <1>0, <2>0, <2>6, FreeCalm DEF RowPlaces
<1>3. CASE SyncEntry
  <2>0. at = "close" /\ at' = "sync" /\ Wanted \in {Nowhere, win.s} /\ Wanted = fp.entry
        /\ \E j, v : Change(j, v)
    BY <1>3, WantedAt DEF SyncEntry, Here
  <2>1. fp.entry[1] \in Texts BY <2>0 DEF StorageInv, FileIs, InFile
  <2>2. win.s = fp.entry BY <2>0, <2>1, Names DEF Texts
  <2>3. win'.s = win.s /\ win'.dirty = TRUE BY <2>0, ChangedTo
  <2>4. win.s \notin FatSectors /\ win.s # FsInfo BY <2>1, <2>2, Names DEF Texts
  <2>5. SameFat(card, card') /\ SameFat(Seen, Seen') BY <1>0, <2>3, <2>4, FatKept DEF StorageInv, CardHolds
  <2>6. Steady BY <1>0, <2>3, <2>4, <2>5 DEF Steady
  <2> QED BY <1>0, <2>0, <2>6, FreeCalm DEF RowPlaces
<1>4. CASE Edge
  <2>0. at = "sector" /\ at' = "copy" /\ ~win.dirty /\ win'.dirty = FALSE BY <1>4 DEF Edge, Here, Syncs
  <2>1. Seen' = card' /\ Seen = card BY <2>0 DEF Seen, SeenOn
  <2>2. Steady BY <1>0, <2>0, <2>1 DEF Steady, SameFat
  <2> QED BY <1>0, <2>0, <2>2, FreeCalm DEF RowPlaces
<1> QED BY <1>1, <1>2, <1>3, <1>4

(* Steps that write text to the card.                                        *)
LEMMA WriteCalm ==
  ASSUME StorageInv, CardInv, FreeInv, DirClear \/ Direct
  PROVE  Steady /\ FreeInv'
<1>0. /\ fs' = fs /\ sound' = sound /\ at \in {"clear", "sector"} /\ at' \in {"alloc", "write", "close", "leave"}
      /\ at \notin Resting
  BY DEF DirClear, Direct, Written, Fails, Close, Chaining, Here, sdVars, Resting, RowPlaces
<1>w. win.dirty \in BOOLEAN BY DEF StorageInv, WindowHolds
<1>1. DOMAIN card' = SectorSet /\ \A x \in SectorSet : card'[x] = card[x] \/ \E c, s : x = DataSector(c, s)
  <2>1. CASE DirClear
    <3>1. PICK j \in 0..ClusterSectors :
            card' = [k \in DOMAIN card |->
                       IF \E s \in 0..(j - 1) : k = DataSector(chain.ncl, s)
                       THEN Filled(EndOfDir) ELSE card[k]]
      BY <2>1 DEF DirClear
    <3> QED BY <3>1 DEF StorageInv, CardHolds
  <2>2. CASE Direct
    <3>1. DOMAIN card' = SectorSet /\ \E j : Wrote(card, card', fp.c, Csect, j, done, n)
      BY <2>2, DirectWrites
    <3> QED BY <3>1 DEF Wrote
  <2> QED BY <2>1, <2>2
<1>2. card'[FsInfo] = card[FsInfo] /\ card'[Boot] = card[Boot] /\ \A s \in FatSectors : card'[s] = card[s]
  BY <1>1, Names, Sectors
<1>3. win' = win \/ (~win.dirty /\ ~win'.dirty /\ win'.dirty \in BOOLEAN)
         \/ (win'.dirty = FALSE /\ \E c, s : win.s = DataSector(c, s))
  <2>1. CASE DirClear BY <2>1 DEF DirClear, Here, Syncs
  <2>2. CASE Direct BY <2>2, DirectWrites
  <2> QED BY <2>1, <2>2
<1>4. win'.dirty \in BOOLEAN /\ (win'.dirty => win'.s # FsInfo) BY <1>w, <1>3 DEF FreeInv
<1>5. win' = win \/ ((win.dirty => win.s \notin FatSectors) /\ (win'.dirty => win'.s \notin FatSectors))
  BY <1>3, Names
<1>6. SameFat(card, card') /\ SameFat(Seen, Seen') BY <1>1, <1>2, <1>4, <1>5, FatKept
<1>7. Steady BY <1>2, <1>4, <1>6 DEF Steady
<1> QED BY <1>0, <1>7, FreeCalm DEF RowPlaces

(* FSInfo read: it counts no fewer than there are.                           *)
LEMMA InfoCalm == ASSUME StorageInv, CardInv, FreeInv, MountInfo PROVE Steady /\ FreeInv'
<1>0. /\ at = "fsinfo" /\ at' = "find" /\ Wanted \in {Nowhere, win.s} /\ UNCHANGED <<card, win>> /\ sound' = sound
      /\ fs' = [free |-> win.data[1], last |-> win.data[2], fsi |-> "clean"]
  BY DEF MountInfo, Here, sdVars
<1>1. Steady BY <1>0, SteadyStill
<1>2. win.s = FsInfo /\ ~win.dirty BY <1>0, WantedAt, Names DEF CardInv, Unwritten
<1>3. Seen = card /\ Seen' = card' BY <1>0, <1>2 DEF Seen, SeenOn
<1>4. Working BY <1>0 DEF Working, Resting, RowPlaces
<1>5. sound => win.data = card[FsInfo] BY <1>0, <1>2, <1>4, Sectors DEF CardInv, Fresh
<1>6. sound => fs'.free \in Nat /\ FreeCount(card) <= fs'.free
  <2>1. sound => card[FsInfo][1] \in Nat /\ FreeCount(card) <= card[FsInfo][1]
    BY <1>0 DEF FreeInv, Counted
  <2> QED BY <1>0, <1>5, <2>1
<1>7. FreeCount(card) \in Nat /\ InLink' = 0 BY <1>0, FreeIs DEF InLink
<1>8. Counted' /\ card'[Boot] = "fat32" => card'[FsInfo][1] \in Nat /\ FreeCount(card') <= card'[FsInfo][1]
  BY <1>0 DEF FreeInv, Counted, RowPlaces
<1>9. sound' => fs'.free \in Nat /\ FreeCount(Seen') + InLink' <= fs'.free BY <1>0, <1>3, <1>6, <1>7
<1>10. Free(Seen') \subseteq Free(card') BY <1>3
<1>11. fs' = [free |-> fs'.free, last |-> fs'.last, fsi |-> fs'.fsi] BY <1>0
<1>12. ~win'.dirty BY <1>0, <1>2
<1> QED BY <1>0, <1>1, <1>8, <1>9, <1>10, <1>11, <1>12 DEF FreeInv

(* What a cluster that is taken leaves of the count.                         *)
LEMMA TakenIs ==
  ASSUME NEW f \in Nat, NEW x \in Nat, x <= MaxCluster - 1, f >= x + 1
  PROVE  LET g == IF f <= MaxCluster - 1 THEN f - 1 ELSE f IN g \in Nat /\ x <= g
BY Geometry

(* What a change of the window does to what is counted.                      *)
LEMMA TakeCalm ==
  ASSUME StorageInv, CardInv, FreeInv, at \in {"mark", "link"}, UNCHANGED card, sound' = sound,
         at' \in {"link", "clear", "sector"}, win'.dirty, win'.s \in FatSectors,
         fs' = [free |-> fs'.free, last |-> fs'.last, fsi |-> fs'.fsi],
         sound => Free(Seen') \subseteq Free(Seen),
         sound => fs'.free \in Nat /\ FreeCount(Seen') + InLink' <= fs'.free
  PROVE  FreeInv'
<1>1. Working BY DEF Working, Resting, RowPlaces
<1>2. sound => Free(Seen) \subseteq Free(card) BY <1>1 DEF FreeInv
<1>3. Counted' => Counted BY DEF Counted, RowPlaces
<1>4. Counted' /\ card'[Boot] = "fat32" => card'[FsInfo][1] \in Nat /\ FreeCount(card') <= card'[FsInfo][1]
  BY <1>3 DEF FreeInv
<1>5. win'.s # FsInfo BY Names
<1> QED BY <1>2, <1>4, <1>5 DEF FreeInv

(* A free cluster is marked: one less, that the count will lose.             *)
LEMMA MarkCalm ==
  ASSUME StorageInv, CardInv, FreeInv, Mark
  PROVE  /\ FreeInv' /\ win'.s \in FatSectors /\ win'.dirty
         /\ sound => FreeCount(Seen) = FreeCount(Seen') + 1
         /\ sound => \A x \in Clusters : Fat(Seen', x) = IF x = chain.ncl THEN Eoc ELSE Fat(Seen, x)
<1>0. /\ at = "mark" /\ at \in Chaining /\ chain.ncl \in Clusters
      /\ Wanted = FatOf(chain.ncl) /\ Wanted \in {Nowhere, win.s}
      /\ Change(chain.ncl, Eoc) /\ UNCHANGED card /\ sound' = sound
  BY WantedAt DEF Mark, Here, sdVars, Chaining, StorageInv, ChainIs
<1>1. (IF chain.clst = 0 THEN fs' = Taken /\ GotCluster(chain.ncl) ELSE at' = "link" /\ fs' = fs)
  BY DEF Mark
<1>2. at' \in {"link", "clear", "sector"} /\ (at' = "link" <=> chain.clst # 0)
  BY <1>1 DEF GotCluster
<1>3. win.s = FatSector(chain.ncl) /\ win.s \in FatSectors BY <1>0, FatHere
<1>4. win'.s \in FatSectors /\ win'.dirty BY <1>0, <1>3, ChangedTo
<1>5. Working BY <1>0, ChainWorking
<1>6. ASSUME sound
      PROVE  /\ FreeCount(Seen) = FreeCount(Seen') + 1 /\ Free(Seen') \subseteq Free(Seen)
             /\ \A x \in Clusters : Fat(Seen', x) = IF x = chain.ncl THEN Eoc ELSE Fat(Seen, x)
  <2>1. PICK D, F, C, G, l : Work(D, F, C, G, l) BY <1>5, <1>6 DEF CardInv
  <2>2. Fresh BY <1>5, <1>6 DEF CardInv
  <2>3. win.data = Seen[win.s] BY <1>0, <2>2, FatSeen
  <2>4. \A x \in Clusters : Fat(Seen', x) = IF x = chain.ncl THEN Eoc ELSE Fat(Seen, x)
    BY <1>0, <1>3, <2>3, FatChanged
  <2>5. Fat(Seen, chain.ncl) = 0 BY <1>0, <2>1 DEF Work, Linking
  <2>6. PICK k : k = Seen OBVIOUS
  <2>7. PICK h : h = Seen' OBVIOUS
  <2>8. PICK c \in Clusters : c = chain.ncl BY <1>0
  <2>v. PICK v : v = Eoc OBVIOUS
  <2>9. FatSet(k, h, c, v) BY <2>4, <2>6, <2>7, <2>8, <2>v DEF FatSet
  <2>a. Fat(k, c) = 0 /\ v # 0 BY <2>5, <2>6, <2>8, <2>v, Geometry
  <2>10. Free(h) \subseteq Free(k) /\ FreeCount(k) = FreeCount(h) + 1 BY <2>9, <2>a, FreeTaken
  <2> QED BY <2>4, <2>6, <2>7, <2>10
<1>7. ASSUME sound PROVE fs'.free \in Nat /\ FreeCount(Seen') + InLink' <= fs'.free
  <2>1. fs.free \in Nat /\ FreeCount(Seen) + InLink <= fs.free BY <1>0, <1>5, <1>7 DEF FreeInv
  <2>2. InLink = 0 /\ InLink' = (IF chain.clst # 0 THEN 1 ELSE 0) BY <1>0, <1>2 DEF InLink
  <2>3. PICK x \in Nat : x = FreeCount(Seen') /\ x <= MaxCluster - 1 BY FreeIs
  <2>4. fs.free >= x + 1 BY <1>6, <1>7, <2>1, <2>2, <2>3
  <2>5. CASE chain.clst # 0 BY <1>1, <2>1, <2>2, <2>3, <2>4, <2>5
  <2>6. CASE chain.clst = 0
    <3>1. fs'.free = IF fs.free <= MaxCluster - 1 THEN fs.free - 1 ELSE fs.free BY <1>1, <2>6 DEF Taken
    <3>2. fs'.free \in Nat /\ x <= fs'.free BY <2>1, <2>3, <2>4, <3>1, TakenIs
    <3> QED BY <2>2, <2>3, <2>6, <3>2
  <2> QED BY <2>5, <2>6
<1>8. fs' = [free |-> fs'.free, last |-> fs'.last, fsi |-> fs'.fsi] BY <1>1 DEF Taken, FreeInv
<1>9. FreeInv' BY <1>0, <1>2, <1>4, <1>6, <1>7, <1>8, TakeCalm
<1> QED BY <1>4, <1>6, <1>9

(* It is linked: the count loses it.                                         *)
LEMMA LinkCalm ==
  ASSUME StorageInv, CardInv, FreeInv, Link
  PROVE  /\ FreeInv' /\ win'.s \in FatSectors /\ win'.dirty
         /\ sound => FreeCount(Seen') = FreeCount(Seen)
         /\ sound => \A x \in Clusters : Fat(Seen', x) = IF x = chain.clst THEN chain.ncl ELSE Fat(Seen, x)
<1>0. /\ at = "link" /\ at \in Chaining /\ chain.ncl \in Clusters /\ chain.clst \in Clusters
      /\ Wanted = FatOf(chain.clst) /\ Wanted \in {Nowhere, win.s} /\ chain.for \in {"file", "dir"}
      /\ Change(chain.clst, chain.ncl) /\ UNCHANGED card /\ sound' = sound
      /\ fs' = Taken /\ GotCluster(chain.ncl)
  BY WantedAt DEF Link, Here, sdVars, Chaining, StorageInv, ChainIs
<1>2. at' \in {"clear", "sector"} BY <1>0 DEF GotCluster
<1>3. win.s = FatSector(chain.clst) /\ win.s \in FatSectors BY <1>0, FatHere
<1>4. win'.s \in FatSectors /\ win'.dirty BY <1>0, <1>3, ChangedTo
<1>5. Working BY <1>0, ChainWorking
<1>6. ASSUME sound
      PROVE  /\ FreeCount(Seen') = FreeCount(Seen) /\ Free(Seen') = Free(Seen)
             /\ \A x \in Clusters : Fat(Seen', x) = IF x = chain.clst THEN chain.ncl ELSE Fat(Seen, x)
  <2>1. PICK D, F, C, G, l : Work(D, F, C, G, l) BY <1>5, <1>6 DEF CardInv
  <2>2. Fresh BY <1>5, <1>6 DEF CardInv
  <2>3. win.data = Seen[win.s] BY <1>0, <2>2, FatSeen
  <2>4. \A x \in Clusters : Fat(Seen', x) = IF x = chain.clst THEN chain.ncl ELSE Fat(Seen, x)
    BY <1>0, <1>3, <2>3, FatChanged
  <2>5. Fat(Seen, chain.clst) = Eoc
    <3>1. Leads(Seen, D) /\ Leads(Seen, F) BY <2>1 DEF Work, Good, Struct, Chains
    <3>2. CASE chain.for = "file"
      <4>1. PICK q \in 1..Len(F) : Fat(Seen, chain.clst) = (IF q < Len(F) THEN F[q + 1] ELSE Eoc) /\ q = Len(F)
        BY <1>0, <2>1, <3>2, Geometry, StretchSees
      <4>2. Len(F) \in Nat BY <3>1 DEF Leads
      <4> QED BY <4>1, <4>2
    <3>3. CASE chain.for = "dir"
      <4>1. chain.clst = D[Len(D)] /\ Seen[Boot] = "fat32" BY <1>0, <2>1, <3>3 DEF Work, DirGrows
      <4>2. D # <<>> /\ D \in Seq(Clusters) BY <2>1, <4>1 DEF Work, Good, Struct, Chains, Leads
      <4>3. Len(D) \in 1..Len(D) BY <4>2, EmptySeq
      <4> QED BY <3>1, <4>1, <4>3 DEF Leads
    <3> QED BY <1>0, <3>2, <3>3
  <2>6. PICK k : k = Seen OBVIOUS
  <2>7. PICK h : h = Seen' OBVIOUS
  <2>8. PICK c \in Clusters, v \in Clusters : c = chain.clst /\ v = chain.ncl BY <1>0
  <2>9. FatSet(k, h, c, v) BY <2>4, <2>6, <2>7, <2>8 DEF FatSet
  <2>a. Fat(k, c) # 0 /\ v # 0 BY <2>5, <2>6, <2>8, Geometry
  <2>10. Free(h) = Free(k) /\ FreeCount(h) = FreeCount(k) BY <2>9, <2>a, FreeLinked
  <2> QED BY <2>4, <2>6, <2>7, <2>10
<1>7. ASSUME sound PROVE fs'.free \in Nat /\ FreeCount(Seen') + InLink' <= fs'.free
  <2>1. fs.free \in Nat /\ FreeCount(Seen) + InLink <= fs.free BY <1>0, <1>5, <1>7 DEF FreeInv
  <2>2. InLink = 1 /\ InLink' = 0 BY <1>0, <1>2 DEF InLink
  <2>3. PICK x \in Nat : x = FreeCount(Seen') /\ x <= MaxCluster - 1 BY FreeIs
  <2>4. fs.free >= x + 1 BY <1>6, <1>7, <2>1, <2>2, <2>3
  <2>5. fs'.free = IF fs.free <= MaxCluster - 1 THEN fs.free - 1 ELSE fs.free BY <1>0 DEF Taken
  <2>6. fs'.free \in Nat /\ x <= fs'.free BY <2>1, <2>3, <2>4, <2>5, TakenIs
  <2> QED BY <2>2, <2>3, <2>6
<1>8. fs' = [free |-> fs'.free, last |-> fs'.last, fsi |-> fs'.fsi] BY <1>0 DEF Taken
<1>9. FreeInv' BY <1>0, <1>2, <1>4, <1>6, <1>7, <1>8, TakeCalm
<1> QED BY <1>4, <1>6, <1>9

(* What a card that comes has in its table.                                  *)
LEMMA VolumeFat ==
  ASSUME NEW kd \in {"fat32", "fat16", "none"}, NEW fill, NEW info, NEW k, k = Volume(kd, fill, info)
  PROVE  /\ k[Boot] = kd /\ k[FsInfo] = info
         /\ \A c \in Clusters :
              Fat(k, c) = IF c \in (IF fill = "taken" THEN Clusters
                                    ELSE IF kd = "fat32" THEN {Root, 3} ELSE {3}) THEN Eoc ELSE 0
<1> DEFINE used == IF fill = "taken" THEN Clusters ELSE IF kd = "fat32" THEN {Root, 3} ELSE {3}
           size == IF kd = "fat32" THEN ClusterUnits ELSE RootSectors * SectorUnits
           At(j) == IF j = 1 THEN Entry("other", 3, 1)
                    ELSE IF fill \in {"room", "taken"} THEN EndOfDir
                    ELSE IF j = size /\ fill = "gone" THEN Gone
                    ELSE Entry("label", 0, 0)
           Table(s) == [i \in 1..SectorUnits |-> At(s * SectorUnits + i)]
           Fats(s) == [c \in {y \in Clusters : FatSector(y) = s} |-> IF c \in used THEN Eoc ELSE 0]
<1>1. k = [y \in SectorSet |->
        CASE y = Boot -> kd
          [] y = FsInfo -> info
          [] y[1] = "fat" -> Fats(y)
          [] y[1] = "root" -> Table(y[2])
          [] y[1] = "data" /\ y[2] = Root /\ kd = "fat32" -> Table(y[3])
          [] OTHER -> Filled(Junk)]
  BY DEF Volume, SectorSet
<1>u. PICK v : v = used OBVIOUS
<1>2. \A s : Fats(s) = [c \in {y \in Clusters : FatSector(y) = s} |-> IF c \in v THEN Eoc ELSE 0]
  BY <1>u
<1> HIDE DEF Table, Fats, used
<1>3. k[Boot] = kd /\ k[FsInfo] = info BY <1>1, Names, Sectors
<1>4. ASSUME NEW c \in Clusters PROVE Fat(k, c) = IF c \in v THEN Eoc ELSE 0
  <2>1. FatSector(c) \in SectorSet /\ FatSector(c)[1] = "fat" BY Names, Sectors
  <2>2. k[FatSector(c)] = Fats(FatSector(c)) BY <1>1, <2>1, Names
  <2>3. Fats(FatSector(c))[c] = IF c \in v THEN Eoc ELSE 0 BY <1>2
  <2> QED BY <2>2, <2>3 DEF Fat
<1> QED BY <1>u, <1>3, <1>4 DEF used

(* FSInfo counts no fewer than are free.                                     *)
LEMMA VolumeCounts ==
  ASSUME NEW k \in Volumes, k[Boot] = "fat32"
  PROVE  k[FsInfo][1] \in Nat /\ FreeCount(k) <= k[FsInfo][1]
<1>1. PICK x \in Cards : k = Volume(x[1], x[2], IF ~x[3] THEN <<Unknown, Unknown>>
                      ELSE IF x[2] = "taken" THEN <<0, 3>> ELSE <<MaxCluster - 3, 3>>)
  BY DEF Volumes
<1>2. PICK kd, fill, info :
        /\ kd \in {"fat32", "fat16", "none"} /\ k = Volume(kd, fill, info)
        /\ info = IF ~x[3] THEN <<Unknown, Unknown>>
                  ELSE IF fill = "taken" THEN <<0, 3>> ELSE <<MaxCluster - 3, 3>>
  <2>1. x[1] \in {"fat32", "fat16", "none"} BY StorageAssumption
  <2> QED BY <1>1, <2>1
<1>3. /\ kd = "fat32" /\ k[FsInfo] = info
      /\ \A c \in Clusters :
           Fat(k, c) = IF c \in (IF fill = "taken" THEN Clusters
                                 ELSE IF kd = "fat32" THEN {Root, 3} ELSE {3}) THEN Eoc ELSE 0
  BY <1>2, VolumeFat
<1>4. FreeCount(k) \in Nat /\ FreeCount(k) <= MaxCluster - 1 BY FreeIs
<1>5. CASE ~x[3]
  <2>1. k[FsInfo][1] = Unknown BY <1>2, <1>3, <1>5
  <2> QED BY <1>4, <2>1, Geometry DEF Unknown
<1>6. CASE x[3] /\ fill = "taken"
  <2>1. k[FsInfo][1] = 0 BY <1>2, <1>3, <1>6
  <2>2. \A c \in Clusters : Fat(k, c) # 0 BY <1>3, <1>6, Geometry
  <2> QED BY <2>1, <2>2, NoneFree
<1>7. CASE x[3] /\ fill # "taken"
  <2>1. k[FsInfo][1] = MaxCluster - 3 BY <1>2, <1>3, <1>7
  <2>2. Free(k) \subseteq 4..MaxCluster
    <3>1. \A c \in Clusters : Fat(k, c) = IF c \in {Root, 3} THEN Eoc ELSE 0 BY <1>3, <1>7
    <3>2. \A c \in Free(k) : c \in Clusters /\ c \notin {Root, 3} BY <3>1, Geometry DEF Free
    <3> QED BY <3>2, Geometry
  <2>3. IsFiniteSet(4..MaxCluster) /\ Cardinality(4..MaxCluster) = MaxCluster - 3
    <3>1. IsFiniteSet(4..MaxCluster)
          /\ Cardinality(4..MaxCluster) = IF 4 > MaxCluster THEN 0 ELSE MaxCluster - 4 + 1
      BY Geometry, FS_Interval
    <3> QED BY <3>1, Geometry
  <2>4. FreeCount(k) <= MaxCluster - 3 BY ZenonT(40), <2>2, <2>3, FS_Subset DEF FreeCount
  <2> QED BY <2>1, <2>4, Geometry
<1> QED BY <1>5, <1>6, <1>7

(* Between the calls only what is on the card counts.                        *)
LEMMA RestCalm ==
  ASSUME at' \in Resting, Counted' /\ card'[Boot] = "fat32" =>
           card'[FsInfo][1] \in Nat /\ FreeCount(card') <= card'[FsInfo][1],
         fs' = [free |-> fs'.free, last |-> fs'.last, fsi |-> fs'.fsi],
         win'.dirty => win'.s # FsInfo
  PROVE  FreeInv'
<1>1. ~Working' /\ at' \notin {"boot", "fsinfo"} BY DEF Working, Resting, RowPlaces
<1> QED BY <1>1 DEF FreeInv

(* FSInfo written.                                                           *)
LEMMA SyncFsCalm ==
  ASSUME StorageInv, CardInv, FreeInv, SyncFs
  PROVE  FreeInv' /\ Seen = card /\ \A s \in SectorSet : s # FsInfo => card'[s] = card[s]
<1>0. /\ at = "sync" /\ at' = "leave" /\ ~win.dirty /\ sound' = sound
      /\ \/ /\ win' = [s |-> FsInfo, data |-> <<fs.free, fs.last>>, dirty |-> FALSE]
            /\ fs' = [fs EXCEPT !.fsi = "clean"]
            /\ card' \in {card, [card EXCEPT ![FsInfo] = <<fs.free, fs.last>>]}
         \/ UNCHANGED <<card, win, fs>>
  BY DEF SyncFs, Here, Syncs, sdVars
<1>1. Seen = card BY <1>0 DEF Seen, SeenOn
<1>2. Working BY <1>0 DEF Working, Resting, RowPlaces
<1>3. sound => fs.free \in Nat /\ FreeCount(card) <= fs.free
  <2>1. sound => fs.free \in Nat /\ FreeCount(Seen) + InLink <= fs.free BY <1>0, <1>2 DEF FreeInv
  <2>2. InLink = 0 /\ FreeCount(card) \in Nat BY <1>0, FreeIs DEF InLink
  <2> QED BY <1>1, <2>1, <2>2
<1>4. \A s \in SectorSet : s # FsInfo => card'[s] = card[s] BY <1>0 DEF StorageInv, CardHolds
<1>5. card'[FsInfo] = card[FsInfo] \/ card'[FsInfo] = <<fs.free, fs.last>>
  BY <1>0, Sectors DEF StorageInv, CardHolds
<1>6. SameFat(card, card')
  <2>1. \A c \in Clusters : FatSector(c) \in SectorSet /\ FatSector(c) # FsInfo BY Sectors, Names
  <2> QED BY <1>4, <2>1 DEF SameFat, Fat
<1>7. FreeCount(card') = FreeCount(card) BY <1>6, FreeSame
<1>8. card'[Boot] = card[Boot] BY <1>4, Sectors, Names
<1>9. Counted' => sound BY <1>0 DEF Counted, RowPlaces
<1>10. Counted' /\ card'[Boot] = "fat32" => card'[FsInfo][1] \in Nat /\ FreeCount(card') <= card'[FsInfo][1]
  <2>1. Counted' /\ card'[Boot] = "fat32" => card[FsInfo][1] \in Nat /\ FreeCount(card) <= card[FsInfo][1]
    BY <1>8, <1>9 DEF FreeInv, Counted
  <2>2. <<fs.free, fs.last>>[1] = fs.free OBVIOUS
  <2> QED BY <1>3, <1>5, <1>7, <1>9, <2>1, <2>2
<1>11. fs' = [free |-> fs'.free, last |-> fs'.last, fsi |-> fs'.fsi]
  <2>1. CASE fs' = [fs EXCEPT !.fsi = "clean"]
    <3>1. fs = [free |-> fs.free, last |-> fs.last, fsi |-> fs.fsi] BY DEF FreeInv
    <3>2. fs' = [free |-> fs.free, last |-> fs.last, fsi |-> "clean"] BY <2>1, <3>1
    <3> QED BY <3>2
  <2>2. CASE fs' = fs BY <2>2 DEF FreeInv
  <2> QED BY <1>0, <2>1, <2>2
<1>12. win'.dirty => win'.s # FsInfo
  <2>1. CASE win' = [s |-> FsInfo, data |-> <<fs.free, fs.last>>, dirty |-> FALSE] BY <2>1
  <2>2. CASE win' = win BY <1>0, <2>2
  <2> QED BY <1>0, <2>1, <2>2
<1>13. ~Working' BY <1>0 DEF Working
<1>14. FreeInv' BY <1>0, <1>10, <1>11, <1>12, <1>13 DEF FreeInv
<1> QED BY <1>1, <1>4, <1>14

(* Calls begin and end, the power goes, another card comes.                  *)
LEMMA ComesCalm ==
  ASSUME StorageInv, CardInv, FreeInv, Call \/ Leave \/ PowerOff \/ SwapCard
  PROVE  FreeInv'
<1>f. NoFs = [free |-> NoFs.free, last |-> NoFs.last, fsi |-> NoFs.fsi] /\ NoFs.free = Unknown BY DEF NoFs
<1>w. ~NoWindow.dirty BY DEF NoWindow
<1>c. Counted /\ card[Boot] = "fat32" => card[FsInfo][1] \in Nat /\ FreeCount(card) <= card[FsInfo][1]
  BY DEF FreeInv
<1>1. CASE Call
  <2>0. /\ at = "idle" /\ at' \in {"boot", "idle"} /\ UNCHANGED <<card, sound>>
        /\ \/ win' = NoWindow /\ fs' = NoFs
           \/ win' = win /\ fs' = fs /\ at' = "idle"
    BY <1>1 DEF Call, Invalidate
  <2>1. Counted' => Counted BY <2>0 DEF Counted, RowPlaces
  <2>2. ~Working' /\ at' # "fsinfo" BY <2>0 DEF Working, Resting
  <2>3. fs' = [free |-> fs'.free, last |-> fs'.last, fsi |-> fs'.fsi] /\ (at' = "boot" => fs'.free = Unknown)
    BY <2>0, <1>f DEF FreeInv
  <2>4. win'.dirty => win'.s # FsInfo BY <2>0, <1>w DEF FreeInv
  <2> QED BY <1>c, <2>0, <2>1, <2>2, <2>3, <2>4 DEF FreeInv
<1>2. CASE Leave \/ PowerOff
  <2>0. at' = "idle" /\ card' = card /\ sound' = sound /\ fs' = NoFs /\ (win' = win \/ win' = NoWindow)
    BY <1>2 DEF Leave, PowerOff, sdVars
  <2>1. Counted' => Counted BY <2>0 DEF Counted, RowPlaces
  <2>2. Counted' /\ card'[Boot] = "fat32" => card'[FsInfo][1] \in Nat /\ FreeCount(card') <= card'[FsInfo][1]
    BY <1>c, <2>0, <2>1
  <2>3. fs' = [free |-> fs'.free, last |-> fs'.last, fsi |-> fs'.fsi] BY <2>0, <1>f
  <2>4. win'.dirty => win'.s # FsInfo BY <2>0, <1>w DEF FreeInv
  <2>5. at' \in Resting BY <2>0 DEF Resting
  <2> QED BY <2>2, <2>3, <2>4, <2>5, RestCalm
<1>3. CASE SwapCard
  <2>0. at' = "idle" /\ card' \in Volumes /\ fs' = fs /\ win' = win
    BY <1>3 DEF SwapCard, memVars
  <2>1. PICK k \in Volumes : k = card' BY <2>0
  <2>2. k[Boot] = "fat32" => k[FsInfo][1] \in Nat /\ FreeCount(k) <= k[FsInfo][1] BY VolumeCounts
  <2>3. Counted' /\ card'[Boot] = "fat32" => card'[FsInfo][1] \in Nat /\ FreeCount(card') <= card'[FsInfo][1]
    BY <2>1, <2>2
  <2>4. fs' = [free |-> fs'.free, last |-> fs'.last, fsi |-> fs'.fsi] /\ (win'.dirty => win'.s # FsInfo)
    BY <2>0 DEF FreeInv
  <2>5. at' \in Resting BY <2>0 DEF Resting
  <2> QED BY <2>3, <2>4, <2>5, RestCalm
<1> QED BY <1>1, <1>2, <1>3

(* The row changes one sector of text.                                       *)
LEMMA RowCalm ==
  ASSUME StorageInv, CardInv, FreeInv, RowRead \/ RowWrite \/ RowBack \/ RowRestore \/ RowConfirm
  PROVE  FreeInv'
<1>c. Counted /\ card[Boot] = "fat32" => card[FsInfo][1] \in Nat /\ FreeCount(card) <= card[FsInfo][1]
  BY DEF FreeInv
<1>0. at \in Resting /\ at' \in Resting /\ fs' = fs /\ win' = win
  BY DEF RowRead, RowWrite, RowBack, RowRestore, RowConfirm, RowEnds, memVars, Resting, RowPlaces
<1>d. at \in RowPlaces => sd = [orig |-> sd.orig, ok |-> sd.ok, was |-> sd.was]
  BY DEF StorageInv, RowIs
<1>1. card' = card \/ \E d : card' = [card EXCEPT ![LastSector] = d]
  BY DEF RowRead, RowWrite, RowBack, RowRestore, RowConfirm, Puts
<1>2. \A s \in SectorSet : s # LastSector => card'[s] = card[s] BY <1>1 DEF StorageInv, CardHolds
<1>3. card'[FsInfo] = card[FsInfo] /\ card'[Boot] = card[Boot] /\ SameFat(card, card')
  <2>1. FsInfo # LastSector /\ Boot # LastSector /\ \A c \in Clusters : FatSector(c) # LastSector
    BY Names, Sectors
  <2> QED BY <1>2, <2>1, Sectors DEF SameFat, Fat
<1>4. FreeCount(card') = FreeCount(card) BY <1>3, FreeSame
<1>5. Counted' => Counted
  <2>1. CASE RowRead
    <3>1. sd'.was = sound /\ sound' = sound BY <2>1 DEF RowRead
    <3> QED BY <3>1 DEF Counted
  <2>2. CASE RowWrite
    <3>1. sd' = sd \/ sd' = [sd EXCEPT !.ok = FALSE] BY <2>2 DEF RowWrite
    <3>2. at = "row_write" /\ sound' = FALSE BY <2>2 DEF RowWrite
    <3>3. sd'.was = sd.was BY <1>d, <3>1, <3>2 DEF RowPlaces
    <3> QED BY <3>2, <3>3 DEF Counted, RowPlaces
  <2>3. CASE RowBack
    <3>1. PICK good : sd' = [sd EXCEPT !.ok = @ /\ good] BY <2>3 DEF RowBack
    <3>2. at = "row_back" /\ sound' = sound BY <2>3 DEF RowBack
    <3>3. sd'.was = sd.was BY <1>d, <3>1, <3>2 DEF RowPlaces
    <3> QED BY <3>2, <3>3 DEF Counted, RowPlaces
  <2>4. CASE RowRestore
    <3>1. at = "row_restore" /\ sd' = sd /\ sound' = sound BY <2>4 DEF RowRestore, sdVars
    <3> QED BY <3>1 DEF Counted, RowPlaces
  <2>5. CASE RowConfirm
    <3>1. at = "row_confirm" /\ at' = "idle" /\ sound' \in {sd.was, sound} BY <2>5 DEF RowConfirm, RowEnds
    <3> QED BY <3>1 DEF Counted, RowPlaces
  <2> QED BY <2>1, <2>2, <2>3, <2>4, <2>5
<1>6. Counted' /\ card'[Boot] = "fat32" => card'[FsInfo][1] \in Nat /\ FreeCount(card') <= card'[FsInfo][1]
  BY <1>c, <1>3, <1>4, <1>5
<1>7. fs' = [free |-> fs'.free, last |-> fs'.last, fsi |-> fs'.fsi] /\ (win'.dirty => win'.s # FsInfo)
  BY <1>0 DEF FreeInv
<1> QED BY <1>0, <1>6, <1>7, RestCalm

(* Every step keeps the counts right.                                        *)
LEMMA FreeKeeps == ASSUME StorageInv, CardInv, FreeInv, [Next]_vars PROVE FreeInv'
<1>1. CASE UNCHANGED vars
  <2>1. card' = card /\ win' = win /\ fs' = fs /\ at' = at /\ sd' = sd /\ sound' = sound
    BY <1>1 DEF vars, memVars, sdVars
  <2>2. Seen' = Seen /\ Counted' = Counted /\ Working' = Working /\ InLink' = InLink
    BY <2>1 DEF Seen, SeenOn, Counted, Working, InLink
  <2> QED BY <2>1, <2>2 DEF FreeInv
<1>2. CASE Next
  <2>1. CASE Flush \/ Fetch \/ Mount \/ MountInfo \/ Find \/ Alloc \/ NextCluster
    BY <2>1, FlushCalm, FetchCalm, ThinkCalm, InfoCalm, TextCalm
  <2>2. CASE DirClear \/ Seek \/ Stretch \/ Probe \/ Hunt \/ Mark \/ Link
    BY <2>2, WriteCalm, ThinkCalm, MarkCalm, LinkCalm
  <2>3. CASE WriteEnds \/ WriteMore \/ Edge \/ Direct \/ Copy \/ SyncEntry \/ SyncFs
    BY <2>3, ThinkCalm, TextCalm, WriteCalm, SyncFsCalm
  <2>4. CASE Leave \/ PowerOff \/ SwapCard \/ Call BY <2>4, ComesCalm
  <2>5. CASE RowRead \/ RowWrite \/ RowBack \/ RowRestore \/ RowConfirm BY <2>5, RowCalm
  <2> QED BY <1>2, <2>1, <2>2, <2>3, <2>4, <2>5 DEF Next, Program
<1> QED BY <1>1, <1>2

(* They are right when the program starts.                                   *)
LEMMA FreeStarts == ASSUME Init PROVE FreeInv
<1>0. card \in Volumes /\ win = NoWindow /\ fs = NoFs /\ at = "idle" BY DEF Init
<1>1. NoFs = [free |-> NoFs.free, last |-> NoFs.last, fsi |-> NoFs.fsi] /\ ~NoWindow.dirty BY DEF NoFs, NoWindow
<1>2. ~Working BY <1>0 DEF Working, Resting
<1> QED BY <1>0, <1>1, <1>2, VolumeCounts DEF FreeInv

(* The same table, the same chains.                                          *)
LEMMA LeadsSame == ASSUME NEW k, NEW h, NEW cs, Leads(k, cs), SameFat(k, h) PROVE Leads(h, cs)
<1>1. cs \in Seq(Clusters) /\ \A i \in 1..Len(cs) : cs[i] \in Clusters BY DEF Leads
<1> QED BY <1>1 DEF Leads, SameFat

(* How many clusters the file has, once it is open.                          *)
LEMMA HasNow ==
  ASSUME NEW D, NEW F, NEW C, NEW G, NEW l, Work(D, F, C, G, l), InFile
  PROVE  /\ Leads(Seen, F) /\ F \in Seq(Clusters) /\ Len(F) \in Nat
         /\ fp.scl = IF F = <<>> THEN 0 ELSE F[1]
         /\ ChainFrom(Seen, fp.scl) = F /\ Has(Seen) = Len(F)
         /\ \A i \in 1..Len(F) : F[i] \in Clusters
<1>1. Leads(Seen, F) /\ F \in Seq(Clusters) BY DEF Work, Good, Struct, Chains, Leads
<1>2. fp.scl = IF F = <<>> THEN 0 ELSE F[1] BY DEF Work, InTheFile
<1>3. PICK k, c : k = Seen /\ c = fp.scl OBVIOUS
<1>4. ChainFrom(k, c) = F /\ Len(F) \in Nat BY <1>1, <1>2, <1>3, HasIs
<1> QED BY <1>1, <1>2, <1>3, <1>4 DEF Has

(* It has as many while the table stays.                                     *)
LEMMA HasKept ==
  ASSUME NEW D, NEW F, NEW C, NEW G, NEW l, Work(D, F, C, G, l), InFile,
         SameFat(Seen, Seen'), fp'.scl = fp.scl
  PROVE  Has(Seen)' = Has(Seen)
<1>1. /\ Leads(Seen, F) /\ fp.scl = (IF F = <<>> THEN 0 ELSE F[1]) /\ Has(Seen) = Len(F)
  BY HasNow
<1>2. PICK k, h, c : k = Seen /\ h = Seen' /\ c = fp.scl OBVIOUS
<1>3. Leads(h, F) BY <1>1, <1>2, LeadsSame
<1>4. ChainFrom(h, c) = F BY <1>1, <1>2, <1>3, HasIs
<1> QED BY <1>1, <1>2, <1>4 DEF Has

(* A call at work is at work on a card in order.                             *)
LEMMA WellIs ==
  ASSUME CardInv, Well
  PROVE  /\ IsSeq(before) /\ Need \in Nat /\ Need >= 1
         /\ \A q \in Nat : q * ClusterUnits < Len(before) + ReportUnits => Need >= q + 1
         /\ Working => Fresh /\ \E D, F, C, G, l : Work(D, F, C, G, l)
<1>1. IsSeq(before) BY DEF CardInv, CardOK, Well
<1> QED BY <1>1, NeedIs DEF CardInv, Well

(* A directory with no free unit has no slot.                                *)
LEMMA NoSlot ==
  ASSUME NEW k, NEW D, NEW F, Chains(k, D, F), Unfree(k, D, TableSize(k[Boot], D))
  PROVE  ~Slot(k)
<1>1. Directory(k) = [p \in 1..TableSize(k[Boot], D) |-> TableUnit(k, D, p)] BY TableRead
<1> QED BY <1>1 DEF Slot, Unfree, IsFree

(* Room for the report is room for it when there is none yet.                *)
LEMMA RoomyIs ==
  ASSUME NEW D, NEW F, NEW l, Good(card, D, F, l, before, n), NoReport(card), Size(card, l) = Len(before),
         Fits(card), Need \in Nat
  PROVE  Roomy(card)
<1>1. PICK k : k = card OBVIOUS
<1>2. Struct(k, D, F, l) /\ l \in Places BY <1>1 DEF Good, Struct
<1>3. ~IsReport(UnitAt(k, l)) BY <1>1, <1>2 DEF NoReport
<1>4. Reports(k) = {} BY <1>2, <1>3, ReportsRead
<1>5. Size(k, l) = 0 BY <1>3 DEF Size
<1>6. Len(FileOn(k)) = Len(before)
  <2>1. FileOn(k) = [x \in 1..Size(k, l) |-> FileUnit(k, F, x)] BY <1>2, FileRead
  <2>2. FileOn(k) = <<>> BY <1>4 DEF FileOn
  <2> QED BY <1>1, <1>5, <2>2
<1>7. PICK f \in Nat : f = Cardinality(Free(k)) BY FreeIs DEF FreeCount
<1>8. PICK slot \in BOOLEAN : slot <=> Slot(k) OBVIOUS
<1>9. (slot \/ k[Boot] = "fat32") /\ f >= Need - 0 + (IF slot THEN 0 ELSE 1)
  BY <1>1, <1>4, <1>6, <1>7, <1>8 DEF Fits, Slot, Need
<1> QED BY <1>1, <1>7, <1>8, <1>9 DEF Roomy, FreeCount

(* Room for the report is room for what the file lacks.                      *)
LEMMA RoomFound ==
  ASSUME NEW D, NEW F, NEW l, Good(card, D, F, l, before, n), IsReport(UnitAt(card, l)),
         Size(card, l) = Len(before), Fits(card), Need \in Nat, Leads(card, F),
         UnitAt(card, l)[2] = IF F = <<>> THEN 0 ELSE F[1]
  PROVE  FreeCount(card) + Len(F) >= Need
<1>1. PICK k : k = card OBVIOUS
<1>2. Struct(k, D, F, l) BY <1>1 DEF Good
<1>3. PICK e : e = UnitAt(k, l) OBVIOUS
<1>4. Reports(k) = {e} BY <1>1, <1>2, <1>3, ReportsRead
<1>5. (CHOOSE x \in Reports(k) : TRUE) = e BY <1>4
<1>6. PICK z \in Nat : z = Size(k, l) BY <1>2, FileRead
<1>7. Len(FileOn(k)) = z
  <2>1. FileOn(k) = [x \in 1..z |-> FileUnit(k, F, x)] BY <1>2, <1>6, FileRead
  <2> QED BY <2>1
<1>8. ChainFrom(k, e[2]) = F /\ Len(F) \in Nat
  <2>1. PICK c : c = e[2] OBVIOUS
  <2>2. Leads(k, F) /\ c = IF F = <<>> THEN 0 ELSE F[1] BY <1>1, <1>3, <2>1
  <2> QED BY <2>1, <2>2, HasIs
<1>9. PICK f \in Nat : f = Cardinality(Free(k)) BY FreeIs DEF FreeCount
<1>10. f >= Need - Len(F)
  <2>1. Reports(k) # {} BY <1>4
  <2>2. PICK g : g = (CHOOSE x \in Reports(k) : TRUE)[2] OBVIOUS
  <2>3. Cardinality(Free(k)) >= (Len(FileOn(k)) + ReportUnits + ClusterUnits - 1) \div ClusterUnits
                                - Len(ChainFrom(k, g)) + 0
    <3>1. PICK h : h = Len(ChainFrom(k, g)) OBVIOUS
    <3>2. PICK need : need = (Len(FileOn(k)) + ReportUnits + ClusterUnits - 1) \div ClusterUnits OBVIOUS
    <3> QED BY <1>1, <2>1, <2>2, <3>1, <3>2 DEF Fits
  <2>4. g = e[2] BY <1>5, <2>2
  <2>5. Len(FileOn(k)) = Len(before) BY <1>1, <1>6, <1>7
  <2>6. PICK w \in Nat : w = Need OBVIOUS
  <2>7. w = (Len(FileOn(k)) + ReportUnits + ClusterUnits - 1) \div ClusterUnits BY <2>5, <2>6 DEF Need
  <2>8. Cardinality(Free(k)) >= w - Len(ChainFrom(k, g)) + 0 BY <2>3, <2>7
  <2>9. Cardinality(Free(k)) = f /\ Len(ChainFrom(k, g)) = Len(F)
    <3>1. ChainFrom(k, g) = F BY <1>8, <2>4
    <3>2. Cardinality(Free(k)) = f BY <1>9
    <3> QED BY <3>1, <3>2
  <2> QED BY <1>8, <2>6, <2>8, <2>9
<1> QED BY <1>1, <1>8, <1>9, <1>10 DEF FreeCount

(* A chain that needs a cluster finds one.                                   *)
LEMMA RoomLeft ==
  ASSUME StorageInv, CardInv, Well, Health, at \in {"stretch", "probe", "hunt"},
         at = "stretch" => Fat(Seen, chain.clst) = Eoc /\ chain.clst # 0
  PROVE  FreeCount(Seen) >= 1
<1>0. at \in Chaining /\ Working /\ InLink = 0 /\ FreeCount(Seen) \in Nat
      /\ chain.for \in {"file", "dir"}
  BY ChainWorking, FreeIs DEF Chaining, InLink, StorageInv, ChainIs
<1>1. Need \in Nat /\ Need >= 1 BY WellIs
<1>2. CASE chain.for = "dir"
  <2>1. FreeCount(Seen) + InLink >= Need + 1 BY <1>0, <1>2 DEF Health
  <2> QED BY <1>0, <1>1, <2>1
<1>3. CASE chain.for = "file"
  <2>1. PICK D, F, C, G, l : Work(D, F, C, G, l) BY <1>0, WellIs
  <2>2. InFile BY <1>0, <1>3 DEF InFile
  <2>3. /\ Len(F) \in Nat /\ Has(Seen) = Len(F) /\ \A i \in 1..Len(F) : F[i] \in Clusters
    BY <2>1, <2>2, HasNow
  <2>4. FreeCount(Seen) + InLink + Has(Seen) >= Need BY <2>2 DEF Health
  <2>5. CASE chain.clst = 0
    <3>1. F = <<>> BY <1>0, <1>3, <2>1, <2>5 DEF Work, InTheCluster
    <3>2. Len(F) = 0 BY <3>1
    <3> QED BY <1>0, <1>1, <2>3, <2>4, <3>2
  <2>6. CASE chain.clst # 0
    <3>1. PICK q \in 1..Len(F) :
              /\ fp.ptr = q * ClusterUnits
              /\ Fat(Seen, chain.clst) = IF q < Len(F) THEN F[q + 1] ELSE Eoc
              /\ at # "stretch" => q = Len(F)
      BY <1>3, <2>1, <2>6, StretchSees
    <3>2. q = Len(F)
      <4>1. CASE at = "stretch"
        <5>1. q < Len(F) => q + 1 \in 1..Len(F) BY <2>3
        <5> QED BY <2>3, <3>1, <4>1, <5>1, Geometry
      <4> QED BY <3>1, <4>1
    <3>3. fp.ptr = Len(before) + done /\ Left > 0 /\ done \in 0..ReportUnits
      BY <1>0, <1>3, <2>1, <2>2 DEF Work, InTheFile, Chaining, StorageInv, FileIs
    <3>4. PICK b \in Nat : b = Len(before) BY WellIs DEF IsSeq
    <3>5. q * ClusterUnits < Len(before) + ReportUnits BY <3>1, <3>3, <3>4, Geometry DEF Left
    <3>6. Need >= q + 1 BY <2>3, <3>5, WellIs
    <3> QED BY <1>0, <1>1, <2>3, <2>4, <3>2, <3>6
  <2> QED BY <2>5, <2>6
<1> QED BY <1>0, <1>2, <1>3

(* Where only the card counts.                                               *)
CardPlaces == {"boot", "fsinfo", "find", "find_next", "alloc", "alloc_next", "leave"}

(* A transfer changes nothing of it.                                         *)
LEMMA HealthStays ==
  ASSUME HealthInv, Seen' = Seen, UNCHANGED <<at, result, fp, chain, done, n, before, clean, fits, sound>>,
         card' = card \/ at \notin CardPlaces
  PROVE  HealthInv'
<1> SUFFICES ASSUME Well' PROVE Health' BY DEF HealthInv
<1>1. Well /\ Health BY DEF HealthInv, Well
<1>2. Need' = Need BY DEF Need
<1>3. Has(Seen)' = Has(Seen) BY DEF Has
<1>4. InLink' = InLink /\ InFile' = InFile BY DEF InLink, InFile
<1>5. card' = card => (Roomy(card)' <=> Roomy(card)) BY <1>2 DEF Roomy
<1>6. Hunted' <=> Hunted BY DEF Hunted
<1>7. (Whole(Seen)' <=> Whole(Seen)) /\ (card' = card => (Whole(card)' <=> Whole(card))) BY DEF Whole
<1>8. FreeCount(Seen)' = FreeCount(Seen) OBVIOUS
<1>9. result' = "ok" /\ (at' = "hunt" => Hunted') /\ (at' = "close" => done' = ReportUnits)
      /\ (at' = "sync" => Whole(Seen)')
  BY <1>1, <1>6, <1>7 DEF Health
<1>10. /\ at' \in Chaining /\ chain'.for = "dir" => FreeCount(Seen)' + InLink' >= Need' + 1
       /\ at' = "clear" => FreeCount(Seen)' >= Need'
       /\ InFile' => FreeCount(Seen)' + InLink' + Has(Seen)' >= Need'
  BY <1>1, <1>2, <1>3, <1>4, <1>8 DEF Health
<1>11. at' \in CardPlaces => card' = card BY DEF CardPlaces
<1>12. /\ at' \in {"boot", "fsinfo", "find", "find_next"} => Fits(card')
       /\ at' \in {"alloc", "alloc_next"} => Roomy(card)'
       /\ at' = "leave" => Whole(card)'
  BY <1>1, <1>5, <1>7, <1>11 DEF Health, CardPlaces
<1> QED BY <1>9, <1>10, <1>12 DEF Health

(* sync_window, move_window.                                                 *)
LEMMA FlushHealthy == ASSUME StorageInv, CardInv, FreeInv, HealthInv, Flush PROVE HealthInv'
<1>1. CASE clean' = FALSE BY <1>1 DEF HealthInv, Well
<1>2. CASE UNCHANGED <<at, result, locked, clean>>
  <2>1. Seen' = Seen BY FlushCalm
  <2>2. UNCHANGED <<fp, chain, done, n, before, fits, sound>> BY DEF Flush, callVars, sdVars
  <2>3. at \notin CardPlaces
    <3>1. at # "leave"
      <4>1. at = "leave" => Wanted = Nowhere /\ ~Syncs BY DEF Wanted, Syncs, Chaining
      <4> QED BY <4>1 DEF Flush
    <3>2. win.dirty BY DEF Flush
    <3> QED BY <3>1, <3>2 DEF CardInv, Unwritten, CardPlaces
  <2> QED BY <1>2, <2>1, <2>2, <2>3, HealthStays
<1> QED BY <1>1, <1>2 DEF Flush

(* A sector that is fetched: still room.                                     *)
LEMMA FetchHealthy == ASSUME StorageInv, CardInv, FreeInv, HealthInv, Fetch PROVE HealthInv'
<1>1. CASE clean' = FALSE BY <1>1 DEF HealthInv, Well
<1>2. CASE /\ win' = [s |-> Wanted, data |-> card[Wanted], dirty |-> FALSE]
           /\ UNCHANGED <<at, result, locked, clean>>
  <2>1. ~win.dirty /\ card' = card BY DEF Fetch
  <2>2. Seen' = Seen BY <1>2, <2>1 DEF Seen, SeenOn
  <2>3. UNCHANGED <<fp, chain, done, n, before, fits, sound>> BY DEF Fetch, callVars, sdVars
  <2> QED BY <1>2, <2>1, <2>2, <2>3, HealthStays
<1> QED BY <1>1, <1>2 DEF Fetch

(* A call begins with room for what it has to write.                         *)
LEMMA CallHealthy == ASSUME HealthInv, Call PROVE HealthInv'
<1> SUFFICES ASSUME Well' PROVE Health' BY DEF HealthInv
<1>1. at' = "boot" /\ result' = "ok" /\ card' = card /\ fits' = Fits(card)
  BY DEF Well, Call, Resting
<1>2. fits' BY DEF Well
<1>3. at' \notin Chaining /\ ~InFile' BY <1>1 DEF Chaining, InFile
<1> QED BY <1>1, <1>2, <1>3 DEF Health

(* A place before the file is found needs no more than that.                 *)
LEMMA HealthOnCard ==
  ASSUME at' \in {"fsinfo", "find", "find_next"}, result' = "ok", Fits(card')
  PROVE  Health'
<1>1. at' \notin Chaining /\ ~InFile' BY DEF Chaining, InFile
<1> QED BY <1>1 DEF Health

(* mount_volume done: the directory can be searched.                         *)
LEMMA MountHealthy ==
  ASSUME StorageInv, CardInv, FreeInv, HealthInv, Mount \/ MountInfo
  PROVE  HealthInv'
<1> SUFFICES ASSUME Well' PROVE Health' BY DEF HealthInv
<1>1. CASE Mount
  <2>1. at = "boot" /\ Wanted \in {Nowhere, win.s} /\ card' = card
        /\ UNCHANGED <<clean, fits, sound>>
    BY <1>1 DEF Mount, Here, callVars, sdVars
  <2>2. Well /\ Health BY <2>1 DEF HealthInv, Well, Resting, RowPlaces
  <2>3. Fits(card) /\ result = "ok" BY <2>1, <2>2 DEF Health
  <2>4. win.s = Boot /\ ~win.dirty BY <2>1, WantedAt, Names DEF CardInv, Unwritten
  <2>5. win.data = card[Boot] BY <2>1, <2>4, Sectors DEF CardInv, Fresh
  <2>6. win.data # "none" BY <2>3, <2>5 DEF Fits
  <2>7. at' \in {"fsinfo", "find"} /\ result' = result BY <1>1, <2>6 DEF Mount
  <2> QED BY <2>1, <2>3, <2>7, HealthOnCard
<1>2. CASE MountInfo
  <2>1. at = "fsinfo" /\ at' = "find" /\ card' = card /\ result' = result
        /\ UNCHANGED <<clean, fits, sound>>
    BY <1>2 DEF MountInfo, Here, callVars, sdVars
  <2>2. Well /\ Health BY <2>1 DEF HealthInv, Well, Resting, RowPlaces
  <2> QED BY <2>1, <2>2, HealthOnCard DEF Health
<1> QED BY <1>1, <1>2

(* At work is at work.                                                       *)
LEMMA HealthIs ==
  ASSUME HealthInv, Well', UNCHANGED <<clean, fits, sound>>, at \notin Resting
  PROVE  Well /\ Health /\ clean /\ sound
BY DEF HealthInv, Well

(* A directory without the file has room for it and for its entry.           *)
LEMMA RoomStarts ==
  ASSUME CardInv, CardInv', Well, Well', at' = "alloc", result' = "ok", Fits(card),
         UNCHANGED <<card, before, n>>, Seen' = card
  PROVE  Health'
<1>1. at' \notin Chaining /\ ~InFile' BY DEF Chaining, InFile
<1>2. PICK D, F, C, G, l : Work(D, F, C, G, l)' BY DEF CardInv, Well, Working
<1>3. Good(card, C, G, l, before, n) /\ Size(card, l) = Len(before) BY <1>2 DEF Work
<1>4. NoReport(card) BY <1>2 DEF Work, Searching
<1>5. Need \in Nat BY WellIs
<1>6. Roomy(card) BY <1>3, <1>4, <1>5, RoomyIs
<1>7. Need' = Need BY DEF Need
<1>8. Roomy(card)' BY <1>6, <1>7 DEF Roomy
<1> QED BY <1>1, <1>8 DEF Health

(* Nor does one that is found lack it.                                       *)
LEMMA RoomOpens ==
  ASSUME CardInv, CardInv', Well, Well', at' \in {"seek", "write"}, result' = "ok", Fits(card),
         UNCHANGED <<card, before, n>>, Seen' = card,
         fp'.scl = UnitAt(card, <<fp'.entry, fp'.i>>)[2]
  PROVE  Health'
<1>1. at' \notin Chaining /\ InFile' /\ InLink' = 0 BY DEF Chaining, InFile, InLink
<1>2. PICK D, F, C, G, l : Work(D, F, C, G, l)' BY DEF CardInv, Well, Working, Resting, RowPlaces
<1>3. Good(card, D, F, l, before, n) /\ Size(card, l) = Len(before) BY <1>1, <1>2 DEF Work
<1>4. /\ l = <<fp'.entry, fp'.i>> /\ IsReport(UnitAt(card, l))
      /\ fp'.scl = IF F = <<>> THEN 0 ELSE F[1]
  BY <1>1, <1>2 DEF Work, InTheFile
<1>5. UnitAt(card, l)[2] = fp'.scl BY <1>4
<1>6. Leads(card, F) BY <1>3 DEF Good, Struct, Chains
<1>7. Need \in Nat BY WellIs
<1>8. FreeCount(card) + Len(F) >= Need BY <1>3, <1>4, <1>5, <1>6, <1>7, RoomFound
<1>9. Need' = Need BY DEF Need
<1>10. Has(Seen)' = Len(F) /\ Len(F) \in Nat
  <2>1. PICK k, c : k = card /\ c = fp'.scl OBVIOUS
  <2>2. ChainFrom(k, c) = F /\ Len(F) \in Nat BY <1>4, <1>6, <2>1, HasIs
  <2> QED BY <2>1, <2>2 DEF Has
<1>11. FreeCount(Seen)' = FreeCount(card) /\ FreeCount(card) \in Nat BY FreeIs
<1> QED BY <1>1, <1>7, <1>8, <1>9, <1>10, <1>11 DEF Health

(* dir_find.                                                                 *)
LEMMA FindHealthy ==
  ASSUME StorageInv, CardInv, CardInv', HealthInv, Find
  PROVE  HealthInv'
<1> SUFFICES ASSUME Well' PROVE Health' BY DEF HealthInv
<1>0. /\ at = "find" /\ at \notin Resting /\ Wanted \in {Nowhere, win.s}
      /\ UNCHANGED <<card, win, before, n, clean, fits, sound>>
  BY DEF Find, Here, callVars, sdVars, Resting, RowPlaces
<1>1. Well /\ Health /\ sound BY <1>0, HealthIs
<1>2. Fits(card) /\ result = "ok" BY <1>0, <1>1 DEF Health
<1>3. ~win.dirty /\ Seen = card /\ Seen' = card
  BY <1>0, SeenIs DEF CardInv, Unwritten, Seen, SeenOn
<1>4. PICK e : e = win.data[dir.i] OBVIOUS
<1>5. ~locked BY <1>0 DEF StorageInv, LockIs, InFile, Chaining
<1>6. \/ NotFound
      \/ IsReport(e) /\ Opened(e, FALSE)
      \/ DirNext(NotFound, "find_next")
  BY <1>4, <1>5 DEF Find, ChkShare
<1>7. CASE NotFound
  <2>1. at' = "alloc" /\ result' = "ok" BY <1>2, <1>7 DEF NotFound
  <2> QED BY <1>0, <1>1, <1>2, <1>3, <2>1, RoomStarts
<1>8. CASE IsReport(e) /\ Opened(e, FALSE)
  <2>1. at' \in {"seek", "write"} /\ result' = "ok" BY <1>2, <1>8 DEF Opened
  <2>2. fp'.entry = win.s /\ fp'.i = dir.i /\ fp'.scl = e[2] BY <1>8 DEF Opened, NoFile
  <2>3. win.s \in SectorSet BY <1>0, DirHere
  <2>4. Working BY <1>0 DEF Working, Resting, RowPlaces
  <2>5. win.data = card[win.s] BY <1>0, <1>1, <1>3, <2>3, <2>4, FreshSight DEF CardInv
  <2>6. fp'.scl = UnitAt(card, <<fp'.entry, fp'.i>>)[2] BY <1>4, <2>2, <2>5 DEF UnitAt
  <2> QED BY <1>0, <1>1, <1>2, <1>3, <2>1, <2>6, RoomOpens
<1>9. CASE DirNext(NotFound, "find_next")
  <2>1. \/ UNCHANGED <<at, result>> \/ (at' = "find_next" /\ UNCHANGED result) \/ NotFound
    BY <1>9 DEF DirNext
  <2>2. CASE NotFound BY <1>7, <2>2
  <2>3. CASE at' \in {"find", "find_next"} /\ result' = result BY <1>0, <1>2, <2>3, HealthOnCard
  <2> QED BY <1>0, <2>1, <2>2, <2>3
<1> QED BY <1>6, <1>7, <1>8, <1>9

(* A search for a free unit that has seen them all.                          *)
LEMMA RoomHasSlot ==
  ASSUME StorageInv, CardInv, sound, at = "alloc", Wanted \in {Nowhere, win.s},
         DirNext(Refused /\ UNCHANGED dir, "alloc_next"), at' = "leave", ~IsFree(win.data[dir.i])
  PROVE  ~Slot(card) /\ card[Boot] # "fat32"
<1>0. DirIs /\ dir.i \in 1..SectorUnits /\ Working BY DEF StorageInv, DirIs, Working, Resting, RowPlaces
<1>1. ~win.dirty /\ Seen = card BY SeenIs DEF CardInv, Unwritten
<1>2. win.s = DirSector /\ win.s \in SectorSet BY DirHere
<1>3. Fresh BY <1>0 DEF CardInv
<1>4. win.data = Seen[win.s] BY <1>2, <1>3, FreshSight
<1>5. PICK k : k = card OBVIOUS
<1>6. PICK D, F, C, G, l : Work(D, F, C, G, l) BY <1>0 DEF CardInv
<1>7. Chains(k, D, F) BY <1>1, <1>5, <1>6 DEF Work, Good, Struct
<1>8. PICK a \in Nat, p \in Nat : Spot(k[Boot], D, dir, a, p) /\ Unfree(k, D, p - 1)
  BY <1>1, <1>5, <1>6 DEF Work, Searching
<1>9. p \in 1..TableSize(k[Boot], D) /\ TablePlace(k, D, p) = <<DirSector, dir.i>>
  BY <1>0, <1>7, <1>8, SpotUnit
<1>10. ~IsFree(TableUnit(k, D, p)) BY <1>1, <1>2, <1>4, <1>5, <1>9 DEF TableUnit, UnitAt
<1>11. Unfree(k, D, p)
  <2>1. \A q \in 1..p : q \in 1..(p - 1) \/ q = p BY <1>8
  <2> QED BY <1>8, <1>10, <2>1 DEF Unfree
<1>12. p = TableSize(k[Boot], D)
  <2>1. \/ UNCHANGED <<at, result>> /\ Spot(k[Boot], D, dir', a, p + 1)
        \/ AtClusterEnd(dir) /\ at' = "alloc_next" /\ UNCHANGED <<dir, result>>
        \/ p = TableSize(k[Boot], D) /\ (Refused /\ UNCHANGED dir)
    BY <1>0, <1>7, <1>8, SpotNext
  <2> QED BY <2>1
<1>13. ~Slot(k) BY <1>7, <1>11, <1>12, NoSlot
<1>14. dir.c = 0 BY DEF DirNext
<1>15. k[Boot] # "fat32"
  <2>1. ASSUME k[Boot] = "fat32" PROVE FALSE
    <3>1. a \in 1..Len(D) /\ dir.c = D[a] BY <1>8, <2>1 DEF Spot
    <3>2. D[a] \in Clusters BY <1>7, <3>1 DEF Chains, Leads
    <3> QED BY <1>14, <3>1, <3>2, Geometry
  <2> QED BY <2>1
<1> QED BY <1>5, <1>13, <1>15

(* dir_register.                                                             *)
LEMMA AllocHealthy ==
  ASSUME StorageInv, CardInv, FreeInv, HealthInv, Alloc
  PROVE  HealthInv'
<1> SUFFICES ASSUME Well' PROVE Health' BY DEF HealthInv
<1>0. /\ at = "alloc" /\ at \notin Resting /\ Wanted \in {Nowhere, win.s}
      /\ UNCHANGED <<card, before, n, clean, fits, sound>>
  BY DEF Alloc, Here, callVars, sdVars, Resting, RowPlaces
<1>1. Well /\ Health /\ sound BY <1>0, HealthIs
<1>2. Roomy(card) /\ result = "ok" BY <1>0, <1>1 DEF Health
<1>3. ~win.dirty /\ Seen = card BY <1>0, SeenIs DEF CardInv, Unwritten
<1>4. Need' = Need /\ Need \in Nat BY <1>0, <1>1, WellIs DEF Need
<1>5. CASE IsFree(win.data[dir.i])
  <2>1. PICK e : e = Entry("report", 0, 0) /\ e[2] = 0 /\ Opened(e, TRUE) BY <1>5 DEF Alloc, Entry
  <2>2. at' \in {"seek", "write"} /\ result' = "ok" /\ fp'.scl = 0
    BY <1>2, <2>1 DEF Opened, NoFile
  <2>3. at' \notin Chaining /\ InFile' /\ InLink' = 0 BY <2>2 DEF Chaining, InFile, InLink
  <2>4. Has(Seen)' = 0
    <3>1. PICK k : k = Seen' OBVIOUS
    <3>2. ChainFrom(k, 0) = <<>> BY NoChainAtNone
    <3> QED BY <2>2, <3>1, <3>2 DEF Has
  <2>5. SameFat(Seen, Seen') BY TextCalm DEF Steady
  <2>6. FreeCount(Seen)' = FreeCount(card) /\ FreeCount(card) \in Nat
    <3>1. PICK k, h : k = Seen /\ h = Seen' OBVIOUS
    <3> QED BY <1>3, <2>5, <3>1, FreeSame, FreeIs
  <2>7. FreeCount(card) >= Need BY <1>2 DEF Roomy
  <2>8. FreeCount(Seen)' + InLink' + Has(Seen)' >= Need' BY <1>4, <2>3, <2>4, <2>6, <2>7
  <2> QED BY <2>2, <2>3, <2>8 DEF Health
<1>6. CASE ~IsFree(win.data[dir.i])
  <2>1. DirNext(Refused /\ UNCHANGED dir, "alloc_next") BY <1>6 DEF Alloc
  <2>2. at' # "leave"
    <3>1. ASSUME at' = "leave" PROVE FALSE
      <4>1. ~Slot(card) /\ card[Boot] # "fat32" BY <1>0, <1>1, <1>6, <2>1, <3>1, RoomHasSlot
      <4> QED BY <1>2, <4>1 DEF Roomy
    <3> QED BY <3>1
  <2>3. at' \in {"alloc", "alloc_next"} /\ result' = result BY <1>0, <2>1, <2>2 DEF DirNext, Refused
  <2>4. Roomy(card)' BY <1>0, <1>2, <1>4 DEF Roomy
  <2>5. at' \notin Chaining /\ ~InFile' BY <2>3 DEF Chaining, InFile
  <2> QED BY <1>2, <2>3, <2>4, <2>5 DEF Health
<1> QED BY <1>5, <1>6

(* dir_next past the end of a cluster.                                       *)
LEMMA NextClusterHealthy ==
  ASSUME StorageInv, CardInv, CardInv', HealthInv, NextCluster
  PROVE  HealthInv'
<1> SUFFICES ASSUME Well' PROVE Health' BY DEF HealthInv
<1>0. /\ at \in {"find_next", "alloc_next"} /\ at \notin Resting \cup {"copy", "close", "sync"}
      /\ Wanted \in {Nowhere, win.s} /\ Working /\ Wanted = FatOf(dir.c)
      /\ UNCHANGED <<card, win, before, n, clean, fits, sound>>
  BY WantedAt DEF NextCluster, Here, callVars, sdVars, Resting, RowPlaces, Working
<1>1. Well /\ Health /\ sound BY <1>0, HealthIs
<1>2. result = "ok" /\ (at = "find_next" => Fits(card)) /\ (at = "alloc_next" => Roomy(card))
  BY <1>1 DEF Health
<1>3. ~win.dirty /\ Seen = card /\ Seen' = card
  BY <1>0, SeenIs DEF CardInv, Unwritten, Seen, SeenOn
<1>4. Need' = Need /\ Need \in Nat BY <1>0, <1>1, WellIs DEF Need
<1>5. PICK c : c = GetFat(dir.c) OBVIOUS
<1>6. c \in Clusters \cup {Eoc}
  <2>1. PICK D, F, C, G, l : Work(D, F, C, G, l) BY <1>0, <1>1 DEF CardInv
  <2>2. Chains(Seen, D, F) BY <2>1 DEF Work, Good, Struct
  <2>3. PICK a \in Nat, p \in Nat : Spot(Seen[Boot], D, dir, a, p) /\ dir.c # 0
    BY <1>0, <2>1 DEF Work, Searching, AtClusterEnd
  <2>4. a \in 1..Len(D) /\ dir.c = D[a] BY <2>3 DEF Spot
  <2>5. dir.c \in Clusters BY <2>2, <2>4 DEF Chains, Leads
  <2>6. Fresh BY <1>0, <1>1 DEF CardInv
  <2>7. GetFat(dir.c) = Fat(Seen, dir.c) BY <1>0, <2>5, <2>6, FatSeen
  <2>8. Fat(Seen, D[a]) = IF a < Len(D) THEN D[a + 1] ELSE Eoc BY <2>2, <2>4 DEF Chains, Leads
  <2>9. D \in Seq(Clusters) BY <2>2 DEF Chains, Leads
  <2>10. a < Len(D) => D[a + 1] \in Clusters
    <3>1. a < Len(D) => a + 1 \in 1..Len(D) BY <2>4, <2>9
    <3> QED BY <2>9, <3>1
  <2> QED BY <1>5, <2>4, <2>7, <2>8, <2>10
<1>7. c >= 2 BY <1>6, Geometry DEF Eoc
<1>8. \/ at' = (IF at = "find_next" THEN "find" ELSE "alloc") /\ result' = result
      \/ at = "find_next" /\ NotFound
      \/ /\ at = "alloc_next" /\ at' = "stretch" /\ result' = result
         /\ chain' = [NoChain EXCEPT !.for = "dir", !.clst = dir.c]
  <2>1. ~(c < 2) BY <1>6, <1>7, Geometry
  <2> QED BY <1>5, <2>1 DEF NextCluster
<1>9. CASE at = "find_next" /\ at' = "find" /\ result' = result BY <1>0, <1>2, <1>9, HealthOnCard
<1>10. CASE at = "alloc_next" /\ at' = "alloc" /\ result' = result
  <2>1. Roomy(card)' BY <1>0, <1>2, <1>4, <1>10 DEF Roomy
  <2>2. at' \notin Chaining /\ ~InFile' BY <1>10 DEF Chaining, InFile
  <2> QED BY <1>2, <1>10, <2>1, <2>2 DEF Health
<1>11. CASE at = "find_next" /\ NotFound
  <2>1. at' = "alloc" /\ result' = "ok" BY <1>2, <1>11 DEF NotFound
  <2> QED BY <1>0, <1>1, <1>2, <1>3, <1>11, <2>1, RoomStarts
<1>12. CASE /\ at = "alloc_next" /\ at' = "stretch" /\ result' = result
            /\ chain' = [NoChain EXCEPT !.for = "dir", !.clst = dir.c]
  <2>1. chain'.for = "dir" BY <1>12 DEF NoChain
  <2>2. at' \in Chaining /\ ~InFile' /\ InLink' = 0 BY <1>12, <2>1 DEF Chaining, InFile, InLink
  <2>3. PICK D, F, C, G, l : Work(D, F, C, G, l)' BY <1>12 DEF CardInv, Well, Working, Resting, RowPlaces
  <2>4. card[Boot] = "fat32" /\ Unfree(card, D, TableSize("fat32", D))
    BY <1>3, <1>12, <2>1, <2>2, <2>3 DEF Work, DirGrows
  <2>5. Chains(card, D, F) BY <1>3, <2>3 DEF Work, Good, Struct
  <2>6. ~Slot(card)
    <3>1. PICK k : k = card OBVIOUS
    <3>2. Chains(k, D, F) /\ Unfree(k, D, TableSize(k[Boot], D)) BY <2>4, <2>5, <3>1
    <3> QED BY <3>1, <3>2, NoSlot
  <2>7. FreeCount(card) >= Need + 1 BY <1>2, <1>12, <2>6 DEF Roomy
  <2>8. FreeCount(card) \in Nat BY FreeIs
  <2>9. FreeCount(Seen)' + InLink' >= Need' + 1 BY <1>3, <1>4, <2>2, <2>7, <2>8
  <2> QED BY <1>2, <1>12, <2>1, <2>2, <2>9 DEF Health
<1> QED BY <1>0, <1>8, <1>9, <1>10, <1>11, <1>12

(* dir_clear: the first unit of the new cluster is free.                     *)
LEMMA DirClearHealthy ==
  ASSUME StorageInv, CardInv, FreeInv, HealthInv, DirClear
  PROVE  HealthInv'
<1> SUFFICES ASSUME Well' PROVE Health' BY DEF HealthInv
<1>0. /\ at = "clear" /\ ~win.dirty /\ Working /\ at \notin Resting
      /\ UNCHANGED <<before, n, fits, sound>>
      /\ win' = [s |-> DataSector(chain.ncl, 0), data |-> Filled(EndOfDir), dirty |-> FALSE]
  BY DEF DirClear, Here, Syncs, sdVars, callVars, Resting, RowPlaces, Working
<1>1. /\ \A s \in 0..(ClusterSectors - 1) : card'[DataSector(chain.ncl, s)] = Filled(EndOfDir)
      /\ at' = "alloc" /\ UNCHANGED <<result, clean>>
  BY DEF Well, DirClear
<1>2. Well /\ Health /\ sound BY <1>0, <1>1, HealthIs
<1>3. Need' = Need /\ Need \in Nat BY <1>0, <1>2, WellIs DEF Need
<1>4. Seen = card /\ Seen' = card' BY <1>0 DEF Seen, SeenOn
<1>5. SameFat(Seen, Seen') /\ card'[Boot] = card[Boot] BY WriteCalm DEF Steady
<1>6. FreeCount(card') >= Need
  <2>1. PICK k, h : k = card /\ h = card' OBVIOUS
  <2>2. FreeCount(h) = FreeCount(k) BY <1>4, <1>5, <2>1, FreeSame
  <2>3. FreeCount(card) >= Need BY <1>0, <1>2, <1>4 DEF Health
  <2> QED BY <2>1, <2>2, <2>3
<1>7. Slot(card')
  <2>1. PICK D, F, C, G, l : Work(D, F, C, G, l) BY <1>0, <1>2 DEF CardInv
  <2>2. Chains(card, D, F) /\ card[Boot] = "fat32" /\ Len(D) > 1 /\ chain.ncl = D[Len(D)]
    BY <1>0, <1>4, <2>1 DEF Work, Good, Struct, DirGrows
  <2>3. PICK h : h = card' OBVIOUS
  <2>4. Chains(h, D, F) /\ h[Boot] = "fat32"
    <3>1. PICK k : k = card OBVIOUS
    <3> QED BY <1>4, <1>5, <2>2, <2>3, <3>1, ChainsSame
  <2>5. D \in Seq(Clusters) /\ Len(D) \in 1..Len(D) BY <2>2 DEF Chains, Leads
  <2>6. 0 \in 0..(ClusterSectors - 1) /\ 1 \in 1..SectorUnits BY Geometry
  <2>7. PICK a : a = Len(D) OBVIOUS
  <2>8. PICK p : p = (a - 1) * ClusterUnits + 0 * SectorUnits + 1 OBVIOUS
  <2>9. p \in 1..(Len(D) * ClusterUnits) /\ PlaceOf(SectorsOf(D), p) = <<DataSector(D[a], 0), 1>>
    BY <2>5, <2>6, <2>7, <2>8, FilePlaceAt
  <2>10. TableSectors("fat32", D) = SectorsOf(D) /\ TableSize("fat32", D) = Len(D) * ClusterUnits
    BY <2>5, TableSectorsAre DEF Kinds, TableSectors
  <2>11. Directory(h) = [q \in 1..TableSize(h[Boot], D) |-> TableUnit(h, D, q)] BY <2>4, TableRead
  <2>12. p \in DOMAIN Directory(h) /\ Directory(h)[p] = TableUnit(h, D, p)
    BY <2>4, <2>9, <2>10, <2>11
  <2>13. TableUnit(h, D, p) = h[DataSector(D[a], 0)][1]
    BY <2>4, <2>9, <2>10 DEF TableUnit, TablePlace, UnitAt
  <2>14. h[DataSector(D[a], 0)] = Filled(EndOfDir) BY <1>1, <2>2, <2>3, <2>6, <2>7
  <2>15. Directory(h)[p] = EndOfDir BY <2>6, <2>12, <2>13, <2>14 DEF Filled
  <2> QED BY <2>3, <2>12, <2>15 DEF Slot
<1>8. at' \notin Chaining /\ ~InFile' BY <1>1 DEF Chaining, InFile
<1>9. Roomy(card)' BY <1>3, <1>6, <1>7 DEF Roomy
<1>10. result' = "ok" BY <1>1, <1>2 DEF Health
<1> QED BY <1>1, <1>8, <1>9, <1>10 DEF Health

(* The file has its clusters while the table stays.                          *)
LEMMA HealthInFile ==
  ASSUME CardInv, Well, Health, InFile, InFile', InLink = 0, InLink' = 0, result' = result,
         SameFat(Seen, Seen'), fp'.scl = fp.scl, before' = before,
         at' = "hunt" => Hunted', at' = "close" => done' = ReportUnits
  PROVE  Health'
<1>1. Working BY DEF InFile, Working, Resting, RowPlaces, Chaining
<1>2. Need' = Need BY DEF Need
<1>3. PICK D, F, C, G, l : Work(D, F, C, G, l) BY <1>1, WellIs
<1>4. Has(Seen)' = Has(Seen) BY <1>3, HasKept
<1>5. FreeCount(Seen)' = FreeCount(Seen)
  <2>1. PICK k, h : k = Seen /\ h = Seen' OBVIOUS
  <2> QED BY <2>1, FreeSame
<1>6. FreeCount(Seen)' + InLink' + Has(Seen)' >= Need' BY <1>2, <1>4, <1>5 DEF Health
<1>7. /\ at' \notin {"boot", "fsinfo", "find", "find_next", "alloc", "alloc_next", "clear", "sync", "leave"}
      /\ ~(at' \in Chaining /\ chain'.for = "dir")
  BY DEF InFile, Chaining
<1>8. result' = "ok" BY DEF Health
<1> QED BY <1>6, <1>7, <1>8 DEF Health

(* Seeking: the clusters are there.                                          *)
LEMMA SeekFinds ==
  ASSUME StorageInv, CardInv, Well, at = "seek", Wanted \in {Nowhere, win.s}, fp.ptr > ClusterUnits
  PROVE  GetFat(fp.c) >= 2
<1>0. InFile /\ fp.ptr \in Nat /\ fp.size \in Nat /\ Working /\ Wanted = FatOf(fp.c)
  BY WantedAt DEF InFile, StorageInv, FileIs, Working, Resting, RowPlaces
<1>1. PICK D, F, C, G, l : Work(D, F, C, G, l) BY <1>0, WellIs
<1>2. InTheFile(Seen, F, l) /\ InTheCluster(F) /\ F \in Seq(Clusters) /\ Len(F) \in Nat /\ Leads(Seen, F)
  BY <1>1 DEF Work, Good, Struct, Chains, Leads
<1>3. fp.ptr \in 1..fp.size /\ fp.size <= Len(F) * ClusterUnits
  BY <1>0, <1>2 DEF InTheCluster, InTheFile
<1>4. PICK b \in Nat : fp.size = fp.ptr + b * ClusterUnits /\ fp.c = F[1 + b] BY <1>2 DEF InTheCluster
<1>5. PICK h \in Nat, w \in Nat \ {0} : h = Len(F) /\ w = ClusterUnits BY <1>2, Geometry
<1>6. b < h
  <2> SUFFICES ASSUME b >= h PROVE FALSE OBVIOUS
  <2>1. (b - h) * w >= 0 OBVIOUS
  <2>2. (b - h) * w = b * w - h * w OBVIOUS
  <2>3. b * w \in Int /\ h * w \in Int OBVIOUS
  <2>4. fp.ptr + b * w <= h * w /\ fp.ptr > 0 BY <1>3, <1>4, <1>5
  <2> QED BY <1>0, <2>1, <2>2, <2>3, <2>4
<1>7. PICK e : e = 1 + b /\ e \in 1..Len(F) BY <1>5, <1>6
<1>8. F[e] \in Clusters /\ Fat(Seen, F[e]) = IF e < Len(F) THEN F[e + 1] ELSE Eoc BY <1>2, <1>7 DEF Leads
<1>9. e < Len(F) => F[e + 1] \in Clusters
  <2>1. e < Len(F) => e + 1 \in 1..Len(F) BY <1>2, <1>7
  <2> QED BY <1>2, <2>1
<1>10. Fresh BY <1>0, WellIs
<1>11. GetFat(fp.c) = Fat(Seen, fp.c) BY <1>0, <1>4, <1>7, <1>8, <1>10, FatSeen
<1>12. Fat(Seen, fp.c) \in Clusters \cup {Eoc} BY <1>4, <1>7, <1>8, <1>9
<1> QED BY <1>11, <1>12, Geometry DEF Eoc

(* f_lseek follows the chain, which does not end before the place.           *)
LEMMA SeekHealthy ==
  ASSUME StorageInv, CardInv, FreeInv, HealthInv, Seek
  PROVE  HealthInv'
<1> SUFFICES ASSUME Well' PROVE Health' BY DEF HealthInv
<1>0. /\ at = "seek" /\ Wanted \in {Nowhere, win.s} /\ at \notin Resting /\ InFile /\ InLink = 0
      /\ UNCHANGED <<before, n, fits, sound, clean>>
  BY DEF Seek, Here, sdVars, callVars, Resting, RowPlaces, InFile, InLink
<1>1. Well /\ Health /\ sound BY <1>0, HealthIs
<1>2. SameFat(Seen, Seen') BY ThinkCalm DEF Steady
<1>3. at' \in {"seek", "write"} /\ result' = result /\ fp'.scl = fp.scl
  <2>1. CASE fp.ptr > ClusterUnits
    <3>1. PICK c : c = GetFat(fp.c) OBVIOUS
    <3>2. c >= 2 BY <1>0, <1>1, <2>1, <3>1, SeekFinds
    <3>3. c \in Nat
      <4>1. GetFat(fp.c) \in {1} \cup FatEntries BY <1>0, <2>1, WantedAt, FatHere
      <4> QED BY <3>1, <4>1, Geometry DEF FatEntries
    <3>4. ~(c < 2) BY <3>2, <3>3
    <3>5. fp' = [fp EXCEPT !.c = c, !.ptr = @ - ClusterUnits] /\ UNCHANGED <<at, result>>
      BY <2>1, <3>1, <3>4 DEF Seek
    <3> QED BY <1>0, <3>5 DEF StorageInv, FileIs
  <2>2. CASE ~(fp.ptr > ClusterUnits)
    <3>1. PICK z : fp' = [fp EXCEPT !.ptr = fp.size, !.sect = z] BY <2>2 DEF Seek
    <3>2. at' = "write" /\ result' = result BY <2>2 DEF Seek
    <3> QED BY <3>1, <3>2 DEF StorageInv, FileIs
  <2> QED BY <2>1, <2>2
<1>4. InFile' /\ InLink' = 0 /\ at' \notin {"hunt", "close"} BY <1>3 DEF InFile, InLink
<1> QED BY <1>0, <1>1, <1>2, <1>3, <1>4, HealthInFile

(* The chain of no cluster is empty.                                         *)
LEMMA HasNone == ASSUME fp.scl = 0 PROVE Has(Seen) = 0
<1>1. PICK k : k = Seen OBVIOUS
<1>2. ChainFrom(k, 0) = <<>> BY NoChainAtNone
<1> QED BY <1>1, <1>2 DEF Has

(* f_write: what is left, and where it goes.                                 *)
LEMMA WriteEndsHealthy ==
  ASSUME StorageInv, CardInv, FreeInv, HealthInv, WriteEnds
  PROVE  HealthInv'
<1> SUFFICES ASSUME Well' PROVE Health' BY DEF HealthInv
<1>0. /\ at = "write" /\ at \notin Resting /\ InFile /\ InLink = 0 /\ at' = "close" /\ InFile' /\ InLink' = 0
      /\ UNCHANGED <<before, n, fits, sound, clean, done, result>>
  BY DEF WriteEnds, Here, sdVars, callVars, Resting, RowPlaces, InFile, InLink
<1>1. Well /\ Health /\ sound BY <1>0, HealthIs
<1>2. SameFat(Seen, Seen') BY ThinkCalm DEF Steady
<1>3. fp'.scl = fp.scl
  <2>1. fp' = [fp EXCEPT !.modified = TRUE] BY DEF WriteEnds
  <2> QED BY <2>1 DEF StorageInv, FileIs
<1>4. done' = ReportUnits
  <2>1. done \in 0..ReportUnits /\ Left = 0 BY DEF WriteEnds, StorageInv, FileIs
  <2> QED BY <1>0, <2>1, Geometry DEF Left
<1> QED BY <1>0, <1>1, <1>2, <1>3, <1>4, HealthInFile

(* f_write between two of its parts.                                         *)
LEMMA WriteMoreHealthy ==
  ASSUME StorageInv, CardInv, FreeInv, HealthInv, WriteMore
  PROVE  HealthInv'
<1> SUFFICES ASSUME Well' PROVE Health' BY DEF HealthInv
<1>0. /\ at = "write" /\ at \notin Resting /\ InFile /\ InLink = 0 /\ Working
      /\ UNCHANGED <<before, n, fits, sound, clean, done>>
  BY DEF WriteMore, Here, sdVars, callVars, Resting, RowPlaces, InFile, InLink, Working
<1>1. Well /\ Health /\ sound BY <1>0, HealthIs
<1>2. SameFat(Seen, Seen') BY ThinkCalm DEF Steady
<1>3. ASSUME at' \in {"copy", "sector", "stretch", "hunt"}, at' \in Chaining => chain'.for = "file",
             result' = result, fp'.scl = fp.scl, at' = "hunt" => Hunted'
      PROVE  Health'
  <2>1. InFile' /\ InLink' = 0 BY <1>3 DEF InFile, InLink, Chaining
  <2>2. at' # "close" BY <1>3
  <2> QED BY <1>0, <1>1, <1>2, <1>3, <2>1, <2>2, HealthInFile
<1>4. CASE fp.ptr % SectorUnits # 0
  <2>1. at' = "copy" /\ UNCHANGED <<fp, result>> BY <1>4 DEF WriteMore
  <2> QED BY <1>3, <2>1 DEF Chaining
<1>5. CASE fp.ptr % SectorUnits = 0 /\ fp.ptr % ClusterUnits # 0
  <2>1. at' = "sector" /\ UNCHANGED <<fp, result>> BY <1>5 DEF WriteMore
  <2> QED BY <1>3, <2>1 DEF Chaining
<1>6. CASE fp.ptr % SectorUnits = 0 /\ fp.ptr % ClusterUnits = 0 /\ fp.ptr > 0
  <2>1. /\ at' = "stretch" /\ UNCHANGED <<fp, result>>
        /\ chain' = [NoChain EXCEPT !.for = "file", !.clst = fp.c]
    BY <1>6 DEF WriteMore
  <2>2. chain'.for = "file" BY <2>1 DEF NoChain
  <2> QED BY <1>3, <2>1, <2>2
<1>7. CASE fp.ptr % SectorUnits = 0 /\ fp.ptr % ClusterUnits = 0 /\ ~(fp.ptr > 0) /\ fp.scl # 0
  <2>1. at' = "sector" /\ fp' = [fp EXCEPT !.c = fp.scl] /\ UNCHANGED result BY <1>7 DEF WriteMore
  <2>2. fp'.scl = fp.scl BY <2>1 DEF StorageInv, FileIs
  <2> QED BY <1>3, <2>1, <2>2 DEF Chaining
<1>8. CASE fp.ptr % SectorUnits = 0 /\ fp.ptr % ClusterUnits = 0 /\ ~(fp.ptr > 0) /\ fp.scl = 0
  <2>1. PICK scl : scl = IF Valid(fs.last) THEN fs.last ELSE 1 OBVIOUS
  <2>2. PICK next : next = IF Valid(scl + 1) THEN scl + 1 ELSE 2 OBVIOUS
  <2>3. /\ chain' = [NoChain EXCEPT !.for = "file", !.scl = scl, !.ncl = next]
        /\ \/ fs.free = 0
           \/ at' = "hunt" /\ UNCHANGED <<fp, result>>
    BY <1>8, <2>1, <2>2 DEF WriteMore
  <2>4. fs.free # 0
    <3>1. Has(Seen) = 0 BY <1>8, HasNone
    <3>2. Need \in Nat /\ Need >= 1 BY <1>1, WellIs
    <3>3. FreeCount(Seen) + InLink + Has(Seen) >= Need BY <1>0, <1>1 DEF Health
    <3>4. FreeCount(Seen) + InLink <= fs.free BY <1>0, <1>1 DEF FreeInv
    <3>5. FreeCount(Seen) \in Nat BY FreeIs
    <3> QED BY <1>0, <3>1, <3>2, <3>3, <3>4, <3>5
  <2>5. chain'.for = "file" /\ chain'.scl = scl /\ chain'.ncl = next BY <2>3 DEF NoChain
  <2>6. Hunted'
    <3>1. scl \in {1} \cup Clusters BY <2>1 DEF Valid
    <3>2. \A c \in Clusters : ~Passed(c, scl, next) BY <2>2, <3>1, Geometry DEF Passed, Valid
    <3> QED BY <2>5, <3>1, <3>2 DEF Hunted
  <2> QED BY <1>3, <2>3, <2>4, <2>5, <2>6
<1> QED BY <1>4, <1>5, <1>6, <1>7, <1>8

(* The text goes into the clusters the file has.                             *)
LEMMA TextHealthy ==
  ASSUME StorageInv, CardInv, FreeInv, HealthInv, Edge \/ Direct \/ Copy
  PROVE  HealthInv'
<1> SUFFICES ASSUME Well' PROVE Health' BY DEF HealthInv
<1>0. /\ at \in {"sector", "copy"} /\ at \notin Resting /\ InFile /\ InLink = 0
      /\ UNCHANGED <<before, n, fits, sound>>
  BY DEF Edge, Direct, Copy, Here, sdVars, callVars, Resting, RowPlaces, InFile, InLink
<1>1. SameFat(Seen, Seen') BY TextCalm, WriteCalm DEF Steady
<1>2. at' \in {"copy", "write"} /\ result' = result /\ clean' = clean /\ fp'.scl = fp.scl
  <2>1. CASE Edge
    <3>1. fp' = [fp EXCEPT !.sect = DataSector(fp.c, Csect)] BY <2>1 DEF Edge
    <3>2. at' = "copy" /\ result' = result /\ clean' = clean BY <2>1 DEF Edge
    <3> QED BY <3>1, <3>2 DEF StorageInv, FileIs
  <2>2. CASE Direct
    <3>1. PICK u : Written(u) /\ result' = result /\ clean' = clean BY <2>2 DEF Direct, Well
    <3>2. fp' = [fp EXCEPT !.ptr = @ + u, !.size = fp.ptr + u] /\ at' = "write" BY <3>1 DEF Written
    <3> QED BY <3>1, <3>2 DEF StorageInv, FileIs
  <2>3. CASE Copy
    <3>1. PICK u : Written(u) /\ result' = result /\ clean' = clean BY <2>3 DEF Copy
    <3>2. fp' = [fp EXCEPT !.ptr = @ + u, !.size = fp.ptr + u] /\ at' = "write" BY <3>1 DEF Written
    <3> QED BY <3>1, <3>2 DEF StorageInv, FileIs
  <2> QED BY <2>1, <2>2, <2>3
<1>3. Well /\ Health /\ sound BY <1>0, <1>2, HealthIs
<1>4. InFile' /\ InLink' = 0 /\ at' \notin {"hunt", "close"} BY <1>2 DEF InFile, InLink
<1> QED BY <1>0, <1>1, <1>2, <1>3, <1>4, HealthInFile

(* create_chain goes on.                                                     *)
LEMMA HealthChaining ==
  ASSUME StorageInv, CardInv, Well, Health, at \in Chaining, at' \in Chaining, InLink = 0, InLink' = 0,
         chain'.for = chain.for, result' = result, SameFat(Seen, Seen'), fp' = fp, before' = before,
         at' = "hunt" => Hunted'
  PROVE  Health'
<1>0. chain.for \in {"file", "dir"} BY DEF StorageInv, ChainIs
<1>1. CASE chain.for = "file"
  <2>1. InFile /\ InFile' /\ at' # "close" BY <1>1 DEF InFile, Chaining
  <2> QED BY <2>1, HealthInFile
<1>2. CASE chain.for = "dir"
  <2>1. ~InFile' BY <1>2 DEF InFile, Chaining
  <2>2. Need' = Need BY DEF Need
  <2>3. FreeCount(Seen)' = FreeCount(Seen)
    <3>1. PICK k, h : k = Seen /\ h = Seen' OBVIOUS
    <3> QED BY <3>1, FreeSame
  <2>4. FreeCount(Seen)' + InLink' >= Need' + 1 BY <1>2, <2>2, <2>3 DEF Health
  <2>5. result' = "ok" BY DEF Health
  <2>6. at' \notin {"boot", "fsinfo", "find", "find_next", "alloc", "alloc_next", "clear", "close", "sync", "leave"}
    BY DEF Chaining
  <2> QED BY <2>1, <2>4, <2>5, <2>6 DEF Health
<1> QED BY <1>0, <1>1, <1>2

(* What comes after the last cluster of a chain that is to grow.             *)
LEMMA StretchFinds ==
  ASSUME StorageInv, CardInv, Well, at = "stretch", Wanted \in {Nowhere, win.s}
  PROVE  /\ GetFat(chain.clst) = Fat(Seen, chain.clst) /\ chain.clst # 0
         /\ Fat(Seen, chain.clst) \in Clusters \cup {Eoc}
         /\ chain.for = "dir" => Fat(Seen, chain.clst) = Eoc
         /\ chain.for = "file" => fp.scl # 0
<1>0. /\ Working /\ chain.for \in {"file", "dir"} /\ Wanted = FatOf(chain.clst)
      /\ at \notin {"copy", "close", "sync"} /\ at \in Chaining
  BY WantedAt, ChainWorking DEF StorageInv, ChainIs, Chaining
<1>1. PICK D, F, C, G, l : Work(D, F, C, G, l) BY <1>0, WellIs
<1>2. Leads(Seen, D) /\ Leads(Seen, F) /\ Chains(Seen, D, F) BY <1>1 DEF Work, Good, Struct, Chains
<1>3. Fresh BY <1>0, WellIs
<1>4. /\ chain.clst \in Clusters /\ Fat(Seen, chain.clst) \in Clusters \cup {Eoc}
      /\ chain.for = "dir" => Fat(Seen, chain.clst) = Eoc
      /\ chain.for = "file" => fp.scl # 0
  <2>1. CASE chain.for = "dir"
    <3>1. chain.clst = D[Len(D)] /\ Seen[Boot] = "fat32" BY <1>0, <1>1, <2>1 DEF Work, DirGrows
    <3>2. D \in Seq(Clusters) /\ D # <<>> BY <1>2, <3>1 DEF Chains, Leads
    <3>3. Len(D) \in 1..Len(D) BY <3>2, EmptySeq
    <3> QED BY <1>2, <2>1, <3>1, <3>3 DEF Leads
  <2>2. CASE chain.for = "file"
    <3>1. chain.clst # 0
      <4>1. InTheCluster(F) BY <1>1 DEF Work
      <4> QED BY <1>0, <2>2, <4>1 DEF InTheCluster
    <3>2. PICK q \in 1..Len(F) : /\ chain.clst = F[q]
             /\ Fat(Seen, chain.clst) = IF q < Len(F) THEN F[q + 1] ELSE Eoc
      BY <1>1, <2>2, <3>1, StretchSees
    <3>3. F \in Seq(Clusters) BY <1>2 DEF Leads
    <3>4. q < Len(F) => F[q + 1] \in Clusters
      <4>1. q < Len(F) => q + 1 \in 1..Len(F) BY <3>3
      <4> QED BY <3>3, <4>1
    <3>5. F # <<>> /\ F[1] \in Clusters
      <4>1. 1 \in 1..Len(F) BY <3>2, <3>3
      <4> QED BY <3>3, <4>1
    <3>6. InFile BY <1>0, <2>2 DEF InFile
    <3>7. fp.scl = F[1] BY <1>1, <3>5, <3>6 DEF Work, InTheFile
    <3> QED BY <2>2, <3>2, <3>3, <3>4, <3>5, <3>7, Geometry
  <2> QED BY <1>0, <2>1, <2>2
<1>5. GetFat(chain.clst) = Fat(Seen, chain.clst) BY <1>0, <1>3, <1>4, FatSeen
<1> QED BY <1>4, <1>5, Geometry

(* create_chain finds the cluster it extends to be the last one.             *)
LEMMA StretchHealthy ==
  ASSUME StorageInv, CardInv, FreeInv, HealthInv, Stretch
  PROVE  HealthInv'
<1> SUFFICES ASSUME Well' PROVE Health' BY DEF HealthInv
<1>0. /\ at = "stretch" /\ Wanted \in {Nowhere, win.s} /\ at \notin Resting /\ at \in Chaining /\ InLink = 0
      /\ UNCHANGED <<before, n, fits, sound, clean>>
  BY DEF Stretch, Here, sdVars, callVars, Resting, RowPlaces, Chaining, InLink
<1>1. Well /\ Health /\ sound BY <1>0, HealthIs
<1>2. SameFat(Seen, Seen') BY ThinkCalm DEF Steady
<1>3. PICK cs : cs = GetFat(chain.clst) OBVIOUS
<1>4. /\ cs = Fat(Seen, chain.clst) /\ chain.clst # 0 /\ cs \in Clusters \cup {Eoc}
      /\ chain.for = "dir" => cs = Eoc
      /\ chain.for = "file" => fp.scl # 0
  BY <1>0, <1>1, <1>3, StretchFinds
<1>5. ~(cs < 2) BY <1>4, Geometry DEF Eoc
<1>6. cs = Eoc => fs.free # 0
  <2> SUFFICES ASSUME cs = Eoc PROVE fs.free # 0 OBVIOUS
  <2>1. FreeCount(Seen) >= 1 BY <1>0, <1>1, <1>4, RoomLeft
  <2>2. Working BY <1>0, ChainWorking
  <2>3. FreeCount(Seen) + InLink <= fs.free BY <1>0, <1>1, <2>2 DEF FreeInv
  <2>4. FreeCount(Seen) \in Nat BY FreeIs
  <2> QED BY <1>0, <2>1, <2>3, <2>4
<1>7. \/ Valid(cs) /\ GotCluster(cs)
      \/ /\ at' = "probe" /\ UNCHANGED <<fp, result>>
         /\ \E next : chain' = [chain EXCEPT !.scl = chain.clst, !.ncl = next]
  BY <1>3, <1>5, <1>6 DEF Stretch
<1>8. CASE Valid(cs) /\ GotCluster(cs)
  <2>1. chain.for = "file"
    <3>1. chain.for \in {"file", "dir"} BY <1>0 DEF StorageInv, ChainIs
    <3> QED BY <1>4, <1>8, <3>1, Geometry DEF Valid
  <2>2. at' = "sector" /\ result' = result /\ fp' = [fp EXCEPT !.c = cs, !.scl = IF @ = 0 THEN cs ELSE @]
    BY <1>8, <2>1 DEF GotCluster
  <2>3. fp'.scl = fp.scl BY <1>4, <2>1, <2>2 DEF StorageInv, FileIs
  <2>4. InFile /\ InFile' /\ InLink' = 0 BY <1>0, <2>1, <2>2 DEF InFile, InLink
  <2>5. at' # "close" /\ at' # "hunt" BY <2>2
  <2> QED BY <1>0, <1>1, <1>2, <2>2, <2>3, <2>4, <2>5, HealthInFile
<1>9. CASE /\ at' = "probe" /\ UNCHANGED <<fp, result>>
           /\ \E next : chain' = [chain EXCEPT !.scl = chain.clst, !.ncl = next]
  <2>1. chain'.for = chain.for BY <1>9 DEF StorageInv, ChainIs
  <2>2. at' \in Chaining /\ InLink' = 0 /\ at' # "hunt" BY <1>9 DEF Chaining, InLink
  <2> QED BY <1>0, <1>1, <1>2, <1>9, <2>1, <2>2, HealthChaining
<1> QED BY <1>7, <1>8, <1>9

(* The search for a free cluster comes all the way round only when there is none. *)
LEMMA HuntHealthy ==
  ASSUME StorageInv, CardInv, FreeInv, HealthInv, Probe \/ Hunt
  PROVE  HealthInv'
<1> SUFFICES ASSUME Well' PROVE Health' BY DEF HealthInv
<1>0. /\ at \in {"probe", "hunt"} /\ Wanted \in {Nowhere, win.s} /\ Wanted = FatOf(chain.ncl)
      /\ at \notin Resting \cup {"copy", "close", "sync"} /\ at \in Chaining /\ InLink = 0
      /\ UNCHANGED <<before, n, fits, sound, clean>>
  BY WantedAt DEF Probe, Hunt, Here, sdVars, callVars, Resting, RowPlaces, Chaining, InLink
<1>1. Well /\ Health /\ sound BY <1>0, HealthIs
<1>2. SameFat(Seen, Seen') BY ThinkCalm DEF Steady
<1>3. /\ chain = [for |-> chain.for, clst |-> chain.clst, scl |-> chain.scl, ncl |-> chain.ncl]
      /\ chain.ncl \in Clusters
  BY <1>0 DEF StorageInv, ChainIs
<1>4. GetFat(chain.ncl) = Fat(Seen, chain.ncl)
  <2>1. Working BY <1>0, ChainWorking
  <2>2. Fresh BY <1>1, <2>1, WellIs
  <2> QED BY <1>0, <1>3, <2>2, FatSeen
<1>5. FreeCount(Seen) >= 1 BY <1>0, <1>1, RoomLeft
<1>6. ASSUME at' \in {"hunt", "mark"}, chain'.for = chain.for, fp' = fp, result' = result, at' = "hunt" => Hunted'
      PROVE  Health'
  <2>1. at' \in Chaining /\ InLink' = 0 BY <1>6 DEF Chaining, InLink
  <2> QED BY <1>0, <1>1, <1>2, <1>6, <2>1, HealthChaining
<1>7. CASE at' = "mark" /\ UNCHANGED <<fp, chain, result>> BY <1>6, <1>7
<1>8. ASSUME NEW scl, NEW ncl, HuntFrom(scl, ncl), scl \in {1} \cup Clusters, ncl \in {1} \cup Clusters,
             scl = ncl \/ \E c \in Clusters : Fat(Seen, c) = 0 /\ ~Passed(c, scl, ncl) /\ c # ncl,
             \A c \in Clusters : (scl # ncl /\ (Passed(c, scl, ncl) \/ c = ncl)) => Fat(Seen, c) # 0
      PROVE  Health'
  <2>1. PICK next : next = IF ncl + 1 > MaxCluster THEN 2 ELSE ncl + 1 OBVIOUS
  <2>2. ~(next < ncl /\ next > scl) BY <1>8, <2>1, Geometry DEF Passed
  <2>3. at' = "hunt" /\ UNCHANGED <<fp, result>> /\ chain' = [chain EXCEPT !.scl = scl, !.ncl = next]
    BY <1>8, <2>1, <2>2 DEF HuntFrom
  <2>4. chain'.for = chain.for /\ chain'.scl = scl /\ chain'.ncl = next BY <1>3, <2>3
  <2>5. \A c \in Clusters : Passed(c, scl, next) => scl # ncl /\ (Passed(c, scl, ncl) \/ c = ncl)
    BY <1>8, <2>1, <2>2, Geometry DEF Passed
  <2>6. \A c \in Clusters : Passed(c, scl, next) => Fat(Seen', c) # 0 BY <1>2, <1>8, <2>5 DEF SameFat
  <2>7. Hunted' BY <1>8, <2>4, <2>6 DEF Hunted
  <2> QED BY <1>6, <2>3, <2>4, <2>7
<1>9. CASE Probe /\ GetFat(chain.ncl) # 0
  <2>1. PICK scl : scl = IF Valid(fs.last) THEN fs.last ELSE chain.scl OBVIOUS
  <2>2. HuntFrom(scl, scl) BY <1>9, <2>1 DEF Probe
  <2>3. scl \in Clusters BY <1>9, <2>1 DEF Valid, StorageInv, ChainIs, Probe, Here
  <2> QED BY <1>8, <2>2, <2>3
<1>10. CASE Hunt /\ GetFat(chain.ncl) # 0
  <2>1. Hunted /\ chain.scl \in {1} \cup Clusters BY <1>1, <1>10 DEF Health, Hunted, Hunt, Here
  <2>2. PICK c \in Clusters : Fat(Seen, c) = 0
    <3>1. ASSUME \A c \in Clusters : Fat(Seen, c) # 0 PROVE FALSE
      <4>1. PICK k : k = Seen OBVIOUS
      <4>2. FreeCount(k) = 0 BY <3>1, <4>1, NoneFree
      <4> QED BY <1>5, <4>1, <4>2
    <3> QED BY <3>1
  <2>3. c # chain.ncl /\ ~Passed(c, chain.scl, chain.ncl) BY <1>4, <1>10, <2>1, <2>2 DEF Hunted
  <2>4. chain.ncl # chain.scl BY <1>3, <2>1, <2>2, <2>3, Geometry DEF Passed
  <2>5. HuntFrom(chain.scl, chain.ncl) BY <1>10, <2>4 DEF Hunt
  <2>6. \A x \in Clusters : Passed(x, chain.scl, chain.ncl) \/ x = chain.ncl => Fat(Seen, x) # 0
    BY <1>4, <1>10, <2>1 DEF Hunted
  <2> QED BY <1>3, <1>8, <2>1, <2>2, <2>3, <2>5, <2>6
<1>11. CASE GetFat(chain.ncl) = 0
  <2>1. at' = "mark" /\ UNCHANGED <<fp, chain, result>> BY <1>11 DEF Probe, Hunt
  <2> QED BY <1>7, <2>1
<1> QED BY <1>9, <1>10, <1>11

(* Of a cluster that is marked the file or the directory is sure.            *)
LEMMA MarkHealthy ==
  ASSUME StorageInv, CardInv, CardInv', FreeInv, HealthInv, Mark
  PROVE  HealthInv'
<1> SUFFICES ASSUME Well' PROVE Health' BY DEF HealthInv
<1>0. /\ at = "mark" /\ at \notin Resting /\ at \in Chaining /\ Working /\ InLink = 0
      /\ UNCHANGED <<chain, before, n, fits, sound, clean>>
  BY DEF Mark, Here, sdVars, callVars, Resting, RowPlaces, Chaining, InLink, Working
<1>1. Well /\ Health /\ sound BY <1>0, HealthIs
<1>2. /\ FreeCount(Seen) = FreeCount(Seen') + 1 /\ FreeCount(Seen') \in Nat
      /\ \A x \in Clusters : Fat(Seen', x) = IF x = chain.ncl THEN Eoc ELSE Fat(Seen, x)
  BY <1>1, MarkCalm, FreeIs
<1>3. chain.for \in {"file", "dir"} /\ chain.ncl \in Clusters BY <1>0 DEF StorageInv, ChainIs
<1>4. Need' = Need /\ Need \in Nat BY <1>0, <1>1, WellIs DEF Need
<1>5. PICK D, F, C, G, l : Work(D, F, C, G, l) BY <1>0, <1>1, WellIs
<1>6. chain.for = "dir" => chain.clst # 0
  <2> SUFFICES ASSUME chain.for = "dir" PROVE chain.clst # 0 OBVIOUS
  <2>1. chain.clst = D[Len(D)] /\ Seen[Boot] = "fat32" BY <1>0, <1>5 DEF Work, DirGrows
  <2>2. D \in Seq(Clusters) /\ D # <<>> BY <1>5, <2>1 DEF Work, Good, Struct, Chains, Leads
  <2>3. D[Len(D)] \in Clusters BY <2>2, EmptySeq
  <2> QED BY <2>1, <2>3, Geometry
<1>7. result = "ok" BY <1>1 DEF Health
<1>8. CASE chain.clst = 0
  <2>1. chain.for = "file" BY <1>3, <1>6, <1>8
  <2>2. InFile BY <1>0, <2>1 DEF InFile
  <2>3. F = <<>> BY <1>0, <1>5, <1>8, <2>1 DEF Work, InTheCluster
  <2>4. fp.scl = 0 BY <1>5, <2>2, <2>3 DEF Work, InTheFile
  <2>5. /\ at' = "sector" /\ result' = result
        /\ fp' = [fp EXCEPT !.c = chain.ncl, !.scl = IF @ = 0 THEN chain.ncl ELSE @]
    BY <1>8, <2>1 DEF Mark, GotCluster
  <2>6. fp'.scl = chain.ncl BY <2>4, <2>5 DEF StorageInv, FileIs
  <2>7. InFile' /\ InLink' = 0 /\ at' \notin Chaining BY <2>5 DEF InFile, InLink, Chaining
  <2>8. Has(Seen)' \in Nat /\ Has(Seen)' >= 1
    <3>1. PICK D2, F2, C2, G2, l2 : Work(D2, F2, C2, G2, l2)'
      BY <2>5 DEF CardInv, Well, Working, Resting, RowPlaces
    <3>2. Leads(Seen', F2) /\ F2 \in Seq(Clusters) BY <3>1 DEF Work, Good, Struct, Chains, Leads
    <3>3. fp'.scl = IF F2 = <<>> THEN 0 ELSE F2[1] BY <2>7, <3>1 DEF Work, InTheFile
    <3>4. F2 # <<>> BY <1>3, <2>6, <3>3, Geometry
    <3>5. Len(F2) \in Nat /\ Len(F2) >= 1 BY <3>2, <3>4, EmptySeq
    <3>6. PICK k, c : k = Seen' /\ c = fp'.scl OBVIOUS
    <3>7. ChainFrom(k, c) = F2 BY <3>2, <3>3, <3>6, HasIs
    <3> QED BY <3>5, <3>6, <3>7 DEF Has
  <2>9. FreeCount(Seen) + InLink + Has(Seen) >= Need BY <1>1, <2>2 DEF Health
  <2>10. Has(Seen) = 0 BY <2>4, HasNone
  <2>11. FreeCount(Seen)' + InLink' + Has(Seen)' >= Need' BY <1>0, <1>2, <1>4, <2>7, <2>8, <2>9, <2>10
  <2> QED BY <1>7, <2>5, <2>7, <2>11 DEF Health
<1>9. CASE chain.clst # 0
  <2>1. at' = "link" /\ UNCHANGED <<fp, result>> BY <1>9 DEF Mark
  <2>2. at' \in Chaining /\ InLink' = 1 BY <2>1 DEF Chaining, InLink
  <2>3. CASE chain.for = "dir"
    <3>1. ~InFile' BY <1>0, <2>1, <2>3 DEF InFile
    <3>2. FreeCount(Seen) + InLink >= Need + 1 BY <1>0, <1>1, <2>3 DEF Health
    <3>3. FreeCount(Seen)' + InLink' >= Need' + 1 BY <1>0, <1>2, <1>4, <2>2, <3>2
    <3> QED BY <1>7, <2>1, <3>1, <3>3 DEF Health
  <2>4. CASE chain.for = "file"
    <3>1. InFile /\ ~(at' \in Chaining /\ chain'.for = "dir") BY <1>0, <2>1, <2>4 DEF InFile
    <3>2. /\ Leads(Seen, F) /\ fp.scl = (IF F = <<>> THEN 0 ELSE F[1]) /\ Has(Seen) = Len(F)
          /\ Len(F) \in Nat
      BY <1>5, <3>1, HasNow
    <3>3. Has(Seen)' = Len(F)
      <4>1. PICK k, h, c : k = Seen /\ h = Seen' /\ c = fp.scl OBVIOUS
      <4>2. Fat(k, chain.ncl) = 0 BY <1>0, <1>5, <4>1 DEF Work, Linking
      <4>3. \A i \in 1..Len(F) : F[i] # chain.ncl
        <5> SUFFICES ASSUME NEW i \in 1..Len(F) PROVE Fat(k, F[i]) # 0 BY <4>2
        <5>1. F \in Seq(Clusters) /\ Fat(k, F[i]) = IF i < Len(F) THEN F[i + 1] ELSE Eoc
          BY <3>2, <4>1 DEF Leads
        <5>2. i < Len(F) => F[i + 1] \in Clusters
          <6>1. i < Len(F) => i + 1 \in 1..Len(F) BY <3>2
          <6> QED BY <5>1, <6>1
        <5> QED BY <5>1, <5>2, Geometry
      <4>4. PICK y : y = chain.ncl OBVIOUS
      <4>5. PICK v : v = Eoc OBVIOUS
      <4>a. \A x \in Clusters : Fat(h, x) = IF x = y THEN v ELSE Fat(k, x) BY <1>2, <4>1, <4>4, <4>5
      <4>b. Leads(k, F) /\ \A i \in 1..Len(F) : F[i] # y BY <3>2, <4>1, <4>3, <4>4
      <4>6. Leads(h, F)
        <5>1. F \in Seq(Clusters) /\ \A i \in 1..Len(F) : F[i] \in Clusters BY <4>b DEF Leads
        <5>2. \A i \in 1..Len(F) : Fat(h, F[i]) = Fat(k, F[i]) BY <4>a, <4>b, <5>1
        <5> QED BY <4>b, <5>1, <5>2 DEF Leads
      <4>7. ChainFrom(h, c) = F BY <3>2, <4>1, <4>6, HasIs
      <4> QED BY <2>1, <4>1, <4>7 DEF Has
    <3>4. FreeCount(Seen) + InLink + Has(Seen) >= Need BY <1>1, <3>1 DEF Health
    <3>5. FreeCount(Seen)' + InLink' + Has(Seen)' >= Need' BY <1>0, <1>2, <1>4, <2>2, <3>2, <3>3, <3>4
    <3> QED BY <1>7, <2>1, <3>1, <3>5 DEF Health
  <2> QED BY <1>3, <2>3, <2>4
<1> QED BY <1>8, <1>9

(* Once it is linked the file has it, or the directory.                      *)
LEMMA LinkHealthy ==
  ASSUME StorageInv, CardInv, FreeInv, HealthInv, Link
  PROVE  HealthInv'
<1> SUFFICES ASSUME Well' PROVE Health' BY DEF HealthInv
<1>0. /\ at = "link" /\ at \notin Resting /\ at \in Chaining /\ Working /\ InLink = 1
      /\ UNCHANGED <<chain, before, n, fits, sound, clean>> /\ GotCluster(chain.ncl)
  BY DEF Link, Here, sdVars, callVars, Resting, RowPlaces, Chaining, InLink, Working
<1>1. Well /\ Health /\ sound BY <1>0, HealthIs
<1>2. /\ FreeCount(Seen') = FreeCount(Seen) /\ FreeCount(Seen) \in Nat
      /\ \A x \in Clusters : Fat(Seen', x) = IF x = chain.clst THEN chain.ncl ELSE Fat(Seen, x)
  BY <1>1, LinkCalm, FreeIs
<1>3. chain.for \in {"file", "dir"} /\ chain.ncl \in Clusters /\ chain.clst # 0
  BY <1>0 DEF StorageInv, ChainIs
<1>4. Need' = Need /\ Need \in Nat BY <1>0, <1>1, WellIs DEF Need
<1>5. result = "ok" BY <1>1 DEF Health
<1>6. CASE chain.for = "dir"
  <2>1. at' = "clear" /\ UNCHANGED <<fp, result>> BY <1>0, <1>6 DEF GotCluster
  <2>2. at' \notin Chaining /\ ~InFile' BY <2>1 DEF InFile, Chaining
  <2>3. FreeCount(Seen) + InLink >= Need + 1 BY <1>0, <1>1, <1>6 DEF Health
  <2>4. FreeCount(Seen)' >= Need' BY <1>0, <1>2, <1>4, <2>3
  <2> QED BY <1>5, <2>1, <2>2, <2>4 DEF Health
<1>7. CASE chain.for = "file"
  <2>1. /\ at' = "sector" /\ result' = result
        /\ fp' = [fp EXCEPT !.c = chain.ncl, !.scl = IF @ = 0 THEN chain.ncl ELSE @]
    BY <1>0, <1>7 DEF GotCluster
  <2>2. InFile /\ InFile' /\ InLink' = 0 /\ at' \notin Chaining
    BY <1>0, <1>7, <2>1 DEF InFile, InLink, Chaining
  <2>3. PICK D, F, C, G, l : Work(D, F, C, G, l) BY <1>0, <1>1, WellIs
  <2>4. /\ Leads(Seen, F) /\ fp.scl = (IF F = <<>> THEN 0 ELSE F[1]) /\ Has(Seen) = Len(F)
        /\ F \in Seq(Clusters) /\ Len(F) \in Nat
    BY <2>2, <2>3, HasNow
  <2>5. PICK q \in 1..Len(F) : chain.clst = F[q] /\ q = Len(F) BY <1>0, <1>3, <1>7, <2>3, StretchSees
  <2>6. F # <<>> /\ F[1] \in Clusters
    <3>1. 1 \in 1..Len(F) BY <2>4, <2>5
    <3> QED BY <2>4, <3>1
  <2>7. fp'.scl = F[1]
    <3>1. fp.scl = F[1] /\ fp.scl # 0 BY <2>4, <2>6, Geometry
    <3> QED BY <2>1, <3>1 DEF StorageInv, FileIs
  <2>8. Has(Seen)' = Len(F) + 1
    <3>1. PICK k, h, c : k = Seen /\ h = Seen' /\ c = fp'.scl OBVIOUS
    <3>2. PICK y \in Clusters : y = chain.ncl BY <1>3
    <3>3. Fat(k, y) = Eoc /\ Alone(D, F, y) BY <1>0, <2>3, <3>1, <3>2 DEF Work, Linking
    <3>4. \A x \in Clusters : Fat(h, x) = IF x = F[Len(F)] THEN y ELSE Fat(k, x)
      BY <1>2, <2>5, <3>1, <3>2
    <3>5. \A i \in 1..Len(F) : F[i] # y BY <3>3 DEF Alone
    <3>6. Leads(k, F) BY <2>4, <3>1
    <3>7. /\ Leads(h, Append(F, y)) /\ Len(Append(F, y)) = Len(F) + 1
          /\ \A i \in 1..Len(F) : Append(F, y)[i] = F[i]
      BY <2>6, <3>3, <3>4, <3>5, <3>6, LeadsLinked
    <3>8. PICK H : H = Append(F, y) OBVIOUS
    <3>9. Leads(h, H) /\ Len(H) = Len(F) + 1 /\ H[1] = F[1]
      <4>1. 1 \in 1..Len(F) BY <2>4, <2>5
      <4> QED BY <3>7, <3>8, <4>1
    <3>10. H # <<>> BY <2>4, <3>9
    <3>11. ChainFrom(h, c) = H BY <2>7, <3>1, <3>9, <3>10, HasIs
    <3> QED BY <3>1, <3>9, <3>11 DEF Has
  <2>9. FreeCount(Seen) + InLink + Has(Seen) >= Need BY <1>1, <2>2 DEF Health
  <2>10. FreeCount(Seen)' + InLink' + Has(Seen)' >= Need' BY <1>0, <1>2, <1>4, <2>2, <2>4, <2>8, <2>9
  <2> QED BY <1>5, <2>1, <2>2, <2>10 DEF Health
<1> QED BY <1>3, <1>6, <1>7

(* f_sync: the entry says how long the file is now.                          *)
LEMMA SyncEntryHealthy ==
  ASSUME StorageInv, CardInv, CardInv', HealthInv, SyncEntry
  PROVE  HealthInv'
<1> SUFFICES ASSUME Well' PROVE Health' BY DEF HealthInv
<1>0. /\ at = "close" /\ at' = "sync" /\ at \notin Resting /\ Working /\ InFile /\ fp.size \in Nat
      /\ Wanted \in {Nowhere, win.s} /\ Wanted = fp.entry
      /\ Change(fp.i, Entry("report", fp.scl, fp.size))
      /\ UNCHANGED <<card, result, before, n, fits, sound, clean>>
  BY WantedAt DEF SyncEntry, Here, sdVars, callVars, Working, Resting, RowPlaces, InFile, StorageInv, FileIs
<1>1. Well /\ Health /\ sound BY <1>0, HealthIs
<1>2. result = "ok" /\ done = ReportUnits BY <1>0, <1>1 DEF Health
<1>3. PICK D, F, C, G, l : Work(D, F, C, G, l) BY <1>0, <1>1, WellIs
<1>4. l = <<fp.entry, fp.i>> /\ l \in Places /\ fp.size = Len(before) + done
  BY <1>0, <1>3 DEF Work, Good, Struct, InTheFile
<1>5. fp.entry \in TextSectors /\ fp.i \in 1..SectorUnits BY <1>4 DEF Places
<1>6. win.s = fp.entry /\ win.s \in SectorSet /\ win.s[1] \in Texts
  <2>1. fp.entry \in SectorSet /\ fp.entry[1] \in Texts BY <1>5 DEF TextSectors
  <2>2. fp.entry # Nowhere BY <2>1, Names DEF Texts
  <2> QED BY <1>0, <2>1, <2>2
<1>7. PICK v : v = Entry("report", fp.scl, fp.size) /\ Change(fp.i, v) BY <1>0
<1>8. UnitAt(Seen', l) = v
  <2>1. win' = [s |-> win.s, data |-> [win.data EXCEPT ![fp.i] = v], dirty |-> TRUE]
    BY <1>7, ChangedTo
  <2>2. Seen'[win.s] = [win.data EXCEPT ![fp.i] = v]
    <3>1. PICK data : data = [win.data EXCEPT ![fp.i] = v] OBVIOUS
    <3>2. win' = [s |-> win.s, data |-> data, dirty |-> TRUE] BY <2>1, <3>1
    <3>3. \A s \in SectorSet : Seen'[s] = IF s = win.s THEN data ELSE Seen[s]
      BY <1>0, <1>6, <3>2, SeenChanged
    <3> QED BY <1>6, <3>1, <3>3
  <2>3. win.data = [j \in 1..SectorUnits |-> win.data[j]]
    BY <1>6 DEF StorageInv, WindowHolds, Holds, IsText
  <2> QED BY <1>4, <1>5, <1>6, <2>2, <2>3 DEF UnitAt
<1>9. IsReport(v) /\ v[3] = fp.size BY <1>7 DEF IsReport, Entry
<1>10. PICK D2, F2, C2, G2, l2 : Work(D2, F2, C2, G2, l2)'
  BY <1>0 DEF CardInv, Well, Working, Resting, RowPlaces
<1>11. Good(Seen', D2, F2, l2, before', n') BY <1>10 DEF Work
<1>12. l2 = l
  <2>1. PICK k : k = Seen' OBVIOUS
  <2>2. Entries(k, D2, l2) BY <1>11, <2>1 DEF Good, Struct
  <2>3. UnitAt(k, l) = v BY <1>8, <2>1
  <2>4. v \notin {Other, Label} /\ Len(v) = 3 BY <1>9 DEF IsReport, Other, Label, Entry
  <2> QED BY <1>4, <2>2, <2>3, <2>4 DEF Entries
<1>13. Size(Seen', l2) = Len(before') + ReportUnits
  <2>1. Size(Seen', l) = fp.size BY <1>8, <1>9 DEF Size
  <2> QED BY <1>0, <1>2, <1>4, <1>12, <2>1
<1>14. Whole(Seen)' BY <1>11, <1>13 DEF Whole
<1>15. at' \notin Chaining /\ ~InFile' BY <1>0 DEF InFile, Chaining
<1> QED BY <1>0, <1>2, <1>14, <1>15 DEF Health

(* sync_fs: FSInfo, which is no part of the file.                            *)
LEMMA SyncFsHealthy ==
  ASSUME StorageInv, CardInv, FreeInv, HealthInv, SyncFs
  PROVE  HealthInv'
<1> SUFFICES ASSUME Well' PROVE Health' BY DEF HealthInv
<1>0. /\ at = "sync" /\ at' = "leave" /\ at \notin Resting
      /\ UNCHANGED <<result, before, n, fits, sound, clean>>
  BY DEF SyncFs, Here, sdVars, callVars, Resting, RowPlaces
<1>1. Well /\ Health BY <1>0, HealthIs
<1>2. result = "ok" /\ Whole(Seen) BY <1>0, <1>1 DEF Health
<1>3. Seen = card /\ \A s \in SectorSet : s # FsInfo => card'[s] = card[s] BY SyncFsCalm
<1>4. PICK D, F, l : Good(card, D, F, l, before, n) /\ Size(card, l) = Len(before) + ReportUnits
  BY <1>2, <1>3 DEF Whole
<1>5. SameText(card, card') /\ SameFat(card, card') /\ card'[Boot] = card[Boot]
  <2>1. \A x \in Places : x[1] \in SectorSet /\ x[1] # FsInfo BY SectorPlaces DEF Places
  <2>2. SameText(card, card') BY <1>3, <2>1 DEF SameText, UnitAt
  <2>3. SameFat(card, card') BY <1>3, Sectors, Names DEF SameFat, Fat
  <2>4. card'[Boot] = card[Boot] BY <1>3, Sectors, Names
  <2> QED BY <2>2, <2>3, <2>4
<1>6. Good(card', D, F, l, before, n) /\ Size(card', l) = Len(before) + ReportUnits
  <2>1. PICK k, h, b, m : k = card /\ h = card' /\ b = before /\ m = n OBVIOUS
  <2>2. Good(h, D, F, l, b, m) BY <1>4, <1>5, <2>1, GoodSame
  <2>3. l \in Places BY <1>4 DEF Good, Struct
  <2>4. UnitAt(h, l) = UnitAt(k, l) BY <1>5, <2>1, <2>3 DEF SameText
  <2>5. Size(h, l) = Size(k, l) BY <2>4 DEF Size
  <2> QED BY <1>4, <2>1, <2>2, <2>5
<1>7. Whole(card)' BY <1>0, <1>6 DEF Whole
<1>8. at' \notin Chaining /\ ~InFile' BY <1>0 DEF InFile, Chaining
<1> QED BY <1>0, <1>2, <1>7, <1>8 DEF Health

(* Every step keeps it.                                                      *)
LEMMA HealthKeeps ==
  ASSUME StorageInv, CardInv, CardInv', FreeInv, HealthInv, [Next]_vars
  PROVE  HealthInv'
<1>1. CASE Program
  <2>1. CASE Flush BY <2>1, FlushHealthy
  <2>2. CASE Fetch BY <2>2, FetchHealthy
  <2>3. CASE Mount \/ MountInfo BY <2>3, MountHealthy
  <2>4. CASE Find BY <2>4, FindHealthy
  <2>5. CASE Alloc BY <2>5, AllocHealthy
  <2>6. CASE NextCluster BY <2>6, NextClusterHealthy
  <2>7. CASE DirClear BY <2>7, DirClearHealthy
  <2>8. CASE Seek BY <2>8, SeekHealthy
  <2>9. CASE Stretch BY <2>9, StretchHealthy
  <2>10. CASE Probe \/ Hunt BY <2>10, HuntHealthy
  <2>11. CASE Mark BY <2>11, MarkHealthy
  <2>12. CASE Link BY <2>12, LinkHealthy
  <2>13. CASE WriteEnds BY <2>13, WriteEndsHealthy
  <2>14. CASE WriteMore BY <2>14, WriteMoreHealthy
  <2>15. CASE Edge \/ Direct \/ Copy BY <2>15, TextHealthy
  <2>16. CASE SyncEntry BY <2>16, SyncEntryHealthy
  <2>17. CASE SyncFs BY <2>17, SyncFsHealthy
  <2>18. CASE Leave \/ RowWrite \/ RowBack \/ RowRestore \/ RowConfirm
    <3>1. at' \in Resting BY <2>18 DEF Leave, RowWrite, RowBack, RowRestore, RowConfirm, RowEnds, Resting, RowPlaces
    <3> QED BY <3>1 DEF HealthInv, Well
  <2> QED BY <1>1, <2>1, <2>2, <2>3, <2>4, <2>5, <2>6, <2>7, <2>8, <2>9, <2>10, <2>11, <2>12, <2>13,
             <2>14, <2>15, <2>16, <2>17, <2>18 DEF Program
<1>2. CASE Call BY <1>2, CallHealthy
<1>3. CASE RowRead \/ PowerOff \/ SwapCard
  <2>1. at' \in Resting BY <1>3 DEF RowRead, PowerOff, SwapCard, Resting, RowPlaces
  <2> QED BY <2>1 DEF HealthInv, Well
<1>4. CASE UNCHANGED vars
  <2>1. UNCHANGED <<card, win, at, result, fp, chain, done, n, before, clean, fits, sound>>
    BY <1>4 DEF vars, memVars, sdVars, callVars
  <2>2. Seen' = Seen BY <2>1 DEF Seen
  <2> QED BY <2>1, <2>2, HealthStays
<1> QED BY <1>1, <1>2, <1>3, <1>4 DEF Next

(* What the file then is.                                                    *)
LEMMA HealthSays ==
  ASSUME CardInv, HealthInv
  PROVE  HealthyCardTakesReport
<1> SUFFICES ASSUME at = "leave", clean, fits, sound
             PROVE  result = "ok" /\ FileOn(card) = before \o Report(n)
  BY DEF HealthyCardTakesReport
<1>1. Well /\ Health BY DEF Well, HealthInv, Resting, RowPlaces
<1>2. result = "ok" /\ Whole(card) BY <1>1 DEF Health
<1>3. PICK k, b, m : k = card /\ b = before /\ m = n OBVIOUS
<1>4. PICK D, F, l : Good(k, D, F, l, b, m) /\ Size(k, l) = Len(b) + ReportUnits BY <1>2, <1>3 DEF Whole
<1>5. IsSeq(b) BY <1>1, <1>3, WellIs
<1>6. PICK t : t = b \o Report(m) OBVIOUS
<1>7. Len(t) = Len(b) + ReportUnits /\ IsSeq(t) BY <1>5, <1>6, DueIs
<1>8. FileOn(k) = [x \in 1..Size(k, l) |-> FileUnit(k, F, x)] BY <1>4, FileRead DEF Good
<1>9. \A x \in 1..Size(k, l) : FileUnit(k, F, x) = t[x] BY <1>4, <1>6 DEF Good, HasText
<1>10. FileOn(k) = [x \in 1..Len(t) |-> t[x]] BY <1>4, <1>7, <1>8, <1>9
<1> QED BY <1>2, <1>3, <1>6, <1>7, <1>10 DEF IsSeq

(* HealthyCardTakesReport: a call none of whose transfers fails, on a sound  *)
(* card with room for the report, saves it: what f_write appends is what the *)
(* card holds when report_write returns, whatever was left behind by calls   *)
(* before that failed, or that the power cut off.                            *)
THEOREM HealthyCardAlwaysTakesReport == ~MayGarble => (Spec => []HealthyCardTakesReport)
<1> SUFFICES ASSUME ~MayGarble PROVE Spec => []HealthyCardTakesReport OBVIOUS
<1> DEFINE Inv == StorageInv /\ CardInv /\ FreeInv /\ HealthInv
<1>1. Init => Inv
  <2> SUFFICES ASSUME Init PROVE Inv OBVIOUS
  <2>1. HealthInv BY DEF Init, HealthInv, Well, Resting
  <2> QED BY <2>1, StorageStarts, CardStarts, FreeStarts
<1>2. Inv /\ [Next]_vars => Inv'
  <2> SUFFICES ASSUME Inv, [Next]_vars PROVE Inv' OBVIOUS
  <2>1. StorageInv' BY StorageKeeps
  <2>2. CardInv' BY CardKeeps
  <2>3. FreeInv' BY FreeKeeps
  <2>4. HealthInv' BY <2>2, HealthKeeps
  <2> QED BY <2>1, <2>2, <2>3, <2>4
<1>3. Inv => HealthyCardTakesReport BY HealthSays
<1> HIDE DEF Inv
<1> QED BY <1>1, <1>2, <1>3, PTL DEF Spec
=============================================================================
