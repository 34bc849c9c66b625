----------------------------- MODULE Fat32Proofs -----------------------------
(***************************************************************************)
(* The FAT32 reader for every disk whose table has the chain of each file, *)
(* every sector and cluster size, number of handles and size of the cached *)
(* window: the window never lies, handles are neither shared nor lost, and *)
(* every file gives its own bytes in their order.                          *)
(***************************************************************************)
EXTENDS Fat32, NatInduction, TLAPS

-----------------------------------------------------------------------------
(* Division.                                                               *)

LEMMA Quotient ==
  ASSUME NEW d \in Nat \ {0}, NEW q \in Int, NEW r \in 0 .. d - 1
  PROVE  (q * d + r) \div d = q /\ (q * d + r) % d = r
  <1>1. PICK a \in Int : a = q * d + r
    OBVIOUS
  <1>2. a = (a \div d) * d + (a % d) /\ a % d \in 0 .. d - 1 /\ a \div d \in Int
    OBVIOUS
  <1>3. PICK p \in Int, s \in 0 .. d - 1 : p = a \div d /\ s = a % d
    BY <1>2
  <1>4. p * d + s = q * d + r
    BY <1>1, <1>2, <1>3
  <1>5. ASSUME p > q PROVE FALSE
    <2>1. PICK e \in Nat : p = q + 1 + e
      <3>1. p - q - 1 \in Nat /\ p = q + 1 + (p - q - 1)
        BY <1>5
      <3>2. QED
        BY <3>1
    <2>2. p * d = q * d + d + e * d
      BY <2>1
    <2>3. e * d >= 0
      OBVIOUS
    <2>4. QED
      BY <1>4, <2>2, <2>3
  <1>6. ASSUME q > p PROVE FALSE
    <2>1. PICK e \in Nat : q = p + 1 + e
      <3>1. q - p - 1 \in Nat /\ q = p + 1 + (q - p - 1)
        BY <1>6
      <3>2. QED
        BY <3>1
    <2>2. q * d = p * d + d + e * d
      BY <2>1
    <2>3. e * d >= 0
      OBVIOUS
    <2>4. QED
      BY <1>4, <2>2, <2>3
  <1>7. p = q
    BY <1>5, <1>6
  <1>8. s = r
    BY <1>4, <1>7
  <1>9. QED
    BY <1>1, <1>3, <1>7, <1>8

LEMMA Division ==
  ASSUME NEW d \in Nat \ {0}, NEW a \in Nat
  PROVE  /\ a \div d \in Nat /\ a % d \in 0 .. d - 1
         /\ a = (a \div d) * d + (a % d)
  <1>1. a = (a \div d) * d + (a % d) /\ a % d \in 0 .. d - 1 /\ a \div d \in Int
    OBVIOUS
  <1>2. ASSUME a \div d < 0 PROVE FALSE
    <2>1. PICK e \in Nat : a \div d = - 1 - e
      <3>1. - 1 - (a \div d) \in Nat /\ a \div d = - 1 - (- 1 - (a \div d))
        BY <1>1, <1>2
      <3>2. QED
        BY <3>1
    <2>2. (- 1 - e) * d = - d - e * d /\ e * d >= 0
      OBVIOUS
    <2>3. QED
      BY <1>1, <2>1, <2>2
  <1>3. QED
    BY <1>1, <1>2

LEMMA InWord == ASSUME NEW x \in Int PROVE x % Word \in 0 .. Word - 1
  BY Fat32Assumption

LEMMA SmallMod == ASSUME NEW x \in 0 .. Word - 1 PROVE x % Word = x
  <1>1. 0 * Word + x = x /\ Word \in Nat \ {0}
    BY Fat32Assumption
  <1>2. (0 * Word + x) % Word = x
    BY <1>1, Quotient
  <1>3. QED
    BY <1>1, <1>2

(* The table lies before the root directory, which has been read: the      *)
(* sectors of the table with the chain of a file are not refused.          *)
LEMMA TableReadable == ASSUME NEW lba \in Nat, lba <= RootLba PROVE Readable(lba)
  <1>1. PICK x \in 0 .. Word - 1 : x = lba + LbaOffset /\ x < PartSize
    <2>1. lba + LbaOffset \in Nat /\ lba + LbaOffset < PartSize /\ PartSize <= Word
      BY Fat32Assumption
    <2>2. lba + LbaOffset \in 0 .. Word - 1
      BY <2>1, Fat32Assumption
    <2>3. QED
      BY <2>1, <2>2
  <1>2. x % Word = x
    BY SmallMod
  <1>3. QED
    BY <1>1, <1>2 DEF Readable

-----------------------------------------------------------------------------
(* The sectors that a buffer may hold, and the window of the table.        *)

Buffers == {Empty} \cup {Sectors[lba] : lba \in DOMAIN Sectors}

LEMMA CellsInBuffers == ASSUME NEW lba PROVE Cells(lba) \in Buffers
  BY DEF Cells, Buffers

LEMMA BufferEntries ==
  ASSUME NEW b \in Buffers, NEW i \in 1 .. SectorSize, IsEntry(b[i])
  PROVE  WellFormedEntry(b[i])
  <1>1. b # Empty
    <2>1. ASSUME b = Empty PROVE FALSE
      <3>1. b[i] = [byte |-> 0]
        BY <2>1 DEF Empty
      <3>2. "name" \notin DOMAIN [byte |-> 0]
        OBVIOUS
      <3>3. QED
        BY <3>1, <3>2 DEF IsEntry
    <2>2. QED
      BY <2>1
  <1>2. PICK lba \in DOMAIN Sectors : b = Sectors[lba]
    BY <1>1 DEF Buffers
  <1>3. QED
    BY <1>2, Fat32Assumption

WindowType == [0 .. CacheSize * FatPerSector - 1 -> 0 .. Word - 1]

(* The window that begins at a sector has the values of all clusters of a  *)
(* file that it is looked up for.                                          *)
HoldsChains(cells, at) ==
  \A c \in DOMAIN Chains : \A k \in DOMAIN Chains[c] :
    Chains[c][k] \div FatPerSector \in at .. at + CacheSize - 1
      => cells[Chains[c][k] - at * FatPerSector] = Fat[Chains[c][k]]

LEMMA FatValueIsWord == ASSUME NEW c PROVE FatValue(c) \in 0 .. Word - 1
  BY Fat32Assumption DEF FatValue

LEMMA WindowIndex ==
  ASSUME NEW c \in Nat, NEW at \in Nat, c \div FatPerSector \in at .. at + CacheSize - 1
  PROVE  /\ c - at * FatPerSector \in 0 .. CacheSize * FatPerSector - 1
         /\ at * FatPerSector + (c - at * FatPerSector) = c
  <1>1. PICK F \in Nat \ {0}, n \in Nat \ {0} : F = FatPerSector /\ n = CacheSize
    BY Fat32Assumption
  <1>2. PICK q \in Nat, r \in 0 .. F - 1 : q = c \div F /\ c = q * F + r
    <2>1. c \div F \in Nat /\ c % F \in 0 .. F - 1 /\ c = (c \div F) * F + (c % F)
      BY <1>1, Division
    <2>2. QED
      BY <2>1
  <1>3. PICK j \in 0 .. n - 1 : q = at + j
    <2>1. q - at \in 0 .. n - 1 /\ q = at + (q - at)
      BY <1>1, <1>2
    <2>2. QED
      BY <2>1
  <1>4. q * F = at * F + j * F /\ at * F \in Int /\ j * F \in Nat
    BY <1>3
  <1>5. c - at * F = j * F + r
    BY <1>2, <1>4
  <1>6. n * F = j * F + (n - j) * F /\ (n - j) * F >= F /\ n * F \in Int
    <2>1. PICK e \in Nat : n - j = 1 + e
      <3>1. n - j - 1 \in Nat /\ n - j = 1 + (n - j - 1)
        OBVIOUS
      <3>2. QED
        BY <3>1
    <2>2. (1 + e) * F = F + e * F /\ e * F >= 0
      OBVIOUS
    <2>3. n * F = j * F + (n - j) * F
      <3>1. n = j + (n - j) /\ n - j \in Int
        OBVIOUS
      <3>2. QED
        BY <3>1
    <2>4. QED
      BY <2>1, <2>2, <2>3
  <1>7. j * F + r \in 0 .. n * F - 1
    BY <1>4, <1>6
  <1>8. QED
    BY <1>1, <1>4, <1>5, <1>7

LEMMA WindowIsTable ==
  ASSUME NEW sector \in Nat
  PROVE  Window(sector) \in WindowType /\ HoldsChains(Window(sector), sector)
  <1>1. Window(sector) \in WindowType
    BY FatValueIsWord DEF Window, WindowType
  <1>2. ASSUME NEW c \in DOMAIN Chains, NEW k \in DOMAIN Chains[c],
               Chains[c][k] \div FatPerSector \in sector .. sector + CacheSize - 1
        PROVE  Window(sector)[Chains[c][k] - sector * FatPerSector] = Fat[Chains[c][k]]
    <2>1. Chains[c][k] \in Nat /\ Chains[c][k] \in DOMAIN Fat
      BY Fat32Assumption
    <2>2. PICK i \in 0 .. CacheSize * FatPerSector - 1 :
            i = Chains[c][k] - sector * FatPerSector /\ sector * FatPerSector + i = Chains[c][k]
      BY <1>2, <2>1, WindowIndex
    <2>3. Window(sector)[i] = FatValue(sector * FatPerSector + i)
      BY <2>2 DEF Window
    <2>4. QED
      BY <2>1, <2>2, <2>3 DEF FatValue
  <1>3. QED
    BY <1>1, <1>2 DEF HoldsChains

(* The lookup of any cluster leaves a window that holds the chains, also   *)
(* when the sector cannot be read, and finds the cluster inside of it.     *)
CasheInv ==
  /\ fat_cashe \in WindowType /\ fat_cashe_position \in Nat
  /\ HoldsChains(fat_cashe, fat_cashe_position)

LEMMA LookUp ==
  ASSUME CasheInv, NEW cluster \in 0 .. Word - 1, NEW w, w = CasheAfter(cluster)
  PROVE  /\ w.cells \in WindowType /\ w.at \in Nat
         /\ HoldsChains(w.cells, w.at)
         /\ cluster \div FatPerSector \in w.at .. w.at + CacheSize - 1
         /\ w.cells[cluster - w.at * FatPerSector] \in 0 .. Word - 1
  <1>1. PICK sector \in Nat : sector = cluster \div FatPerSector
    <2>1. cluster \in Nat /\ FatPerSector \in Nat \ {0}
      BY Fat32Assumption
    <2>2. cluster \div FatPerSector \in Nat
      BY <2>1, Division
    <2>3. QED
      BY <2>2
  <1>2. /\ w.cells \in WindowType /\ w.at \in Nat
        /\ HoldsChains(w.cells, w.at)
        /\ sector \in w.at .. w.at + CacheSize - 1
    <2>1. CASE Cached(sector)
      BY <1>1, <2>1 DEF CasheAfter, CasheInv, Cached
    <2>2. CASE ~ Cached(sector) /\ Readable(Reserved + sector)
      BY <1>1, <2>2, WindowIsTable, Fat32Assumption, SMTT(30) DEF CasheAfter
    <2>3. CASE ~ Cached(sector) /\ ~ Readable(Reserved + sector)
      <3>1. w.cells = fat_cashe /\ w.at = sector
        BY <1>1, <2>3 DEF CasheAfter
      <3>2. ASSUME NEW c \in DOMAIN Chains, NEW k \in DOMAIN Chains[c],
                   Chains[c][k] \div FatPerSector \in sector .. sector + CacheSize - 1
            PROVE  FALSE
        <4>1. PICK q \in Int : q = Chains[c][k] \div FatPerSector /\ q >= sector
          BY <1>1, <3>2
        <4>2. Reserved + q <= RootLba
          BY <4>1, Fat32Assumption
        <4>3. Reserved + sector \in Nat /\ Reserved + sector <= RootLba
          <5>1. Reserved \in Nat /\ RootLba \in Nat
            BY Fat32Assumption
          <5>2. QED
            BY <1>1, <4>1, <4>2, <5>1
        <4>4. Readable(Reserved + sector)
          BY <4>3, TableReadable
        <4>5. QED
          BY <2>3, <4>4
      <3>3. QED
        BY <1>1, <3>1, <3>2, Fat32Assumption, SMTT(30) DEF HoldsChains, CasheInv
    <2>4. QED
      BY <2>1, <2>2, <2>3
  <1>3. cluster - w.at * FatPerSector \in 0 .. CacheSize * FatPerSector - 1
    BY <1>1, <1>2, WindowIndex
  <1>4. QED
    BY <1>1, <1>2, <1>3 DEF WindowType

-----------------------------------------------------------------------------
(* A turn of the loop on one handle.                                       *)

FileType ==
  [opened : BOOLEAN, is_directory : BOOLEAN, position : 0 .. Word - 1, size : 0 .. Word - 1,
   first_cluster : 0 .. Word - 1, current_cluster : 0 .. Word - 1,
   sector_in_clusteer : 0 .. SectorsPerCluster - 1, buffer : Buffers]

(* Reading leaves what a handle was opened for, and sets its size at most  *)
(* to where it is.                                                         *)
SameFile(fd, old) ==
  /\ fd.opened = old.opened /\ fd.is_directory = old.is_directory
  /\ fd.first_cluster = old.first_cluster
  /\ fd.size = old.size \/ fd.size = fd.position

LEMMA NextSectorKeeps ==
  ASSUME CasheInv, NEW h, NEW fd \in FileType, NEW r, r = NextSector(h, fd)
  PROVE  /\ r.fd \in FileType
         /\ SameFile(r.fd, fd) /\ r.fd.position = fd.position
         /\ r.ok => r.fd.size = fd.size
  <1>1. /\ fd.current_cluster \in 0 .. Word - 1 /\ fd.position \in 0 .. Word - 1
        /\ fd.sector_in_clusteer \in 0 .. SectorsPerCluster - 1
    BY DEF FileType
  <1>2. PICK cluster : cluster = IF h = Root THEN (fd.current_cluster + 1) % Word
                                 ELSE IF EndsCluster(h, fd) THEN fat_next_cluster(fd.current_cluster)
                                 ELSE fd.current_cluster
    OBVIOUS
  <1>3. cluster \in 0 .. Word - 1
    <2>1. fat_next_cluster(fd.current_cluster) \in 0 .. Word - 1
      BY <1>1, LookUp, Zenon DEF fat_next_cluster
    <2>2. (fd.current_cluster + 1) % Word \in 0 .. Word - 1
      <3>1. PICK x \in Int : x = fd.current_cluster + 1
        BY <1>1
      <3>2. x % Word \in 0 .. Word - 1
        BY InWord
      <3>3. QED
        BY <3>1, <3>2
    <2>3. QED
      BY <1>1, <1>2, <2>1, <2>2
  <1>4. PICK sector : sector = IF h = Root \/ EndsCluster(h, fd) THEN 0
                               ELSE fd.sector_in_clusteer + 1
    OBVIOUS
  <1>5. sector \in 0 .. SectorsPerCluster - 1
    BY <1>1, <1>4, Fat32Assumption DEF EndsCluster
  <1>6. PICK lba : lba = IF h = Root THEN cluster ELSE (cluster_to_lba(cluster) + sector) % Word
    OBVIOUS
  <1>7. PICK moved : moved = [fd EXCEPT !.current_cluster = cluster,
                                        !.sector_in_clusteer = IF h = Root THEN @ ELSE sector]
    OBVIOUS
  <1>8. /\ moved \in FileType /\ SameFile(moved, fd) /\ moved.position = fd.position
        /\ moved.size = fd.size
    BY <1>1, <1>3, <1>5, <1>7 DEF FileType, SameFile
  <1>9. r = IF h # Root /\ cluster >= EndOfChain
            THEN [fd |-> [moved EXCEPT !.size = fd.position], ok |-> FALSE]
            ELSE [fd |-> IF Readable(lba) THEN [moved EXCEPT !.buffer = Cells(lba)] ELSE moved,
                  ok |-> Readable(lba)]
    BY <1>2, <1>4, <1>6, <1>7, Zenon DEF NextSector
  <1>10. CASE h # Root /\ cluster >= EndOfChain
    BY <1>1, <1>8, <1>9, <1>10 DEF FileType, SameFile
  <1>11. CASE ~ (h # Root /\ cluster >= EndOfChain)
    <2>1. Cells(lba) \in Buffers
      BY CellsInBuffers
    <2>2. CASE Readable(lba)
      <3>1. r.fd = [moved EXCEPT !.buffer = Cells(lba)]
        BY <1>9, <1>11, <2>2
      <3>2. QED
        BY <1>8, <2>1, <3>1 DEF FileType, SameFile
    <2>3. CASE ~ Readable(lba)
      BY <1>8, <1>9, <1>11, <2>3
    <2>4. QED
      BY <2>2, <2>3
  <1>12. QED
    BY <1>10, <1>11

LEMMA TakeKeeps ==
  ASSUME CasheInv, NEW h, NEW old \in FileType, old = File(h), NEW n \in Nat,
         NEW t, t = Take(h, n)
  PROVE  /\ t.fd \in FileType
         /\ SameFile(t.fd, old) /\ t.fd.position = (old.position + n) % Word
         /\ t.cashe.cells \in WindowType /\ t.cashe.at \in Nat
         /\ HoldsChains(t.cashe.cells, t.cashe.at)
         /\ t.ok => t.fd.size = old.size
  <1>1. PICK fd : fd = [old EXCEPT !.position = (@ + n) % Word]
    OBVIOUS
  <1>2. /\ fd \in FileType /\ SameFile(fd, old)
        /\ fd.position = (old.position + n) % Word /\ fd.size = old.size
    <2>1. old.position \in 0 .. Word - 1
      BY DEF FileType
    <2>2. (old.position + n) % Word \in 0 .. Word - 1
      <3>1. PICK x \in Int : x = old.position + n
        BY <2>1
      <3>2. x % Word \in 0 .. Word - 1
        BY InWord
      <3>3. QED
        BY <3>1, <3>2
    <2>3. QED
      BY <1>1, <2>2 DEF FileType, SameFile
  <1>3. PICK next : next = IF n = LeftInBuffer(old) THEN NextSector(h, fd)
                           ELSE [fd |-> fd, ok |-> TRUE]
    OBVIOUS
  <1>4. /\ next.fd \in FileType
        /\ SameFile(next.fd, fd) /\ next.fd.position = fd.position
        /\ next.ok => next.fd.size = fd.size
    <2>1. CASE n = LeftInBuffer(old)
      BY <1>2, <1>3, <2>1, NextSectorKeeps
    <2>2. CASE n # LeftInBuffer(old)
      BY <1>2, <1>3, <2>2 DEF SameFile
    <2>3. QED
      BY <2>1, <2>2
  <1>5. PICK w : w = IF n = LeftInBuffer(old) /\ EndsCluster(h, fd)
                     THEN CasheAfter(fd.current_cluster)
                     ELSE [cells |-> fat_cashe, at |-> fat_cashe_position]
    OBVIOUS
  <1>6. w.cells \in WindowType /\ w.at \in Nat /\ HoldsChains(w.cells, w.at)
    <2>1. CASE n = LeftInBuffer(old) /\ EndsCluster(h, fd)
      <3>1. fd.current_cluster \in 0 .. Word - 1
        BY <1>2 DEF FileType
      <3>2. QED
        BY <1>5, <2>1, <3>1, LookUp
    <2>2. CASE ~ (n = LeftInBuffer(old) /\ EndsCluster(h, fd))
      BY <1>5, <2>2 DEF CasheInv
    <2>3. QED
      BY <2>1, <2>2
  <1>7. t.fd = next.fd /\ t.ok = next.ok /\ t.cashe = w
    <2>1. t = [fd |-> next.fd, ok |-> next.ok, cashe |-> w]
      BY <1>1, <1>3, <1>5 DEF Take
    <2>2. QED
      BY <2>1
  <1>8. QED
    BY <1>2, <1>4, <1>6, <1>7 DEF SameFile

-----------------------------------------------------------------------------
(* Reading stays within a file.                                            *)

Within(fd) == ~ fd.is_directory => fd.position <= fd.size

LEMMA MinOfTwo ==
  ASSUME NEW a \in Int, NEW b \in Int
  PROVE  /\ Min({a, b}) \in Int /\ Min({a, b}) <= a /\ Min({a, b}) <= b
         /\ Min({a, b}) \in {a, b}
  <1>1. \E x \in {a, b} : \A y \in {a, b} : x <= y
    OBVIOUS
  <1>2. Min({a, b}) \in {a, b} /\ \A y \in {a, b} : Min({a, b}) <= y
    BY <1>1 DEF Min
  <1>3. QED
    BY <1>2

LEMMA LimitWithin ==
  ASSUME NEW fd \in FileType, NEW n \in Nat
  PROVE  /\ Limit(fd, n) \in Int /\ Limit(fd, n) <= n
         /\ ~ fd.is_directory => Limit(fd, n) <= fd.size - fd.position
  <1>1. fd.size \in Int /\ fd.position \in Int /\ fd.size - fd.position \in Int
    BY DEF FileType
  <1>2. Limit(fd, n) = n \/ Limit(fd, n) = Min({n, fd.size - fd.position})
    BY DEF Limit
  <1>3. ~ fd.is_directory => Limit(fd, n) = Min({n, fd.size - fd.position})
    BY DEF Limit
  <1>4. PICK d \in Int : d = fd.size - fd.position
    BY <1>1
  <1>5. Min({n, d}) \in Int /\ Min({n, d}) <= n /\ Min({n, d}) <= d
    BY MinOfTwo
  <1>6. QED
    BY <1>2, <1>3, <1>4, <1>5

(* A turn that takes no more than is left moves on by what it takes.       *)
LEMMA TakeWithin ==
  ASSUME CasheInv, NEW h, NEW old \in FileType, old = File(h), NEW n \in Nat,
         NEW t, t = Take(h, n), Within(old),
         ~ old.is_directory => n <= old.size - old.position
  PROVE  /\ Within(t.fd)
         /\ ~ old.is_directory => t.fd.position = old.position + n
  <1>1. SameFile(t.fd, old) /\ t.fd.position = (old.position + n) % Word
    BY TakeKeeps
  <1>2. CASE ~ old.is_directory
    <2>1. old.position \in Nat /\ old.size \in 0 .. Word - 1
      BY DEF FileType
    <2>2. PICK x \in 0 .. Word - 1 : x = old.position + n /\ x <= old.size
      BY <1>2, <2>1, Fat32Assumption
    <2>3. t.fd.position = x
      BY <1>1, <2>2, SmallMod
    <2>4. QED
      BY <1>1, <2>1, <2>2, <2>3 DEF SameFile, Within
  <1>3. CASE old.is_directory
    BY <1>1, <1>3 DEF SameFile, Within
  <1>4. QED
    BY <1>2, <1>3

-----------------------------------------------------------------------------
(* The bytes of a file.                                                    *)

FileFits(fd) ==
  fd.size > 0 =>
    /\ fd.first_cluster \in DOMAIN Chains
    /\ fd.size <= Len(Chains[fd.first_cluster]) * SectorsPerCluster * SectorSize

(* The s-th sector of the k-th cluster of the file c; the buffer holds it, *)
(* unless it was refused.                                                  *)
SectorOf(c, k, s) == (cluster_to_lba(Chains[c][k]) + s) % Word

Buffered(fd, c, k, s) ==
  /\ fd.current_cluster = Chains[c][k]
  /\ fd.sector_in_clusteer = s
  /\ Readable(SectorOf(c, k, s)) => fd.buffer = Cells(SectorOf(c, k, s))

(* The handle is at the o-th cell of that sector.                          *)
At(fd, k, s, o) ==
  /\ fd.position = ((k - 1) * SectorsPerCluster + s) * SectorSize + o
  /\ Buffered(fd, fd.first_cluster, k, s)

(* Before the end of the file the buffer is the place of the sector that   *)
(* is next.                                                                *)
InPlace(fd) ==
  fd.position < fd.size =>
    \E k \in 1 .. Len(Chains[fd.first_cluster]), s \in 0 .. SectorsPerCluster - 1,
       o \in 0 .. SectorSize - 1 : At(fd, k, s, o)

InOrder(fd, bytes) ==
  ~ fd.is_directory =>
    /\ FileFits(fd) /\ InPlace(fd)
    /\ Len(bytes) = fd.position
    /\ \A i \in 1 .. Len(bytes) :
         Readable(LbaOf(fd.first_cluster, i - 1)) => bytes[i] = CellAt(fd.first_cluster, i - 1)

LEMMA CellHere ==
  ASSUME NEW c, NEW k \in Nat \ {0}, NEW s \in 0 .. SectorsPerCluster - 1,
         NEW o \in 0 .. SectorSize - 1, NEW p,
         p = ((k - 1) * SectorsPerCluster + s) * SectorSize + o
  PROVE  /\ CellAt(c, p) = Cells(SectorOf(c, k, s))[o + 1]
         /\ LbaOf(c, p) = SectorOf(c, k, s) /\ p % SectorSize = o
  <1>1. SectorSize \in Nat \ {0} /\ SectorsPerCluster \in Nat \ {0}
    BY Fat32Assumption
  <1>2. PICK j \in Nat : j = k - 1 /\ k = j + 1
    <2>1. k - 1 \in Nat /\ k = (k - 1) + 1
      OBVIOUS
    <2>2. QED
      BY <2>1
  <1>3. PICK q \in Int : q = j * SectorsPerCluster + s
    BY <1>1
  <1>4. p = q * SectorSize + o
    BY <1>2, <1>3
  <1>5. p \div SectorSize = q /\ p % SectorSize = o
    BY <1>1, <1>4, Quotient
  <1>6. q \div SectorsPerCluster = j /\ q % SectorsPerCluster = s
    BY <1>1, <1>2, <1>3, Quotient
  <1>7. LbaOf(c, p) = SectorOf(c, j + 1, s)
    BY <1>5, <1>6 DEF LbaOf, SectorOf
  <1>8. CellAt(c, p) = Cells(SectorOf(c, j + 1, s))[o + 1]
    BY <1>5, <1>7 DEF CellAt
  <1>9. QED
    BY <1>2, <1>5, <1>7, <1>8

(* The clusters of a file are no ends, and the table has their order.      *)
LEMMA ChainCluster ==
  ASSUME NEW c \in DOMAIN Chains, NEW k \in 1 .. Len(Chains[c])
  PROVE  /\ Chains[c][k] \in 0 .. Word - 1 /\ ~ (Chains[c][k] >= EndOfChain)
         /\ k < Len(Chains[c]) => Fat[Chains[c][k]] = Chains[c][k + 1]
  <1>1. DOMAIN Chains[c] = 1 .. Len(Chains[c])
    BY Fat32Assumption
  <1>2. /\ Chains[c][k] \in 0 .. EndOfChain - 1
        /\ k < Len(Chains[c]) => Fat[Chains[c][k]] = Chains[c][k + 1]
    BY <1>1, Fat32Assumption
  <1>3. QED
    BY <1>2, Fat32Assumption

(* The sector behind the s-th of the k-th cluster.                         *)
LEMMA NextPlace ==
  ASSUME CasheInv, NEW h, h # Root, NEW fd \in FileType,
         NEW c \in DOMAIN Chains, NEW k \in 1 .. Len(Chains[c]),
         NEW s \in 0 .. SectorsPerCluster - 1, Buffered(fd, c, k, s),
         NEW r, r = NextSector(h, fd)
  PROVE  /\ s + 1 < SectorsPerCluster => Buffered(r.fd, c, k, s + 1)
         /\ s + 1 >= SectorsPerCluster /\ k < Len(Chains[c]) => Buffered(r.fd, c, k + 1, 0)
  <1>1. ASSUME NEW j \in 1 .. Len(Chains[c]), NEW z \in 0 .. SectorsPerCluster - 1,
               Chains[c][j] = (IF EndsCluster(h, fd) THEN fat_next_cluster(fd.current_cluster)
                               ELSE fd.current_cluster),
               z = (IF EndsCluster(h, fd) THEN 0 ELSE fd.sector_in_clusteer + 1)
        PROVE  Buffered(r.fd, c, j, z)
    <2>1. PICK lba : lba = SectorOf(c, j, z)
      OBVIOUS
    <2>2. ~ (Chains[c][j] >= EndOfChain)
      BY ChainCluster
    <2>3. PICK moved : moved = [fd EXCEPT !.current_cluster = Chains[c][j],
                                          !.sector_in_clusteer = z]
      OBVIOUS
    <2>4. PICK cluster : cluster = IF h = Root THEN (fd.current_cluster + 1) % Word
                                   ELSE IF EndsCluster(h, fd)
                                   THEN fat_next_cluster(fd.current_cluster)
                                   ELSE fd.current_cluster
      OBVIOUS
    <2>5. PICK sector : sector = IF h = Root \/ EndsCluster(h, fd) THEN 0
                                 ELSE fd.sector_in_clusteer + 1
      OBVIOUS
    <2>6. PICK at : at = IF h = Root THEN cluster ELSE (cluster_to_lba(cluster) + sector) % Word
      OBVIOUS
    <2>7. PICK gone : gone = [fd EXCEPT !.current_cluster = cluster,
                                        !.sector_in_clusteer = IF h = Root THEN @ ELSE sector]
      OBVIOUS
    <2>8. r = IF h # Root /\ cluster >= EndOfChain
              THEN [fd |-> [gone EXCEPT !.size = fd.position], ok |-> FALSE]
              ELSE [fd |-> IF Readable(at) THEN [gone EXCEPT !.buffer = Cells(at)] ELSE gone,
                    ok |-> Readable(at)]
      BY <2>4, <2>5, <2>6, <2>7, Zenon DEF NextSector
    <2>9. cluster = Chains[c][j] /\ sector = z
      BY <1>1, <2>4, <2>5
    <2>10. at = lba
      BY <2>1, <2>6, <2>9 DEF SectorOf
    <2>11. gone = moved
      BY <2>3, <2>7, <2>9
    <2>12. r.fd = IF Readable(lba) THEN [moved EXCEPT !.buffer = Cells(lba)] ELSE moved
      BY <2>2, <2>8, <2>9, <2>10, <2>11
    <2>13. /\ r.fd.current_cluster = Chains[c][j] /\ r.fd.sector_in_clusteer = z
           /\ Readable(lba) => r.fd.buffer = Cells(lba)
      BY <2>3, <2>12 DEF FileType
    <2>14. QED
      BY <2>1, <2>13 DEF Buffered
  <1>2. CASE s + 1 < SectorsPerCluster
    <2>1. fd.current_cluster = Chains[c][k] /\ fd.sector_in_clusteer = s
      BY DEF Buffered
    <2>2. ~ EndsCluster(h, fd) /\ s + 1 \in 0 .. SectorsPerCluster - 1
      BY <1>2, <2>1, Fat32Assumption DEF EndsCluster
    <2>3. Buffered(r.fd, c, k, s + 1)
      BY <1>1, <2>1, <2>2
    <2>4. SectorsPerCluster \in Nat
      BY Fat32Assumption
    <2>5. QED
      BY <1>2, <2>3, <2>4
  <1>3. CASE s + 1 >= SectorsPerCluster /\ k < Len(Chains[c])
    <2>1. fd.current_cluster = Chains[c][k] /\ fd.sector_in_clusteer = s
      BY DEF Buffered
    <2>2. EndsCluster(h, fd)
      BY <1>3, <2>1 DEF EndsCluster
    <2>3. k + 1 \in 1 .. Len(Chains[c]) /\ 0 \in 0 .. SectorsPerCluster - 1
      BY <1>3, Fat32Assumption
    <2>4. Chains[c][k] \in 0 .. Word - 1 /\ Fat[Chains[c][k]] = Chains[c][k + 1]
      BY <1>3, ChainCluster
    <2>5. fat_next_cluster(fd.current_cluster) = Chains[c][k + 1]
      <3>1. PICK w : w = CasheAfter(Chains[c][k])
        OBVIOUS
      <3>2. /\ HoldsChains(w.cells, w.at)
            /\ Chains[c][k] \div FatPerSector \in w.at .. w.at + CacheSize - 1
        BY <2>4, <3>1, LookUp
      <3>3. k \in DOMAIN Chains[c]
        BY Fat32Assumption
      <3>4. w.cells[Chains[c][k] - w.at * FatPerSector] = Fat[Chains[c][k]]
        BY <3>2, <3>3 DEF HoldsChains
      <3>5. QED
        BY <2>1, <2>4, <3>1, <3>4 DEF fat_next_cluster
    <2>6. Buffered(r.fd, c, k + 1, 0)
      BY <1>1, <2>2, <2>3, <2>5
    <2>7. SectorsPerCluster \in Nat
      BY Fat32Assumption
    <2>8. QED
      BY <1>3, <2>6, <2>7
  <1>4. s + 1 < SectorsPerCluster \/ s + 1 >= SectorsPerCluster
    BY Fat32Assumption
  <1>5. QED
    BY <1>2, <1>3, <1>4

AllCells == {b[i] : b \in Buffers, i \in 1 .. SectorSize}

(* What a turn takes from the o-th cell of a buffer on.                    *)
LEMMA TakenCells ==
  ASSUME NEW fd \in FileType, NEW o \in 0 .. SectorSize - 1, fd.position % SectorSize = o,
         NEW n \in Nat, n <= LeftInBuffer(fd)
  PROVE  /\ Taken(fd, n) \in Seq(AllCells) /\ Len(Taken(fd, n)) = n
         /\ \A i \in 1 .. n : Taken(fd, n)[i] = fd.buffer[o + i] /\ o + i \in 1 .. SectorSize
         /\ LeftInBuffer(fd) = SectorSize - o
  <1>1. SectorSize \in Nat /\ LeftInBuffer(fd) = SectorSize - o
    BY Fat32Assumption DEF LeftInBuffer
  <1>2. Taken(fd, n) = [i \in 1 .. n |-> fd.buffer[o + i]]
    BY DEF Taken
  <1>3. \A i \in 1 .. n : o + i \in 1 .. SectorSize
    BY <1>1
  <1>4. fd.buffer \in Buffers
    BY DEF FileType
  <1>5. \A i \in 1 .. n : fd.buffer[o + i] \in AllCells
    BY <1>3, <1>4 DEF AllCells
  <1>6. Taken(fd, n) \in [1 .. n -> AllCells]
    BY <1>2, <1>5
  <1>7. QED
    BY <1>1, <1>2, <1>3, <1>6

LEMMA OffsetInBuffer ==
  ASSUME NEW fd \in FileType
  PROVE  /\ fd.position % SectorSize \in 0 .. SectorSize - 1
         /\ LeftInBuffer(fd) \in 1 .. SectorSize
  <1>1. fd.position \in Nat /\ SectorSize \in Nat \ {0}
    BY Fat32Assumption DEF FileType
  <1>2. fd.position % SectorSize \in 0 .. SectorSize - 1
    BY <1>1, Division
  <1>3. QED
    BY <1>1, <1>2 DEF LeftInBuffer

(* A turn that stays in the buffer moves the position only.                *)
LEMMA TurnInBuffer ==
  ASSUME NEW h, NEW old \in FileType, old = File(h), NEW n \in Nat, n # LeftInBuffer(old),
         NEW t, t = Take(h, n)
  PROVE  /\ t.fd.current_cluster = old.current_cluster
         /\ t.fd.sector_in_clusteer = old.sector_in_clusteer /\ t.fd.buffer = old.buffer
  <1>1. PICK fd : fd = [old EXCEPT !.position = (@ + n) % Word]
    OBVIOUS
  <1>2. PICK next : next = IF n = LeftInBuffer(old) THEN NextSector(h, fd)
                           ELSE [fd |-> fd, ok |-> TRUE]
    OBVIOUS
  <1>3. PICK w : w = IF n = LeftInBuffer(old) /\ EndsCluster(h, fd)
                     THEN CasheAfter(fd.current_cluster)
                     ELSE [cells |-> fat_cashe, at |-> fat_cashe_position]
    OBVIOUS
  <1>4. t = [fd |-> next.fd, ok |-> next.ok, cashe |-> w]
    BY <1>1, <1>2, <1>3 DEF Take
  <1>5. t.fd = fd
    BY <1>2, <1>4
  <1>6. QED
    BY <1>1, <1>5 DEF FileType

(* A turn that empties the buffer goes on as NextSector() says.            *)
LEMMA TurnToNext ==
  ASSUME CasheInv, NEW h, h # Root, NEW old \in FileType, old = File(h),
         NEW n \in Nat, n = LeftInBuffer(old), NEW t, t = Take(h, n),
         NEW c \in DOMAIN Chains, NEW k \in 1 .. Len(Chains[c]),
         NEW s \in 0 .. SectorsPerCluster - 1, Buffered(old, c, k, s)
  PROVE  /\ s + 1 < SectorsPerCluster => Buffered(t.fd, c, k, s + 1)
         /\ s + 1 >= SectorsPerCluster /\ k < Len(Chains[c]) => Buffered(t.fd, c, k + 1, 0)
  <1>1. PICK fd : fd = [old EXCEPT !.position = (@ + n) % Word]
    OBVIOUS
  <1>2. fd \in FileType
    <2>1. old.position \in 0 .. Word - 1
      BY DEF FileType
    <2>2. PICK x \in Int : x = old.position + n
      BY <2>1
    <2>3. x % Word \in 0 .. Word - 1
      BY InWord
    <2>4. QED
      BY <1>1, <2>2, <2>3 DEF FileType
  <1>3. Buffered(fd, c, k, s)
    BY <1>1 DEF Buffered, FileType
  <1>4. PICK next : next = NextSector(h, fd)
    OBVIOUS
  <1>5. PICK w : w = IF n = LeftInBuffer(old) /\ EndsCluster(h, fd)
                     THEN CasheAfter(fd.current_cluster)
                     ELSE [cells |-> fat_cashe, at |-> fat_cashe_position]
    OBVIOUS
  <1>6. t = [fd |-> next.fd, ok |-> next.ok, cashe |-> w]
    BY <1>1, <1>4, <1>5 DEF Take
  <1>7. t.fd = next.fd
    BY <1>6
  <1>8. /\ s + 1 < SectorsPerCluster => Buffered(next.fd, c, k, s + 1)
        /\ s + 1 >= SectorsPerCluster /\ k < Len(Chains[c]) => Buffered(next.fd, c, k + 1, 0)
    BY <1>2, <1>3, <1>4, NextPlace
  <1>9. QED
    BY <1>7, <1>8

(* The next place of a handle that has taken n cells and is not at the end.*)
LEMMA TurnKeepsPlace ==
  ASSUME CasheInv, NEW h, h # Root, NEW old \in FileType, old = File(h), ~ old.is_directory,
         FileFits(old), InPlace(old),
         NEW n \in Nat, n <= LeftInBuffer(old), old.position + n < old.size,
         NEW t, t = Take(h, n), t.fd.position = old.position + n,
         t.fd.first_cluster = old.first_cluster
  PROVE  \E k \in 1 .. Len(Chains[old.first_cluster]), s \in 0 .. SectorsPerCluster - 1,
            o \in 0 .. SectorSize - 1 : At(t.fd, k, s, o)
  <1>1. PICK c : c = old.first_cluster
    OBVIOUS
  <1>2. old.position \in Nat /\ old.size \in Nat
    BY Fat32Assumption DEF FileType
  <1>3. PICK k \in 1 .. Len(Chains[c]), s \in 0 .. SectorsPerCluster - 1,
             o \in 0 .. SectorSize - 1 : At(old, k, s, o)
    BY <1>1, <1>2 DEF InPlace
  <1>4. PICK P \in Nat : P = old.position
    BY <1>2
  <1>5. /\ P = ((k - 1) * SectorsPerCluster + s) * SectorSize + o
        /\ Buffered(old, c, k, s)
    BY <1>1, <1>3, <1>4 DEF At
  <1>6. c \in DOMAIN Chains /\ old.size <= Len(Chains[c]) * SectorsPerCluster * SectorSize
    BY <1>1, <1>2 DEF FileFits
  <1>7. Len(Chains[c]) \in Nat
    BY <1>6, Fat32Assumption
  <1>8. k \in Nat \ {0} /\ SectorSize \in Nat \ {0} /\ SectorsPerCluster \in Nat \ {0}
    BY <1>7, Fat32Assumption
  <1>9. P % SectorSize = o
    <2>1. PICK q \in Int : q = (k - 1) * SectorsPerCluster + s
      BY <1>8
    <2>2. P = q * SectorSize + o
      BY <1>5, <2>1
    <2>3. QED
      BY <1>8, <2>2, Quotient
  <1>10. LeftInBuffer(old) = SectorSize - o
    BY <1>4, <1>9 DEF LeftInBuffer
  <1>11. PICK q \in Int : q = (k - 1) * SectorsPerCluster + s
    BY <1>8
  <1>12. CASE n # LeftInBuffer(old)
    <2>1. Buffered(t.fd, c, k, s)
      BY <1>5, <1>12, TurnInBuffer DEF Buffered
    <2>2. PICK m \in 0 .. SectorSize - 1 : m = o + n
      BY <1>8, <1>10, <1>12
    <2>3. t.fd.position = q * SectorSize + m
      <3>1. q * SectorSize \in Int
        BY <1>8
      <3>2. QED
        BY <1>4, <1>5, <1>11, <2>2, <3>1
    <2>4. At(t.fd, k, s, m)
      BY <1>1, <1>11, <2>1, <2>3 DEF At
    <2>5. QED
      BY <1>1, <2>4
  <1>13. CASE n = LeftInBuffer(old)
    <2>1. t.fd.position = (q + 1) * SectorSize + 0
      <3>1. q * SectorSize \in Int /\ (q + 1) * SectorSize = q * SectorSize + SectorSize
        BY <1>8
      <3>2. QED
        BY <1>4, <1>5, <1>8, <1>10, <1>11, <1>13, <3>1
    <2>2. CASE s + 1 < SectorsPerCluster
      <3>1. PICK z \in 0 .. SectorsPerCluster - 1 : z = s + 1
        BY <1>8, <2>2
      <3>2. Buffered(t.fd, c, k, z)
        BY <1>5, <1>6, <1>13, <2>2, <3>1, TurnToNext
      <3>3. q + 1 = (k - 1) * SectorsPerCluster + z
        <4>1. (k - 1) * SectorsPerCluster \in Int
          BY <1>8
        <4>2. QED
          BY <1>11, <3>1, <4>1
      <3>4. At(t.fd, k, z, 0)
        BY <1>1, <2>1, <3>2, <3>3 DEF At
      <3>5. 0 \in 0 .. SectorSize - 1
        BY <1>8
      <3>6. QED
        BY <1>1, <3>4, <3>5
    <2>3. CASE s + 1 >= SectorsPerCluster
      <3>1. q + 1 = k * SectorsPerCluster
        <4>1. k * SectorsPerCluster = (k - 1) * SectorsPerCluster + SectorsPerCluster
          BY <1>8
        <4>2. (k - 1) * SectorsPerCluster \in Int /\ s + 1 = SectorsPerCluster
          BY <1>8, <2>3
        <4>3. QED
          BY <1>8, <1>11, <4>1, <4>2
      <3>2. k < Len(Chains[c])
        <4>1. ASSUME k = Len(Chains[c]) PROVE FALSE
          <5>1. old.size <= (q + 1) * SectorSize
            BY <1>6, <3>1, <4>1
          <5>2. (q + 1) * SectorSize \in Int /\ (q + 1) * SectorSize + 0 < old.size
            BY <1>8, <2>1
          <5>3. QED
            BY <1>2, <5>1, <5>2
        <4>2. QED
          BY <1>7, <4>1
      <3>3. PICK j \in 1 .. Len(Chains[c]) : j = k + 1
        BY <1>7, <3>2
      <3>4. Buffered(t.fd, c, j, 0)
        BY <1>5, <1>6, <1>13, <2>3, <3>2, <3>3, TurnToNext
      <3>5. q + 1 = (j - 1) * SectorsPerCluster + 0
        BY <1>8, <3>1, <3>3
      <3>6. At(t.fd, j, 0, 0)
        BY <1>1, <2>1, <3>4, <3>5 DEF At
      <3>7. 0 \in 0 .. SectorSize - 1 /\ 0 \in 0 .. SectorsPerCluster - 1
        BY <1>8
      <3>8. QED
        BY <1>1, <3>6, <3>7
    <2>4. QED
      BY <1>8, <2>2, <2>3
  <1>14. QED
    BY <1>12, <1>13

(* A turn of the loop of fat_read on a file gives the bytes that are next. *)
LEMMA TurnKeepsOrder ==
  ASSUME CasheInv, NEW h, h # Root, NEW old \in FileType, old = File(h), Within(old),
         ~ old.is_directory, NEW bytes \in Seq(AllCells), InOrder(old, bytes),
         NEW n \in Nat \ {0}, n <= LeftInBuffer(old), n <= old.size - old.position,
         NEW t, t = Take(h, n)
  PROVE  InOrder(t.fd, bytes \o Taken(old, n))
  <1>1. PICK c : c = old.first_cluster
    OBVIOUS
  <1>2. old.position \in Nat /\ old.size \in Nat /\ SectorSize \in Nat \ {0}
    BY Fat32Assumption DEF FileType
  <1>3. SameFile(t.fd, old) /\ t.fd.position = old.position + n
    BY TakeKeeps, TakeWithin
  <1>4. FileFits(old) /\ InPlace(old)
    BY DEF InOrder
  <1>5. PICK k \in 1 .. Len(Chains[c]), s \in 0 .. SectorsPerCluster - 1,
             o \in 0 .. SectorSize - 1 : At(old, k, s, o)
    BY <1>1, <1>2, <1>4 DEF InPlace
  <1>6. PICK P \in Nat : P = old.position
    BY <1>2
  <1>7. /\ P = ((k - 1) * SectorsPerCluster + s) * SectorSize + o
        /\ Buffered(old, c, k, s)
    BY <1>1, <1>5, <1>6 DEF At
  <1>8. /\ c \in DOMAIN Chains /\ old.size <= Len(Chains[c]) * SectorsPerCluster * SectorSize
        /\ Len(Chains[c]) \in Nat /\ k \in Nat \ {0}
    <2>1. c \in DOMAIN Chains /\ old.size <= Len(Chains[c]) * SectorsPerCluster * SectorSize
      BY <1>1, <1>2, <1>4 DEF FileFits
    <2>2. Len(Chains[c]) \in Nat
      BY <2>1, Fat32Assumption
    <2>3. QED
      BY <2>1, <2>2
  <1>9. P % SectorSize = o
    <2>1. k - 1 \in Int /\ SectorsPerCluster \in Int
      BY <1>8, Fat32Assumption
    <2>2. PICK a \in Int : a = (k - 1) * SectorsPerCluster
      BY <2>1
    <2>3. PICK q \in Int : q = a + s
      BY <2>2
    <2>4. P = q * SectorSize + o
      BY <1>7, <2>2, <2>3
    <2>5. QED
      BY <1>2, <2>3, <2>4, Quotient
  <1>10. /\ Taken(old, n) \in Seq(AllCells) /\ Len(Taken(old, n)) = n
         /\ \A i \in 1 .. n : Taken(old, n)[i] = old.buffer[o + i] /\ o + i \in 1 .. SectorSize
         /\ LeftInBuffer(old) = SectorSize - o
    BY <1>6, <1>9, TakenCells
  <1>11. PICK more : more = bytes \o Taken(old, n)
    OBVIOUS
  <1>12. /\ Len(bytes) = P
         /\ \A i \in 1 .. P : Readable(LbaOf(c, i - 1)) => bytes[i] = CellAt(c, i - 1)
    BY <1>1, <1>6 DEF InOrder
  <1>13. Len(more) = P + n
    <2>1. PICK now \in Seq(AllCells) : now = Taken(old, n) /\ Len(now) = n
      BY <1>10
    <2>2. Len(bytes \o now) = Len(bytes) + Len(now)
      OBVIOUS
    <2>3. QED
      BY <1>11, <1>12, <2>1, <2>2
  <1>14. ASSUME NEW i \in 1 .. Len(more), Readable(LbaOf(c, i - 1))
         PROVE  more[i] = CellAt(c, i - 1)
    <2>1. CASE i <= P
      BY <1>10, <1>11, <1>12, <1>13, <1>14, <2>1
    <2>2. CASE i > P
      <3>1. PICK j \in 1 .. n : j = i - P
        BY <1>13, <2>2
      <3>2. more[i] = Taken(old, n)[j]
        BY <1>10, <1>11, <1>12, <1>13, <2>2, <3>1, SMTT(30)
      <3>3. PICK e \in 0 .. SectorSize - 1 : e = o + j - 1 /\ e + 1 = o + j
        <4>1. o + j \in 1 .. SectorSize
          BY <1>10
        <4>2. QED
          BY <1>2, <4>1
      <3>4. PICK x : x = i - 1
        OBVIOUS
      <3>5. x = ((k - 1) * SectorsPerCluster + s) * SectorSize + e
        <4>1. PICK q \in Int : q = ((k - 1) * SectorsPerCluster + s) * SectorSize
          BY <1>2, <1>8, Fat32Assumption
        <4>2. P = q + o
          BY <1>7, <4>1
        <4>3. x = P + (j - 1) /\ x \in Int
          BY <1>13, <3>1, <3>4
        <4>4. x = q + e
          BY <3>3, <4>2, <4>3
        <4>5. QED
          BY <4>1, <4>4
      <3>6. CellAt(c, x) = Cells(SectorOf(c, k, s))[e + 1] /\ LbaOf(c, x) = SectorOf(c, k, s)
        BY <1>8, <3>5, CellHere
      <3>7. old.buffer = Cells(SectorOf(c, k, s))
        BY <1>7, <1>14, <3>4, <3>6 DEF Buffered
      <3>8. QED
        BY <1>10, <3>2, <3>3, <3>4, <3>6, <3>7
    <2>3. QED
      BY <1>13, <2>1, <2>2
  <1>15. t.fd.size = old.size \/ t.fd.size = P + n
    BY <1>3, <1>6 DEF SameFile
  <1>16. t.fd.first_cluster = c
    BY <1>1, <1>3 DEF SameFile
  <1>17. FileFits(t.fd)
    <2>1. PICK m : m = Len(Chains[c]) * SectorsPerCluster * SectorSize
      OBVIOUS
    <2>2. m \in Int
      BY <1>8, <2>1, Fat32Assumption
    <2>3. t.fd.size <= m
      BY <1>2, <1>6, <1>8, <1>15, <2>1, <2>2
    <2>4. QED
      BY <1>8, <1>16, <2>1, <2>3 DEF FileFits
  <1>18. InPlace(t.fd)
    <2>1. ASSUME t.fd.position < t.fd.size PROVE old.position + n < old.size
      BY <1>2, <1>3, <1>6, <1>15, <2>1
    <2>2. QED
      BY <1>1, <1>3, <1>4, <1>16, <2>1, TurnKeepsPlace DEF InPlace
  <1>19. QED
    BY <1>3, <1>6, <1>11, <1>13, <1>14, <1>16, <1>17, <1>18 DEF InOrder

-----------------------------------------------------------------------------
(* The invariant.                                                          *)

(* A read of a file is for no more than what is left of it.                *)
Calls ==
  /\ op.kind = "open" => op.dir \in Handles \cup {Root}
  /\ op.kind = "read" =>
       /\ op = [kind |-> "read", handle |-> op.handle, left |-> op.left]
       /\ op.handle \in held /\ op.left \in Int
       /\ ~ File(op.handle).is_directory =>
            op.left <= File(op.handle).size - File(op.handle).position

Files ==
  /\ root_directory \in FileType /\ root_directory.is_directory
  /\ opened_files \in [Handles -> FileType]
  /\ \A h \in Handles : Within(opened_files[h])

Ordered ==
  /\ held \subseteq Handles \cup {Root}
  /\ got \in [Handles -> Seq(AllCells)]
  /\ \A h \in held \ {Root} : InOrder(opened_files[h], got[h])

FInv == Files /\ CasheInv /\ HandlesAccounted /\ Calls /\ Ordered

LEMMA RootIsNoHandle == Root \notin Handles /\ nullptr \notin Handles
  BY Fat32Assumption DEF Root, nullptr, Handles

LEMMA AFile ==
  ASSUME Files, NEW h \in Handles \cup {Root}
  PROVE  File(h) \in FileType /\ Within(File(h)) /\ (h = Root => File(h).is_directory)
  BY RootIsNoHandle DEF Files, File, Within

(* The handles after the update of one of them.                            *)
LEMMA Updated ==
  ASSUME Files, NEW h \in Handles \cup {Root}, NEW fd \in FileType, Within(fd),
         h = Root => fd.is_directory, Update(h, fd)
  PROVE  /\ Files' /\ File(h)' = fd
         /\ \A g \in Handles : opened_files'[g] = IF g = h THEN fd ELSE opened_files[g]
  <1>1. CASE h = Root
    <2>1. root_directory' = fd /\ opened_files' = opened_files
      BY <1>1 DEF Update
    <2>2. QED
      BY <1>1, <2>1, RootIsNoHandle DEF Files, File, Within
  <1>2. CASE h # Root
    <2>1. /\ opened_files' = [opened_files EXCEPT ![h] = fd]
          /\ root_directory' = root_directory /\ h \in Handles
      BY <1>2 DEF Update
    <2>2. \A g \in Handles : opened_files'[g] = IF g = h THEN fd ELSE opened_files[g]
      BY <2>1 DEF Files
    <2>3. opened_files' \in [Handles -> FileType]
      BY <2>1 DEF Files
    <2>4. \A g \in Handles : Within(opened_files'[g])
      BY <2>2 DEF Files
    <2>5. QED
      BY <1>2, <2>1, <2>2, <2>3, <2>4 DEF Files, File, Within
  <1>3. QED
    BY <1>1, <1>2

LEMMA Initially == Init => FInv
  <1> SUFFICES ASSUME Init PROVE FInv
    OBVIOUS
  <1>1. 0 \in 0 .. Word - 1 /\ 0 \in 0 .. SectorsPerCluster - 1 /\ RootLba \in 0 .. Word - 1
    <2>1. RootLba \in Nat /\ LbaOffset \in Nat /\ RootLba + LbaOffset < PartSize
          /\ PartSize \in 0 .. Word
      BY Fat32Assumption
    <2>2. QED
      BY <2>1, Fat32Assumption
  <1>2. Cells(RootLba) \in Buffers /\ Empty \in Buffers
    BY CellsInBuffers DEF Buffers
  <1>3. Files
    <2>1. root_directory \in FileType /\ root_directory.is_directory
      BY <1>1, <1>2 DEF Init, FileType
    <2>2. \A h \in Handles :
            opened_files[h] = [opened |-> FALSE, is_directory |-> FALSE, position |-> 0, size |-> 0,
              first_cluster |-> 0, current_cluster |-> 0, sector_in_clusteer |-> 0,
              buffer |-> Empty]
      BY DEF Init
    <2>3. \A h \in Handles : opened_files[h] \in FileType
      <3>1. PICK none : none = [opened |-> FALSE, is_directory |-> FALSE, position |-> 0,
              size |-> 0, first_cluster |-> 0, current_cluster |-> 0,
              sector_in_clusteer |-> 0, buffer |-> Empty]
        OBVIOUS
      <3>2. none \in FileType
        BY <1>1, <1>2, <3>1 DEF FileType
      <3>3. QED
        BY <2>2, <3>1, <3>2
    <2>4. \A h \in Handles : Within(opened_files[h])
      BY <2>2 DEF Within
    <2>5. opened_files \in [Handles -> FileType]
      BY <2>3 DEF Init
    <2>6. QED
      BY <2>1, <2>4, <2>5 DEF Files
  <1>4. CasheInv
    <2>1. PICK P \in Nat : P = Word - 1 /\ fat_cashe_position = P
      BY Fat32Assumption DEF Init
    <2>2. ASSUME NEW c \in DOMAIN Chains, NEW k \in DOMAIN Chains[c],
                 Chains[c][k] \div FatPerSector \in P .. P + CacheSize - 1
          PROVE  FALSE
      <3>1. PICK d \in Nat \ {0} : d = FatPerSector
        BY Fat32Assumption
      <3>2. PICK a \in Nat : a = Chains[c][k] /\ a < EndOfChain
        BY Fat32Assumption
      <3>3. PICK q \in Nat : q = a \div d /\ q * d <= a
        <4>1. a \div d \in Nat /\ a % d \in 0 .. d - 1 /\ a = (a \div d) * d + (a % d)
          BY Division
        <4>2. (a \div d) * d \in Int
          BY <4>1
        <4>3. (a \div d) * d <= a
          BY <4>1, <4>2
        <4>4. QED
          BY <4>1, <4>3
      <3>4. q <= q * d
        <4>1. PICK e \in Nat : d = 1 + e
          <5>1. d - 1 \in Nat /\ d = 1 + (d - 1)
            OBVIOUS
          <5>2. QED
            BY <5>1
        <4>2. q * (1 + e) = q + q * e /\ q * e >= 0
          OBVIOUS
        <4>3. QED
          BY <4>1, <4>2
      <3>5. q >= P
        BY <2>2, <3>1, <3>2, <3>3
      <3>6. PICK m \in Int : m = q * d
        BY <3>1, <3>3
      <3>7. q <= a
        BY <3>2, <3>3, <3>4, <3>6
      <3>8. a < P
        BY <2>1, <3>2, Fat32Assumption
      <3>9. QED
        BY <2>1, <3>2, <3>3, <3>5, <3>7, <3>8
    <2>3. HoldsChains(fat_cashe, fat_cashe_position)
      BY <2>1, <2>2 DEF HoldsChains
    <2>4. fat_cashe \in WindowType
      BY <1>1 DEF Init, WindowType
    <2>5. QED
      BY <2>1, <2>3, <2>4 DEF CasheInv
  <1>5. HandlesAccounted
    <2>1. \A h \in Handles : ~ opened_files[h].opened
      BY DEF Init
    <2>2. op.kind # "open" /\ held = {}
      BY DEF Init, Idle
    <2>3. QED
      BY <2>1, <2>2 DEF HandlesAccounted
  <1>6. Calls
    BY DEF Calls, Init, Idle
  <1>7. Ordered
    BY DEF Ordered, Init
  <1>8. QED
    BY <1>3, <1>4, <1>5, <1>6, <1>7 DEF FInv

LEMMA OpenKeeps == FInv /\ (\E path \in Paths : FAT_Open(path)) => FInv'
  <1> SUFFICES ASSUME FInv, NEW path \in Paths, FAT_Open(path) PROVE FInv'
    OBVIOUS
  <1>1. /\ op = Idle
        /\ UNCHANGED <<root_directory, opened_files, fat_cashe, fat_cashe_position, got>>
        /\ held' = held \/ held' = held \cup {Root}
        /\ op' = op \/ (op'.kind = "open" /\ op'.dir = Root)
    BY DEF FAT_Open, g_data
  <1>2. Files' /\ CasheInv'
    BY <1>1 DEF FInv, Files, CasheInv
  <1>3. HandlesAccounted'
    <2>1. /\ {h \in Handles : opened_files[h].opened} = held \ {Root}
          /\ op.kind # "open"
      BY <1>1 DEF FInv, HandlesAccounted, Idle
    <2>2. held' \ {Root} = held \ {Root}
      BY <1>1
    <2>3. QED
      BY <1>1, <2>1, <2>2 DEF HandlesAccounted
  <1>4. Calls'
    BY <1>1 DEF Calls, Idle
  <1>5. Ordered'
    BY <1>1 DEF FInv, Ordered
  <1>6. QED
    BY <1>2, <1>3, <1>4, <1>5 DEF FInv

LEMMA ReadStarts ==
  FInv /\ (\E h \in Handles \cup {Root}, n \in Lengths : fat_read(h, n)) => FInv'
  <1> SUFFICES ASSUME FInv, NEW h \in Handles \cup {Root}, NEW n \in Lengths, fat_read(h, n)
               PROVE  FInv'
    OBVIOUS
  <1>1. PICK left : left = Limit(File(h), n)
    OBVIOUS
  <1>2. /\ op = Idle /\ op' = [kind |-> "read", handle |-> h, left |-> left] /\ h \in held
        /\ UNCHANGED <<root_directory, opened_files, fat_cashe, fat_cashe_position, held, got>>
    BY <1>1 DEF fat_read, g_data
  <1>3. Files' /\ CasheInv'
    BY <1>2 DEF FInv, Files, CasheInv
  <1>4. HandlesAccounted'
    <2>1. op.kind # "open" /\ op'.kind # "open"
      BY <1>2 DEF Idle
    <2>2. QED
      BY <1>2, <2>1 DEF FInv, HandlesAccounted
  <1>5. Calls'
    <2>1. PICK fd \in FileType : fd = File(h) /\ fd = File(h)'
      <3>1. File(h) \in FileType /\ File(h)' = File(h)
        BY <1>2, AFile DEF FInv, File
      <3>2. QED
        BY <3>1
    <2>2. n \in Nat
      BY Fat32Assumption
    <2>3. left \in Int /\ (~ fd.is_directory => left <= fd.size - fd.position)
      BY <1>1, <2>1, <2>2, LimitWithin
    <2>4. op'.handle = h /\ op'.left = left /\ op'.kind = "read"
      BY <1>2
    <2>5. QED
      BY <1>2, <2>1, <2>3, <2>4 DEF Calls
  <1>6. Ordered'
    BY <1>2 DEF FInv, Ordered
  <1>7. QED
    BY <1>3, <1>4, <1>5, <1>6 DEF FInv

LEMMA ReturnKeeps == FInv /\ ReadReturns => FInv'
  <1> SUFFICES ASSUME FInv, ReadReturns PROVE FInv'
    OBVIOUS
  <1>1. /\ op.kind # "open" /\ op'.kind # "open" /\ op'.kind # "read"
        /\ UNCHANGED <<root_directory, opened_files, fat_cashe, fat_cashe_position, held, got>>
    BY DEF ReadReturns, g_data, Idle
  <1>2. Files' /\ CasheInv' /\ Calls' /\ Ordered'
    BY <1>1 DEF FInv, Files, CasheInv, Calls, Ordered
  <1>3. HandlesAccounted'
    BY <1>1 DEF FInv, HandlesAccounted
  <1>4. QED
    BY <1>2, <1>3 DEF FInv

LEMMA ClosedFile ==
  ASSUME NEW h, NEW old \in FileType, Within(old), h = Root => old.is_directory,
         NEW fd, fd = Closed(h, old)
  PROVE  /\ fd \in FileType /\ Within(fd) /\ fd.is_directory = old.is_directory
         /\ h # Root => ~ fd.opened
  <1>1. 0 \in 0 .. Word - 1
    BY Fat32Assumption
  <1>2. CASE h = Root
    BY <1>1, <1>2 DEF Closed, FileType, Within
  <1>3. CASE h # Root
    BY <1>3 DEF Closed, FileType, Within
  <1>4. QED
    BY <1>2, <1>3

LEMMA CloseKeeps == FInv /\ (\E h \in Handles \cup {Root} : FAT_Close(h)) => FInv'
  <1> SUFFICES ASSUME FInv, NEW h \in Handles \cup {Root}, FAT_Close(h) PROVE FInv'
    OBVIOUS
  <1>1. /\ op = Idle /\ op' = op /\ h \in held
        /\ held' = held \ {h} \/ (h = Root /\ held' = held)
        /\ got' = IF h = Root THEN got ELSE [got EXCEPT ![h] = <<>>]
        /\ UNCHANGED <<fat_cashe, fat_cashe_position>>
    BY DEF FAT_Close
  <1>2. PICK fd : fd = Closed(h, File(h))
    OBVIOUS
  <1>3. PICK old \in FileType : /\ old = File(h) /\ Within(old)
                                /\ h = Root => old.is_directory
    BY AFile DEF FInv
  <1>4. /\ fd \in FileType /\ Within(fd) /\ fd.is_directory = old.is_directory
        /\ h # Root => ~ fd.opened
    BY <1>2, <1>3, ClosedFile
  <1>5. Update(h, fd)
    BY <1>2 DEF FAT_Close
  <1>6. /\ Files'
        /\ \A g \in Handles : opened_files'[g] = IF g = h THEN fd ELSE opened_files[g]
    BY <1>3, <1>4, <1>5, Updated DEF FInv
  <1>7. CasheInv'
    BY <1>1 DEF FInv, CasheInv
  <1>8. held' \ {Root} = (held \ {Root}) \ {h} /\ held' \subseteq held
    BY <1>1
  <1>9. HandlesAccounted'
    <2>1. op.kind # "open" /\ op'.kind # "open"
      BY <1>1 DEF Idle
    <2>2. {g \in Handles : opened_files[g].opened} = held \ {Root}
      BY <2>1 DEF FInv, HandlesAccounted
    <2>3. {g \in Handles : opened_files'[g].opened} = (held \ {Root}) \ {h}
      <3>1. CASE h = Root
        BY <1>6, <2>2, <3>1, RootIsNoHandle
      <3>2. CASE h # Root
        BY <1>4, <1>6, <2>2, <3>2
      <3>3. QED
        BY <3>1, <3>2
    <2>4. QED
      BY <1>8, <2>1, <2>3 DEF HandlesAccounted
  <1>10. Calls'
    BY <1>1 DEF Calls, Idle
  <1>11. Ordered'
    <2>1. <<>> \in Seq(AllCells)
      OBVIOUS
    <2>2. held' \subseteq Handles \cup {Root} /\ got' \in [Handles -> Seq(AllCells)]
      BY <1>1, <1>8, <2>1 DEF FInv, Ordered
    <2>3. ASSUME NEW g \in held' \ {Root} PROVE InOrder(opened_files'[g], got'[g])
      <3>1. g \in held \ {Root} /\ g # h /\ g \in Handles
        BY <1>8 DEF FInv, Ordered
      <3>2. opened_files'[g] = opened_files[g] /\ got'[g] = got[g]
        BY <1>1, <1>6, <3>1 DEF FInv, Ordered
      <3>3. QED
        BY <3>1, <3>2 DEF FInv, Ordered
    <2>4. QED
      BY <2>2, <2>3 DEF Ordered
  <1>12. QED
    BY <1>6, <1>7, <1>9, <1>10, <1>11 DEF FInv

LEMMA ReadTurnKeeps == FInv /\ ReadTurn => FInv'
  <1> SUFFICES ASSUME FInv, ReadTurn PROVE FInv'
    OBVIOUS
  <1>1. PICK h : h = op.handle
    OBVIOUS
  <1>2. /\ op = [kind |-> "read", handle |-> h, left |-> op.left] /\ op.left \in Nat \ {0}
        /\ h \in Handles \cup {Root} /\ h \in held
    <2>1. op.kind = "read" /\ op.left > 0
      BY DEF ReadTurn
    <2>2. op = [kind |-> "read", handle |-> h, left |-> op.left] /\ op.left \in Int /\ h \in held
      BY <1>1, <2>1 DEF FInv, Calls
    <2>3. QED
      BY <2>1, <2>2 DEF FInv, Ordered
  <1>3. PICK old \in FileType : /\ old = File(h) /\ Within(old)
                                /\ h = Root => old.is_directory
                                /\ h # Root => old = opened_files[h]
    BY <1>2, AFile DEF FInv, File
  <1>4. PICK left \in Nat \ {0} : left = op.left
    BY <1>2
  <1>5. ~ old.is_directory => left <= old.size - old.position
    BY <1>1, <1>2, <1>3, <1>4 DEF FInv, Calls
  <1>6. LeftInBuffer(old) \in 1 .. SectorSize
    BY <1>3, OffsetInBuffer
  <1>7. PICK n \in Nat \ {0} : n = Min({op.left, LeftInBuffer(File(h))})
                               /\ n <= left /\ n <= LeftInBuffer(old)
    <2>1. PICK b \in Nat \ {0} : b = LeftInBuffer(old)
      BY <1>6, Fat32Assumption
    <2>2. Min({left, b}) \in Int /\ Min({left, b}) <= left /\ Min({left, b}) <= b
          /\ Min({left, b}) \in {left, b}
      BY MinOfTwo, SMTT(100)
    <2>3. QED
      BY <1>3, <1>4, <2>1, <2>2
  <1>8. PICK t : t = Take(h, n)
    OBVIOUS
  <1>9. PICK now : now = Taken(File(h), n)
    OBVIOUS
  <1>10. /\ Update(h, t.fd) /\ SetCashe(t.cashe)
         /\ got' = IF File(h).is_directory THEN got ELSE [got EXCEPT ![h] = @ \o now]
         /\ op' = [op EXCEPT !.left = IF t.ok THEN op.left - n ELSE 0]
         /\ held' = held
    BY <1>1, <1>7, <1>8, <1>9, Zenon DEF ReadTurn
  <1>11. n \in Nat /\ (~ old.is_directory => n <= old.size - old.position)
    <2>1. old.size \in Int /\ old.position \in Int
      BY <1>3 DEF FileType
    <2>2. QED
      BY <1>4, <1>5, <1>7, <2>1
  <1>12. /\ t.fd \in FileType /\ SameFile(t.fd, old)
         /\ t.cashe.cells \in WindowType /\ t.cashe.at \in Nat
         /\ HoldsChains(t.cashe.cells, t.cashe.at)
         /\ t.ok => t.fd.size = old.size
    <2>1. CasheInv /\ old \in FileType /\ old = File(h) /\ n \in Nat /\ t = Take(h, n)
      BY <1>3, <1>8, <1>11 DEF FInv
    <2>2. QED
      BY <2>1, TakeKeeps
  <1>13. Within(t.fd) /\ (~ old.is_directory => t.fd.position = old.position + n)
    <2>1. /\ CasheInv /\ old \in FileType /\ old = File(h) /\ n \in Nat /\ t = Take(h, n)
          /\ Within(old) /\ (~ old.is_directory => n <= old.size - old.position)
      BY <1>3, <1>8, <1>11 DEF FInv
    <2>2. QED
      BY <2>1, TakeWithin
  <1>14. /\ Files' /\ File(h)' = t.fd
         /\ \A g \in Handles : opened_files'[g] = IF g = h THEN t.fd ELSE opened_files[g]
    <2>1. h = Root => t.fd.is_directory
      BY <1>3, <1>12 DEF SameFile
    <2>2. QED
      BY <1>2, <1>10, <1>12, <1>13, <2>1, Updated DEF FInv
  <1>15. CasheInv'
    <2>1. fat_cashe' = t.cashe.cells /\ fat_cashe_position' = t.cashe.at
      BY <1>10 DEF SetCashe
    <2>2. QED
      BY <1>12, <2>1 DEF CasheInv
  <1>16. PICK rest \in Int : /\ op' = [kind |-> "read", handle |-> h, left |-> rest]
                             /\ (rest = left - n /\ t.ok) \/ rest = 0
    <2>1. op' = [kind |-> "read", handle |-> h, left |-> IF t.ok THEN left - n ELSE 0]
      BY <1>2, <1>4, <1>10
    <2>2. (IF t.ok THEN left - n ELSE 0) \in Int
      BY <1>4, <1>7
    <2>3. QED
      BY <2>1, <2>2
  <1>17. HandlesAccounted'
    <2>1. op.kind # "open" /\ op'.kind # "open"
      BY <1>2, <1>16
    <2>2. {g \in Handles : opened_files'[g].opened} = {g \in Handles : opened_files[g].opened}
      BY <1>3, <1>12, <1>14, RootIsNoHandle DEF SameFile
    <2>3. QED
      BY <1>10, <2>1, <2>2 DEF FInv, HandlesAccounted
  <1>18. Calls'
    <2>1. op'.kind = "read" /\ op'.handle = h /\ op'.left = rest
      BY <1>16
    <2>2. ASSUME ~ t.fd.is_directory PROVE rest <= t.fd.size - t.fd.position
      <3>1. ~ old.is_directory
        BY <1>12, <2>2 DEF SameFile
      <3>2. old.size \in Int /\ old.position \in Int /\ t.fd.size \in Int /\ t.fd.position \in Int
        BY <1>3, <1>12 DEF FileType
      <3>3. CASE rest = left - n /\ t.ok
        <4>1. t.fd.size = old.size /\ t.fd.position = old.position + n
          BY <1>12, <1>13, <3>1, <3>3
        <4>2. QED
          BY <1>4, <1>5, <1>7, <3>1, <3>2, <3>3, <4>1
      <3>4. CASE rest = 0
        BY <1>13, <2>2, <3>2, <3>4 DEF Within
      <3>5. QED
        BY <1>16, <3>3, <3>4
    <2>3. QED
      BY <1>2, <1>10, <1>14, <1>16, <2>1, <2>2 DEF Calls
  <1>19. Ordered'
    <2>1. CASE old.is_directory
      <3>1. got' = got /\ held' = held
        BY <1>3, <1>10, <2>1
      <3>2. ASSUME NEW g \in held \ {Root} PROVE InOrder(opened_files'[g], got[g])
        <4>1. g \in Handles /\ InOrder(opened_files[g], got[g])
          BY DEF FInv, Ordered
        <4>2. CASE g = h
          BY <1>12, <1>14, <2>1, <4>1, <4>2 DEF SameFile, InOrder
        <4>3. CASE g # h
          BY <1>14, <4>1, <4>3
        <4>4. QED
          BY <4>2, <4>3
      <3>3. QED
        BY <3>1, <3>2 DEF FInv, Ordered
    <2>2. CASE ~ old.is_directory
      <3>1. h # Root /\ h \in Handles /\ h \in held \ {Root}
        BY <1>2, <1>3, <2>2
      <3>2. now \in Seq(AllCells)
        <4>1. PICK o \in 0 .. SectorSize - 1 : o = old.position % SectorSize
          BY <1>3, OffsetInBuffer
        <4>2. QED
          BY <1>3, <1>7, <1>9, <1>11, <4>1, TakenCells
      <3>3. PICK bytes \in Seq(AllCells) : bytes = got[h]
        BY <3>1 DEF FInv, Ordered
      <3>4. bytes \o now \in Seq(AllCells)
        BY <3>2, <3>3
      <3>5. got' = [got EXCEPT ![h] = bytes \o now]
        BY <1>3, <1>10, <2>2, <3>3
      <3>6. \A g \in Handles : got'[g] = IF g = h THEN bytes \o now ELSE got[g]
        BY <3>5 DEF FInv, Ordered
      <3>7. got' \in [Handles -> Seq(AllCells)]
        BY <3>1, <3>4, <3>5 DEF FInv, Ordered
      <3>8. InOrder(old, bytes)
        BY <1>3, <3>1, <3>3 DEF FInv, Ordered
      <3>9. now = Taken(old, n)
        BY <1>3, <1>9
      <3>10. InOrder(t.fd, bytes \o now)
        BY <1>3, <1>7, <1>8, <1>11, <2>2, <3>1, <3>3, <3>8, <3>9, TurnKeepsOrder DEF FInv
      <3>11. ASSUME NEW g \in held' \ {Root} PROVE InOrder(opened_files'[g], got'[g])
        <4>1. g \in held \ {Root} /\ g \in Handles
          BY <1>10 DEF FInv, Ordered
        <4>2. CASE g = h
          BY <1>14, <3>6, <3>10, <4>1, <4>2
        <4>3. CASE g # h
          BY <1>14, <3>6, <4>1, <4>3 DEF FInv, Ordered
        <4>4. QED
          BY <4>2, <4>3
      <3>12. QED
        BY <1>10, <3>7, <3>11 DEF FInv, Ordered
    <2>3. QED
      BY <2>1, <2>2
  <1>20. QED
    BY <1>14, <1>15, <1>17, <1>18, <1>19 DEF FInv

(* A turn of a search moves the directory's handle and the window.         *)
LEMMA SearchTurn ==
  ASSUME FInv, op.kind = "open", NEW d, d = op.dir, Limit(File(d), 1) = 1,
         NEW t, t = Take(d, 1)
  PROVE  /\ d \in Handles \cup {Root}
         /\ t.fd \in FileType /\ SameFile(t.fd, File(d)) /\ Within(t.fd)
         /\ d = Root => t.fd.is_directory
         /\ t.cashe.cells \in WindowType /\ t.cashe.at \in Nat
         /\ HoldsChains(t.cashe.cells, t.cashe.at)
  <1>1. d \in Handles \cup {Root}
    BY DEF FInv, Calls
  <1>2. PICK old \in FileType : /\ old = File(d) /\ Within(old)
                                /\ d = Root => old.is_directory
    BY <1>1, AFile DEF FInv
  <1>3. ~ old.is_directory => 1 <= old.size - old.position
    BY <1>2, LimitWithin
  <1>4. CasheInv /\ old \in FileType /\ old = File(d) /\ 1 \in Nat /\ t = Take(d, 1)
    BY <1>2 DEF FInv
  <1>5. /\ t.fd \in FileType /\ SameFile(t.fd, old)
        /\ t.cashe.cells \in WindowType /\ t.cashe.at \in Nat
        /\ HoldsChains(t.cashe.cells, t.cashe.at)
    BY <1>4, TakeKeeps
  <1>6. Within(t.fd)
    BY <1>2, <1>3, <1>4, TakeWithin
  <1>7. QED
    BY <1>1, <1>2, <1>5, <1>6 DEF SameFile

LEMMA SearchKeeps == FInv /\ SearchEntry => FInv'
  <1> SUFFICES ASSUME FInv, SearchEntry PROVE FInv'
    OBVIOUS
  <1>1. PICK d : d = op.dir
    OBVIOUS
  <1>2. PICK t : t = Take(d, 1)
    OBVIOUS
  <1>3. op.kind = "open" /\ Limit(File(d), 1) = 1 /\ Update(d, t.fd) /\ SetCashe(t.cashe)
    BY <1>1, <1>2, Zenon DEF SearchEntry
  <1>4. op' = op /\ held' = held /\ got' = got
    BY DEF SearchEntry
  <1>5. /\ d \in Handles \cup {Root}
        /\ t.fd \in FileType /\ SameFile(t.fd, File(d)) /\ Within(t.fd)
        /\ d = Root => t.fd.is_directory
        /\ t.cashe.cells \in WindowType /\ t.cashe.at \in Nat
        /\ HoldsChains(t.cashe.cells, t.cashe.at)
    BY <1>1, <1>2, <1>3, SearchTurn
  <1>6. /\ Files'
        /\ \A g \in Handles : opened_files'[g] = IF g = d THEN t.fd ELSE opened_files[g]
    BY <1>3, <1>5, Updated DEF FInv
  <1>7. CasheInv'
    BY <1>3, <1>5 DEF SetCashe, CasheInv
  <1>8. \A g \in Handles : opened_files'[g].opened = opened_files[g].opened
    <2>1. ASSUME d \in Handles PROVE File(d) = opened_files[d]
      BY <2>1, RootIsNoHandle DEF File
    <2>2. QED
      BY <1>5, <1>6, <2>1 DEF SameFile
  <1>9. HandlesAccounted'
    BY <1>4, <1>8 DEF FInv, HandlesAccounted
  <1>10. Calls'
    BY <1>3, <1>4 DEF FInv, Calls
  <1>11. Ordered'
    <2>1. \A h \in held \ {Root} : h \in Handles /\ h # d
      BY <1>1, <1>3 DEF FInv, Ordered, HandlesAccounted
    <2>2. \A h \in held \ {Root} : opened_files'[h] = opened_files[h]
      BY <1>6, <2>1
    <2>3. QED
      BY <1>4, <2>2 DEF FInv, Ordered
  <1>12. QED
    BY <1>6, <1>7, <1>9, <1>10, <1>11 DEF FInv

LEMMA NotFoundKeeps == FInv /\ NotFound => FInv'
  <1> SUFFICES ASSUME FInv, NotFound PROVE FInv'
    OBVIOUS
  <1>1. PICK d : d = op.dir
    OBVIOUS
  <1>2. PICK closed : closed = Closed(d, File(d))
    OBVIOUS
  <1>3. /\ op.kind = "open" /\ Update(d, closed) /\ op' = Idle
        /\ held' = held /\ got' = got
        /\ UNCHANGED <<fat_cashe, fat_cashe_position>>
    BY <1>1, <1>2 DEF NotFound
  <1>4. d \in Handles \cup {Root}
    BY <1>1, <1>3 DEF FInv, Calls
  <1>5. PICK old \in FileType : /\ old = File(d) /\ Within(old)
                                /\ d = Root => old.is_directory
    BY <1>4, AFile DEF FInv
  <1>6. /\ closed \in FileType /\ Within(closed) /\ closed.is_directory = old.is_directory
        /\ d # Root => ~ closed.opened
    BY <1>2, <1>5, ClosedFile
  <1>7. /\ Files'
        /\ \A g \in Handles : opened_files'[g] = IF g = d THEN closed ELSE opened_files[g]
    BY <1>3, <1>4, <1>5, <1>6, Updated DEF FInv
  <1>8. CasheInv'
    BY <1>3 DEF FInv, CasheInv
  <1>9. {g \in Handles : opened_files[g].opened} = (held \ {Root}) \cup ({d} \ {Root})
        /\ held \cap ({d} \ {Root}) = {}
    BY <1>1, <1>3 DEF FInv, HandlesAccounted
  <1>10. HandlesAccounted'
    <2>1. {g \in Handles : opened_files'[g].opened} = held \ {Root}
      BY <1>6, <1>7, <1>9, RootIsNoHandle
    <2>2. op'.kind # "open"
      BY <1>3 DEF Idle
    <2>3. QED
      BY <1>3, <2>1, <2>2 DEF HandlesAccounted
  <1>11. Calls'
    BY <1>3 DEF Calls, Idle
  <1>12. Ordered'
    <2>1. \A h \in held \ {Root} : h \in Handles /\ h # d
      BY <1>9 DEF FInv, Ordered
    <2>2. \A h \in held \ {Root} : opened_files'[h] = opened_files[h]
      BY <1>7, <2>1
    <2>3. QED
      BY <1>3, <2>2 DEF FInv, Ordered
  <1>13. QED
    BY <1>7, <1>8, <1>10, <1>11, <1>12 DEF FInv

(* A handle that an entry has been opened on is at the start of the file.  *)
LEMMA OpenedFile ==
  ASSUME NEW old \in FileType, NEW entry, WellFormedEntry(entry),
         NEW fd, fd = Opened(old, entry)
  PROVE  fd \in FileType /\ Within(fd) /\ (fd.opened => InOrder(fd, <<>>))
  <1>1. PICK lba : lba = cluster_to_lba(entry.cluster)
    OBVIOUS
  <1>2. PICK buffer \in Buffers : buffer = IF Readable(lba) THEN Cells(lba) ELSE old.buffer
    BY CellsInBuffers DEF FileType
  <1>3. PICK opened \in BOOLEAN : opened = Readable(lba)
    <2>1. Readable(lba) \in BOOLEAN
      BY DEF Readable
    <2>2. QED
      BY <2>1
  <1>4. fd = [opened |-> opened, is_directory |-> entry.dir, position |-> 0,
              size |-> entry.size, first_cluster |-> entry.cluster,
              current_cluster |-> entry.cluster, sector_in_clusteer |-> 0,
              buffer |-> buffer]
    <2>1. fd = [old EXCEPT !.is_directory = entry.dir, !.position = 0, !.size = entry.size,
                  !.first_cluster = entry.cluster, !.current_cluster = entry.cluster,
                  !.sector_in_clusteer = 0, !.opened = opened, !.buffer = buffer]
      BY <1>1, <1>2, <1>3 DEF Opened
    <2>2. QED
      BY <2>1 DEF FileType
  <1>5. /\ entry.dir \in BOOLEAN /\ entry.size \in 0 .. Word - 1
        /\ entry.cluster \in 0 .. Word - 1 /\ 0 \in 0 .. Word - 1
        /\ 0 \in 0 .. SectorsPerCluster - 1
    BY Fat32Assumption DEF WellFormedEntry
  <1>6. fd \in FileType
    BY <1>2, <1>3, <1>4, <1>5 DEF FileType
  <1>7. Within(fd)
    BY <1>4, <1>5, Fat32Assumption DEF Within
  <1>8. ASSUME fd.opened, ~ fd.is_directory PROVE FileFits(fd) /\ InPlace(fd)
    <2>1. Readable(lba) /\ buffer = Cells(lba)
      BY <1>2, <1>3, <1>4, <1>8
    <2>2. ~ entry.dir
      BY <1>4, <1>8
    <2>3. FileFits(fd)
      BY <1>4, <2>2 DEF FileFits, WellFormedEntry
    <2>4. ASSUME fd.position < fd.size
          PROVE  \E k \in 1 .. Len(Chains[fd.first_cluster]), s \in 0 .. SectorsPerCluster - 1,
                    o \in 0 .. SectorSize - 1 : At(fd, k, s, o)
      <3>1. PICK c : c = entry.cluster
        OBVIOUS
      <3>2. c \in DOMAIN Chains
        BY <1>4, <2>2, <2>4, <3>1 DEF WellFormedEntry
      <3>3. Chains[c][1] = c /\ Len(Chains[c]) \in Nat \ {0}
        BY <3>2, Fat32Assumption
      <3>4. lba = SectorOf(c, 1, 0)
        <4>1. PICK x \in Int : x = DataLba + (c - 2) * SectorsPerCluster
          <5>1. DataLba \in Int /\ c - 2 \in Int /\ SectorsPerCluster \in Int
            BY <1>5, <3>1, Fat32Assumption
          <5>2. (c - 2) * SectorsPerCluster \in Int
            BY <5>1
          <5>3. QED
            BY <5>1, <5>2
        <4>2. x % Word \in 0 .. Word - 1
          BY InWord
        <4>3. lba \in 0 .. Word - 1 /\ lba = cluster_to_lba(Chains[c][1])
          BY <1>1, <3>1, <3>3, <4>1, <4>2 DEF cluster_to_lba
        <4>4. lba + 0 = lba /\ lba % Word = lba
          BY <4>3, SmallMod
        <4>5. QED
          BY <4>3, <4>4 DEF SectorOf
      <3>5. Buffered(fd, c, 1, 0)
        BY <1>4, <2>1, <3>1, <3>3, <3>4 DEF Buffered
      <3>6. fd.position = ((1 - 1) * SectorsPerCluster + 0) * SectorSize + 0
        BY <1>4, Fat32Assumption
      <3>7. At(fd, 1, 0, 0)
        BY <1>4, <3>1, <3>5, <3>6 DEF At
      <3>8. /\ 1 \in 1 .. Len(Chains[fd.first_cluster])
            /\ 0 \in 0 .. SectorsPerCluster - 1 /\ 0 \in 0 .. SectorSize - 1
        <4>1. fd.first_cluster = c
          BY <1>4, <3>1
        <4>2. 1 \in 1 .. Len(Chains[c])
          BY <3>3
        <4>3. 0 \in 0 .. SectorsPerCluster - 1 /\ 0 \in 0 .. SectorSize - 1
          BY Fat32Assumption
        <4>4. QED
          BY <4>1, <4>2, <4>3
      <3>9. QED
        BY <3>7, <3>8
    <2>5. QED
      BY <2>3, <2>4 DEF InPlace
  <1>9. Len(<<>>) = fd.position
    BY <1>4
  <1>10. QED
    BY <1>6, <1>7, <1>8, <1>9 DEF InOrder

LEMMA FreeHandle ==
  ASSUME NEW files, Free(files) # {}, NEW h, h = Min(Free(files))
  PROVE  h \in Handles /\ ~ files[h].opened
  <1>1. Free(files) \subseteq Nat
    BY DEF Free, Handles
  <1>2. \E x \in Free(files) : \A y \in Free(files) : x <= y
    BY <1>1, NatMin
  <1>3. h \in Free(files)
    BY <1>2 DEF Min
  <1>4. QED
    BY <1>3 DEF Free

(* The directory that was searched is closed and the entry opened on a     *)
(* handle that was free, which the caller gets or the search goes on in.   *)
LEMMA FoundKeeps == FInv /\ Found => FInv'
  <1> SUFFICES ASSUME FInv, Found PROVE FInv'
    OBVIOUS
  <1>1. PICK d : d = op.dir
    OBVIOUS
  <1>2. PICK t : t = Take(d, 1)
    OBVIOUS
  <1>3. PICK entry : entry = Taken(File(d), 1)[1]
    OBVIOUS
  <1>4. PICK closed : closed = Closed(d, t.fd)
    OBVIOUS
  <1>5. PICK files : files = IF d = Root THEN opened_files
                             ELSE [opened_files EXCEPT ![d] = closed]
    OBVIOUS
  <1>6. PICK h : h = IF Free(files) = {} THEN nullptr ELSE Min(Free(files))
    OBVIOUS
  <1>7. PICK opened : opened = IF h = nullptr THEN files
                               ELSE [files EXCEPT ![h] = Opened(@, entry)]
    OBVIOUS
  <1>a. PICK stuck \in BOOLEAN : stuck = ((Len(op.rest) # 1 \/ op.slash) /\ ~ entry.dir)
    OBVIOUS
  <1>b. PICK ok \in BOOLEAN : ok = (h # nullptr /\ opened[h].opened)
    OBVIOUS
  <1>8. /\ op.kind = "open" /\ Limit(File(d), 1) = 1
        /\ IsEntry(entry)
        /\ root_directory' = IF d = Root THEN closed ELSE root_directory
        /\ SetCashe(t.cashe)
        /\ IF stuck
           THEN opened_files' = files /\ op' = Idle /\ UNCHANGED <<held, got>>
           ELSE /\ opened_files' = opened
                /\ IF Len(op.rest) = 1
                   THEN /\ op' = Idle
                        /\ held' = IF ok THEN held \cup {h} ELSE held
                        /\ got' = IF ok THEN [got EXCEPT ![h] = <<>>] ELSE got
                   ELSE /\ UNCHANGED <<held, got>>
                        /\ IF ok
                           THEN \E short \in ShortNames[op.rest[2]] :
                                  op' = [kind |-> "open", dir |-> h, rest |-> Tail(op.rest),
                                         slash |-> op.slash, short |-> short]
                           ELSE op' = [kind |-> "halted"]
    BY <1>1, <1>2, <1>3, <1>4, <1>5, <1>6, <1>7, <1>a, <1>b, Zenon DEF Found
  <1>9. /\ d \in Handles \cup {Root}
        /\ t.fd \in FileType /\ SameFile(t.fd, File(d)) /\ Within(t.fd)
        /\ d = Root => t.fd.is_directory
        /\ t.cashe.cells \in WindowType /\ t.cashe.at \in Nat
        /\ HoldsChains(t.cashe.cells, t.cashe.at)
    BY <1>1, <1>2, <1>8, SearchTurn
  <1>10. /\ closed \in FileType /\ Within(closed) /\ closed.is_directory = t.fd.is_directory
         /\ d # Root => ~ closed.opened
    BY <1>4, <1>9, ClosedFile
  <1>11. root_directory' \in FileType /\ root_directory'.is_directory
    BY <1>8, <1>9, <1>10 DEF FInv, Files
  <1>12. CasheInv'
    BY <1>8, <1>9 DEF SetCashe, CasheInv
  <1>13. /\ files \in [Handles -> FileType]
         /\ \A g \in Handles : files[g] = IF g = d THEN closed ELSE opened_files[g]
    BY <1>5, <1>9, <1>10, RootIsNoHandle DEF FInv, Files
  <1>14. \A g \in Handles : Within(files[g])
    BY <1>10, <1>13 DEF FInv, Files
  <1>15. /\ {g \in Handles : opened_files[g].opened} = (held \ {Root}) \cup ({d} \ {Root})
         /\ held \cap ({d} \ {Root}) = {} /\ held \subseteq Handles \cup {Root}
    BY <1>1, <1>8 DEF FInv, HandlesAccounted, Ordered
  <1>16. {g \in Handles : files[g].opened} = held \ {Root}
    BY <1>10, <1>13, <1>15, RootIsNoHandle
  <1>17. \A g \in held \ {Root} : g \in Handles /\ g # d /\ files[g] = opened_files[g]
    BY <1>13, <1>15, RootIsNoHandle
  <1>18. \A g \in held \ {Root} : InOrder(files[g], got[g])
    BY <1>17 DEF FInv, Ordered
  <1>19. got \in [Handles -> Seq(AllCells)]
    BY DEF FInv, Ordered
  <1>20. ASSUME opened_files' = files, held' = held, got' = got,
                op'.kind # "open", op'.kind # "read"
         PROVE  FInv'
    <2>1. Files'
      BY <1>11, <1>13, <1>14, <1>20 DEF Files
    <2>2. HandlesAccounted'
      BY <1>16, <1>20 DEF HandlesAccounted
    <2>3. Calls' /\ Ordered'
      BY <1>15, <1>18, <1>19, <1>20 DEF Calls, Ordered
    <2>4. QED
      BY <1>12, <2>1, <2>2, <2>3 DEF FInv
  <1>21. CASE stuck
    <2>1. op'.kind = "idle" /\ opened_files' = files /\ held' = held /\ got' = got
      BY <1>8, <1>21 DEF Idle
    <2>2. QED
      BY <1>20, <2>1
  <1>22. CASE ~ stuck /\ Free(files) = {}
    <2>1. h = nullptr /\ opened = files
      BY <1>6, <1>7, <1>22
    <2>2. /\ op'.kind = "idle" \/ op'.kind = "halted"
          /\ opened_files' = files /\ held' = held /\ got' = got
      BY <1>8, <1>22, <1>b, <2>1 DEF Idle
    <2>3. QED
      BY <1>20, <2>2
  <1>23. CASE ~ stuck /\ Free(files) # {}
    <2>1. h \in Handles /\ ~ files[h].opened /\ h # nullptr
      BY <1>6, <1>23, FreeHandle, RootIsNoHandle
    <2>2. WellFormedEntry(entry)
      <3>1. PICK old \in FileType : old = File(d)
        BY <1>9, AFile DEF FInv
      <3>2. PICK o \in 0 .. SectorSize - 1 : o = old.position % SectorSize
        BY <3>1, OffsetInBuffer
      <3>3. entry = old.buffer[o + 1] /\ old.buffer \in Buffers /\ o + 1 \in 1 .. SectorSize
        BY <1>3, <3>1, <3>2, Fat32Assumption DEF Taken, FileType
      <3>4. QED
        BY <1>8, <3>3, BufferEntries
    <2>3. PICK new : new = Opened(files[h], entry)
      OBVIOUS
    <2>4. new \in FileType /\ Within(new) /\ (new.opened => InOrder(new, <<>>))
      BY <1>13, <2>1, <2>2, <2>3, OpenedFile
    <2>5. opened = [files EXCEPT ![h] = new]
      BY <1>7, <2>1, <2>3
    <2>6. /\ opened \in [Handles -> FileType]
          /\ \A g \in Handles : opened[g] = IF g = h THEN new ELSE files[g]
      BY <1>13, <2>1, <2>4, <2>5
    <2>7. \A g \in Handles : Within(opened[g])
      BY <1>14, <2>4, <2>6
    <2>8. opened_files' = opened
      BY <1>8, <1>23
    <2>9. Files'
      BY <1>11, <2>6, <2>7, <2>8 DEF Files
    <2>10. h \notin held
      BY <1>16, <2>1, RootIsNoHandle
    <2>11. \A g \in held \ {Root} : InOrder(opened[g], got[g])
      BY <1>15, <1>18, <2>6, <2>10
    <2>12. CASE ~ new.opened
      <3>1. ~ ok
        BY <1>b, <2>1, <2>6, <2>12
      <3>2. held' = held /\ got' = got /\ op'.kind # "open" /\ op'.kind # "read"
        BY <1>8, <1>23, <2>1, <3>1 DEF Idle
      <3>3. {g \in Handles : opened_files'[g].opened} = held \ {Root}
        BY <1>16, <2>1, <2>6, <2>8, <2>12
      <3>4. HandlesAccounted'
        BY <3>2, <3>3 DEF HandlesAccounted
      <3>5. Calls' /\ Ordered'
        BY <1>15, <1>19, <2>8, <2>11, <3>2 DEF Calls, Ordered
      <3>6. QED
        BY <1>12, <2>9, <3>4, <3>5 DEF FInv
    <2>13. CASE new.opened
      <3>1. ok
        BY <1>b, <2>1, <2>6, <2>13
      <3>2. {g \in Handles : opened_files'[g].opened} = (held \ {Root}) \cup {h}
        BY <1>16, <2>1, <2>6, <2>8, <2>13
      <3>3. CASE Len(op.rest) = 1
        <4>1. /\ op'.kind = "idle" /\ held' = held \cup {h}
              /\ got' = [got EXCEPT ![h] = <<>>]
          <5>1. op' = Idle /\ held' = held \cup {h} /\ got' = [got EXCEPT ![h] = <<>>]
            BY <1>8, <1>23, <3>1, <3>3, Zenon
          <5>2. QED
            BY <5>1 DEF Idle
        <4>2. HandlesAccounted' /\ Calls'
          BY <2>1, <3>2, <4>1, RootIsNoHandle DEF HandlesAccounted, Calls
        <4>3. /\ got' \in [Handles -> Seq(AllCells)]
              /\ \A g \in Handles : got'[g] = IF g = h THEN <<>> ELSE got[g]
          <5>1. <<>> \in Seq(AllCells)
            OBVIOUS
          <5>2. QED
            BY <1>19, <4>1, <5>1
        <4>4. ASSUME NEW g \in held' \ {Root} PROVE InOrder(opened_files'[g], got'[g])
          <5>1. CASE g = h
            BY <2>1, <2>4, <2>6, <2>8, <2>13, <4>3, <5>1
          <5>2. CASE g # h
            <6>1. g \in held \ {Root} /\ g \in Handles
              BY <1>15, <4>1, <5>2
            <6>2. got'[g] = got[g] /\ opened_files'[g] = opened[g]
              BY <2>8, <4>3, <5>2, <6>1
            <6>3. QED
              BY <2>11, <6>1, <6>2
          <5>3. QED
            BY <5>1, <5>2
        <4>5. Ordered'
          BY <1>15, <2>1, <4>1, <4>3, <4>4 DEF Ordered
        <4>6. QED
          BY <1>12, <2>9, <4>2, <4>5 DEF FInv
      <3>4. CASE Len(op.rest) # 1
        <4>1. /\ held' = held /\ got' = got
              /\ \E short : op' = [kind |-> "open", dir |-> h, rest |-> Tail(op.rest),
                                   slash |-> op.slash, short |-> short]
          BY <1>8, <1>23, <2>1, <3>1, <3>4
        <4>2. op'.kind = "open" /\ op'.dir = h /\ held' = held /\ got' = got
          BY <4>1
        <4>3. HandlesAccounted'
          <5>1. {h} \ {Root} = {h}
            BY <2>1, RootIsNoHandle
          <5>2. QED
            BY <2>10, <3>2, <4>2, <5>1 DEF HandlesAccounted
        <4>4. Calls' /\ Ordered'
          BY <1>15, <1>19, <2>1, <2>8, <2>11, <4>2 DEF Calls, Ordered
        <4>5. QED
          BY <1>12, <2>9, <4>3, <4>4 DEF FInv
      <3>5. QED
        BY <3>3, <3>4
    <2>14. QED
      BY <2>12, <2>13
  <1>24. QED
    BY <1>21, <1>22, <1>23

LEMMA Stutters == FInv /\ UNCHANGED vars => FInv'
  BY DEF FInv, Files, File, CasheInv, HandlesAccounted, Calls, Ordered, vars, g_data

LEMMA Inductive == Spec => []FInv
  <1>1. FInv /\ [Next]_vars => FInv'
    BY OpenKeeps, CloseKeeps, ReadStarts, ReadTurnKeeps, ReturnKeeps, SearchKeeps,
       NotFoundKeeps, FoundKeeps, Stutters DEF Next, Turn
  <1>2. QED
    BY Initially, <1>1, PTL DEF Spec

-----------------------------------------------------------------------------
(* fat_read: positions stay within the file and within 32 bits, clusters   *)
(* and sectors are of their ranges, whatever is opened, read and closed.   *)
THEOREM HandlesKeepTypes == Spec => []TypeOK
  <1>1. FInv => TypeOK
    <2> SUFFICES ASSUME FInv PROVE TypeOK
      OBVIOUS
    <2>1. ASSUME NEW h \in Handles \cup {Root}
          PROVE  /\ File(h).position \in 0 .. Word - 1 /\ File(h).size \in 0 .. Word - 1
                 /\ File(h).sector_in_clusteer \in 0 .. SectorsPerCluster - 1
                 /\ File(h).current_cluster \in 0 .. Word - 1
                 /\ ~ File(h).is_directory => File(h).position <= File(h).size
      <3>1. PICK fd \in FileType : fd = File(h) /\ Within(fd)
        BY AFile DEF FInv
      <3>2. QED
        BY <3>1 DEF FileType, Within
    <2>2. DOMAIN fat_cashe = 0 .. CacheSize * FatPerSector - 1
      BY DEF FInv, CasheInv, WindowType
    <2>3. QED
      BY <2>1, <2>2 DEF FInv, Ordered, TypeOK
  <1>2. QED
    BY <1>1, Inductive, PTL

(* fat_next_cluster: the window of the table that all handles share holds  *)
(* no wrong value for a cluster of a file, also after a refused read has   *)
(* relabelled it.                                                          *)
THEOREM CasheNeverLies == Spec => []CasheHolds
  <1>1. FInv => CasheHolds
    BY DEF FInv, CasheInv, HoldsChains, CasheHolds, Cached
  <1>2. QED
    BY <1>1, Inductive, PTL

(* FAT_Open, FAT_Close: a handle other than the root's is open exactly as  *)
(* long as a caller has it or a search is in its directory.                *)
THEOREM NoHandleLost == Spec => []HandlesAccounted
  <1>1. FInv => HandlesAccounted
    BY DEF FInv
  <1>2. QED
    BY <1>1, Inductive, PTL

(* fat_read: every file gives its own bytes in their order, whatever the   *)
(* sizes of the reads and however those of several files alternate, for    *)
(* every lba_offset: all that are on sectors the partition check lets      *)
(* through, also behind one that it refuses.                               *)
THEOREM FilesReadInOrder == Spec => []BytesInOrder
  <1>1. FInv => BytesInOrder
    <2> SUFFICES ASSUME FInv, NEW h \in held \ {Root}, ~ File(h).is_directory
                 PROVE  /\ Len(got[h]) = File(h).position
                        /\ \A i \in DOMAIN got[h] :
                             Readable(LbaOf(File(h).first_cluster, i - 1))
                               => got[h][i] = CellAt(File(h).first_cluster, i - 1)
      BY DEF BytesInOrder
    <2>1. h \in Handles /\ File(h) = opened_files[h] /\ InOrder(opened_files[h], got[h])
          /\ got[h] \in Seq(AllCells)
      BY RootIsNoHandle DEF FInv, Ordered, File
    <2>2. DOMAIN got[h] = 1 .. Len(got[h])
      BY <2>1
    <2>3. QED
      BY <2>1, <2>2 DEF InOrder
  <1>2. QED
    BY <1>1, Inductive, PTL
=============================================================================
