-------------------------------- MODULE Fat32 --------------------------------
(***************************************************************************)
(* The FAT32 reader (kernel/src/fs/fat32.c): file handles with a sector    *)
(* buffer each, the chains of clusters they follow through a cached window *)
(* of the file allocation table, and the search of a path from the root    *)
(* directory, whose one handle every search shares.                        *)
(*                                                                         *)
(* A sector holds SectorSize cells; a cell is a byte of a file or an entry *)
(* of a directory, which never straddles two sectors.  One step is one     *)
(* turn of the loop of fat_read or FAT_FindFile; nothing else runs between *)
(* the steps of a call, since there is one caller.                         *)
(*                                                                         *)
(* Sectors are counted from the start of the partition, as fat32.c counts  *)
(* them; the disk does not change, it refuses what mbr_read_sector()       *)
(* refuses, and sectors of which nothing is said hold zeros.               *)
(***************************************************************************)
EXTENDS Integers, Sequences, FiniteSets, FiniteSetsExt

CONSTANTS
  SectorSize,        \* SECTOR_SIZE in cells
  SectorsPerCluster,
  FatPerSector,      \* table entries in a sector
  CacheSize,         \* FAT_CACHE_SIZE
  MaxHandles,        \* MAX_FILE_HANDLES
  Word,              \* 2^32: sector numbers and positions wrap there
  Reserved,          \* the first sector of the table
  DataLba,           \* g_data_section_lba
  LbaOffset,         \* lba_offset of the partition
  PartSize,          \* part_size of the partition
  RootLba,           \* the first sector of the root directory
  EndOfChain,        \* the least table value the code takes for an end
  Fat,               \* the table: a value for each cluster
  Sectors,           \* the cells of the sectors that hold files
  Chains,            \* the clusters of each file, by its first cluster
  Paths,             \* what callers open: names, and a slash behind the last
  ShortNames,        \* what get_short_name may make of a name
  Lengths            \* how many cells callers read at a time

Handles == 0 .. MaxHandles - 1
Root == -1      \* ROOT_DIRECTORY_HANDLE
nullptr == -2

Empty == [i \in 1 .. SectorSize |-> [byte |-> 0]]

Cells(lba) == IF lba \in DOMAIN Sectors THEN Sectors[lba] ELSE Empty

(* mbr_read_sector() compares the sector of the disk with the number of    *)
(* sectors of the partition: the last LbaOffset of these are refused too.  *)
Readable(lba) == (lba + LbaOffset) % Word < PartSize

cluster_to_lba(cluster) == (DataLba + (cluster - 2) * SectorsPerCluster) % Word

FatValue(cluster) == IF cluster \in DOMAIN Fat THEN Fat[cluster] ELSE 0

(* The window of the table that begins with a sector.                      *)
Window(sector) ==
  [i \in 0 .. CacheSize * FatPerSector - 1 |-> FatValue(sector * FatPerSector + i)]

IsEntry(cell) == "name" \in DOMAIN cell

(* An entry of a directory; that of a file that is not empty gives the     *)
(* first cluster of a chain which is long enough.                          *)
WellFormedEntry(entry) ==
  /\ entry.cluster \in 0 .. Word - 1 /\ entry.size \in 0 .. Word - 1 /\ entry.dir \in BOOLEAN
  /\ ~ entry.dir /\ entry.size > 0 =>
       /\ entry.cluster \in DOMAIN Chains
       /\ entry.size <= Len(Chains[entry.cluster]) * SectorsPerCluster * SectorSize

(* The disk: the values of the table are words, as are sector numbers, and *)
(* the table has the chain of each file.  fat_init() has read the root     *)
(* directory, and the table lies before it.                                *)
ASSUME Fat32Assumption ==
  /\ SectorSize \in Nat \ {0} /\ SectorsPerCluster \in Nat \ {0}
  /\ FatPerSector \in Nat \ {0} /\ CacheSize \in Nat \ {0} /\ MaxHandles \in Nat \ {0}
  /\ Word \in Nat \ {0} /\ Word % SectorSize = 0
  /\ Reserved \in Nat /\ DataLba \in Nat /\ LbaOffset \in Nat /\ PartSize \in 0 .. Word
  /\ RootLba \in Nat /\ RootLba + LbaOffset < PartSize /\ EndOfChain \in 0 .. Word - 1
  /\ Lengths \subseteq Nat
  /\ \A c \in DOMAIN Fat : Fat[c] \in 0 .. Word - 1
  /\ \A lba \in DOMAIN Sectors :
       /\ DOMAIN Sectors[lba] = 1 .. SectorSize
       /\ \A i \in 1 .. SectorSize :
            IsEntry(Sectors[lba][i]) => WellFormedEntry(Sectors[lba][i])
  /\ \A c \in DOMAIN Chains :
       /\ Len(Chains[c]) \in Nat \ {0} /\ DOMAIN Chains[c] = 1 .. Len(Chains[c])
       /\ Chains[c][1] = c
       /\ \A k \in DOMAIN Chains[c] :
            /\ Chains[c][k] \in DOMAIN Fat /\ Chains[c][k] \in 0 .. EndOfChain - 1
            /\ Reserved + Chains[c][k] \div FatPerSector <= RootLba
            /\ k < Len(Chains[c]) => Fat[Chains[c][k]] = Chains[c][k + 1]

VARIABLES
  root_directory,
  opened_files,
  fat_cashe, fat_cashe_position,
  op,    \* the call in progress
  held,  \* the handles callers have
  got    \* history: what each open handle has returned

g_data == <<root_directory, opened_files, fat_cashe, fat_cashe_position>>
vars == <<g_data, op, held, got>>

Idle == [kind |-> "idle"]

(* What fat_init leaves, with a position that no table sector is in.       *)
Init ==
  /\ root_directory = [opened |-> TRUE, is_directory |-> TRUE, position |-> 0, size |-> 0,
       first_cluster |-> RootLba, current_cluster |-> RootLba, sector_in_clusteer |-> 0,
       buffer |-> Cells(RootLba)]
  /\ opened_files = [h \in Handles |->
       [opened |-> FALSE, is_directory |-> FALSE, position |-> 0, size |-> 0,
        first_cluster |-> 0, current_cluster |-> 0, sector_in_clusteer |-> 0,
        buffer |-> Empty]]
  /\ fat_cashe = [i \in 0 .. CacheSize * FatPerSector - 1 |-> 0]
  /\ fat_cashe_position = Word - 1
  /\ op = Idle
  /\ held = {}
  /\ got = [h \in Handles |-> <<>>]

File(h) == IF h = Root THEN root_directory ELSE opened_files[h]

-----------------------------------------------------------------------------
(* fat_read                                                                *)

(* Mutant: a file is read as if it had no end.                             *)
Limit_Unbounded(fd, n) == n

(* The cells that are left before the end; a directory of size 0 has none. *)
Limit(fd, n) ==
  IF fd.is_directory /\ fd.size = 0 THEN n ELSE Min({n, fd.size - fd.position})

LeftInBuffer(fd) == SectorSize - (fd.position % SectorSize)

Cached(sector) == sector \in fat_cashe_position .. fat_cashe_position + CacheSize - 1

(* Mutant: the table is read as if it began with the partition.            *)
CasheAfter_NoReserved(cluster) ==
  LET sector == cluster \div FatPerSector
  IN IF Cached(sector) THEN [cells |-> fat_cashe, at |-> fat_cashe_position]
     ELSE [cells |-> Window(sector - Reserved), at |-> sector]

(* The window after the lookup of a cluster: a read that is refused leaves *)
(* the old cells under the new position.                                   *)
CasheAfter(cluster) ==
  LET sector == cluster \div FatPerSector
  IN IF Cached(sector) THEN [cells |-> fat_cashe, at |-> fat_cashe_position]
     ELSE [cells |-> IF Readable(Reserved + sector) THEN Window(sector) ELSE fat_cashe,
           at |-> sector]

(* Mutant: a file's clusters are taken to follow each other.               *)
fat_next_cluster_Adjacent(cluster) == cluster + 1

fat_next_cluster(cluster) ==
  LET window == CasheAfter(cluster)
  IN window.cells[cluster - window.at * FatPerSector]

(* Does the step from the last cell of the buffer need the table?          *)
EndsCluster(h, fd) == h # Root /\ fd.sector_in_clusteer + 1 >= SectorsPerCluster

(* The handle with the sector behind its buffer; ok says that there is one.*)
NextSector(h, fd) ==
  LET cluster == IF h = Root THEN (fd.current_cluster + 1) % Word
                 ELSE IF EndsCluster(h, fd) THEN fat_next_cluster(fd.current_cluster)
                 ELSE fd.current_cluster
      sector == IF h = Root \/ EndsCluster(h, fd) THEN 0 ELSE fd.sector_in_clusteer + 1
      lba == IF h = Root THEN cluster ELSE (cluster_to_lba(cluster) + sector) % Word
      moved == [fd EXCEPT !.current_cluster = cluster,
                          !.sector_in_clusteer = IF h = Root THEN @ ELSE sector]
  IN IF h # Root /\ cluster >= EndOfChain
     THEN [fd |-> [moved EXCEPT !.size = fd.position], ok |-> FALSE]
     ELSE [fd |-> IF Readable(lba) THEN [moved EXCEPT !.buffer = Cells(lba)] ELSE moved,
           ok |-> Readable(lba)]

(* One turn of the loop on handle h takes n cells, at most to the end of   *)
(* the buffer, and goes on to the next sector when that is reached.        *)
Take(h, n) ==
  LET fd == [File(h) EXCEPT !.position = (@ + n) % Word]
      next == IF n = LeftInBuffer(File(h)) THEN NextSector(h, fd) ELSE [fd |-> fd, ok |-> TRUE]
      looks == n = LeftInBuffer(File(h)) /\ EndsCluster(h, fd)
  IN [fd |-> next.fd, ok |-> next.ok,
      cashe |-> IF looks THEN CasheAfter(fd.current_cluster)
                ELSE [cells |-> fat_cashe, at |-> fat_cashe_position]]

(* The cells the turn takes.                                               *)
Taken(fd, n) == [i \in 1 .. n |-> fd.buffer[(fd.position % SectorSize) + i]]

Update(h, fd) ==
  IF h = Root THEN root_directory' = fd /\ UNCHANGED opened_files
  ELSE opened_files' = [opened_files EXCEPT ![h] = fd] /\ UNCHANGED root_directory

SetCashe(window) == fat_cashe' = window.cells /\ fat_cashe_position' = window.at

(* A caller reads from a file it has opened, or from the root directory.   *)
fat_read(h, n) ==
  /\ op = Idle
  /\ h \in held
  /\ op' = [kind |-> "read", handle |-> h, left |-> Limit(File(h), n)]
  /\ UNCHANGED <<g_data, held, got>>

ReadTurn ==
  /\ op.kind = "read" /\ op.left > 0
  /\ LET h == op.handle
         n == Min({op.left, LeftInBuffer(File(h))})
         turn == Take(h, n)
     IN /\ Update(h, turn.fd)
        /\ SetCashe(turn.cashe)
        /\ got' = IF File(h).is_directory THEN got
                  ELSE [got EXCEPT ![h] = @ \o Taken(File(h), n)]
        /\ op' = [op EXCEPT !.left = IF turn.ok THEN op.left - n ELSE 0]
  /\ UNCHANGED held

ReadReturns ==
  /\ op.kind = "read" /\ op.left = 0
  /\ op' = Idle
  /\ UNCHANGED <<g_data, held, got>>

-----------------------------------------------------------------------------
(* FAT_Open                                                                *)

(* FAT_Open begins to search the first name of the path in the root        *)
(* directory, from wherever its handle is; a path without names gives the  *)
(* root's one handle to the caller.                                        *)
FAT_Open(path) ==
  /\ op = Idle
  /\ \/ /\ path.names = <<>>
        /\ held' = held \cup {Root}
        /\ UNCHANGED op
     \/ /\ path.names # <<>>
        /\ \E short \in ShortNames[Head(path.names)] :
             op' = [kind |-> "open", dir |-> Root, rest |-> path.names,
                    slash |-> path.slash, short |-> short]
        /\ UNCHANGED held
  /\ UNCHANGED <<g_data, got>>

(* Mutant: FAT_Close() keeps the handle.                                   *)
Closed_Keeps(h, fd) == [fd EXCEPT !.position = 0]

(* FAT_Close(): the root's handle is not rewound all the way: its buffer   *)
(* stays.                                                                  *)
Closed(h, fd) ==
  IF h = Root THEN [fd EXCEPT !.position = 0, !.current_cluster = fd.first_cluster]
  ELSE [fd EXCEPT !.opened = FALSE]

(* FAT_FindFile reads on: the entry is another one.                        *)
SearchEntry ==
  /\ op.kind = "open"
  /\ Limit(File(op.dir), 1) = 1
  /\ LET fd == File(op.dir)
         entry == Taken(fd, 1)[1]
         turn == Take(op.dir, 1)
     IN /\ ~ (IsEntry(entry) /\ entry.name = op.short)
        /\ Update(op.dir, turn.fd)
        /\ SetCashe(turn.cashe)
  /\ UNCHANGED <<op, held, got>>

(* The directory has ended.                                                *)
NotFound ==
  /\ op.kind = "open"
  /\ Limit(File(op.dir), 1) = 0
  /\ Update(op.dir, Closed(op.dir, File(op.dir)))
  /\ op' = Idle
  /\ UNCHANGED <<fat_cashe, fat_cashe_position, held, got>>

(* fat_open_entry() on the files fs: the first free handle gets the entry. *)
Free(fs) == {h \in Handles : ~ fs[h].opened}

Opened(fd, entry) ==
  LET lba == cluster_to_lba(entry.cluster)
  IN [fd EXCEPT !.is_directory = entry.dir, !.position = 0, !.size = entry.size,
                !.first_cluster = entry.cluster, !.current_cluster = entry.cluster,
                !.sector_in_clusteer = 0, !.opened = Readable(lba),
                !.buffer = IF Readable(lba) THEN Cells(lba) ELSE @]

(* The entry is the one: the directory is closed, the entry is opened -    *)
(* before a slash only a folder is - and the call returns or goes on to the*)
(* next name.  Without a handle it goes on to read through a null pointer, *)
(* where the model ends.                                                   *)
Found ==
  /\ op.kind = "open"
  /\ Limit(File(op.dir), 1) = 1
  /\ LET fd == File(op.dir)
         entry == Taken(fd, 1)[1]
         turn == Take(op.dir, 1)
         closed == Closed(op.dir, turn.fd)
         files == IF op.dir = Root THEN opened_files
                  ELSE [opened_files EXCEPT ![op.dir] = closed]
         last == Len(op.rest) = 1
         h == IF Free(files) = {} THEN nullptr ELSE Min(Free(files))
         opened == IF h = nullptr THEN files ELSE [files EXCEPT ![h] = Opened(@, entry)]
         ok == h # nullptr /\ opened[h].opened
     IN /\ IsEntry(entry) /\ entry.name = op.short
        /\ root_directory' = IF op.dir = Root THEN closed ELSE root_directory
        /\ SetCashe(turn.cashe)
        /\ IF (~ last \/ op.slash) /\ ~ entry.dir
           THEN opened_files' = files /\ op' = Idle /\ UNCHANGED <<held, got>>
           ELSE /\ opened_files' = opened
                /\ IF last
                   THEN /\ op' = Idle
                        /\ held' = IF ok THEN held \cup {h} ELSE held
                        /\ got' = IF ok THEN [got EXCEPT ![h] = <<>>] ELSE got
                   ELSE /\ UNCHANGED <<held, got>>
                        /\ IF ok
                           THEN \E short \in ShortNames[op.rest[2]] :
                                  op' = [kind |-> "open", dir |-> h, rest |-> Tail(op.rest),
                                         slash |-> op.slash, short |-> short]
                           ELSE op' = [kind |-> "halted"]

(* A caller closes what it has opened; another may still have the root.    *)
FAT_Close(h) ==
  /\ op = Idle
  /\ h \in held
  /\ Update(h, Closed(h, File(h)))
  /\ \/ held' = held \ {h}
     \/ h = Root /\ held' = held
  /\ got' = IF h = Root THEN got ELSE [got EXCEPT ![h] = <<>>]
  /\ UNCHANGED <<fat_cashe, fat_cashe_position, op>>

Turn == ReadTurn \/ ReadReturns \/ SearchEntry \/ NotFound \/ Found

Next ==
  \/ \E path \in Paths : FAT_Open(path)
  \/ \E h \in Handles \cup {Root} : FAT_Close(h) \/ \E n \in Lengths : fat_read(h, n)
  \/ Turn

Spec == Init /\ [][Next]_vars

-----------------------------------------------------------------------------
(* Properties.                                                             *)

(* The i-th cell of the file that begins with a cluster, from 0 on, and    *)
(* the sector that has it.                                                 *)
LbaOf(first, i) ==
  LET sector == i \div SectorSize
      cluster == Chains[first][sector \div SectorsPerCluster + 1]
  IN (cluster_to_lba(cluster) + (sector % SectorsPerCluster)) % Word

CellAt(first, i) == Cells(LbaOf(first, i))[(i % SectorSize) + 1]

(* The type invariant: fat_read stays within a file, and positions are     *)
(* numbers of 32 bits.                                                     *)
TypeOK ==
  /\ \A h \in Handles \cup {Root} :
       /\ File(h).position \in 0 .. Word - 1 /\ File(h).size \in 0 .. Word - 1
       /\ File(h).sector_in_clusteer \in 0 .. SectorsPerCluster - 1
       /\ File(h).current_cluster \in 0 .. Word - 1
       /\ ~ File(h).is_directory => File(h).position <= File(h).size
  /\ DOMAIN fat_cashe = 0 .. CacheSize * FatPerSector - 1
  /\ held \subseteq Handles \cup {Root}

(* fat_read: whatever the sizes callers read in, however the reads of      *)
(* several files, their buffers and the shared window of the table         *)
(* alternate, and wherever a sector between was refused, each file gives   *)
(* its own bytes, in order, none left out, of all sectors that can be read.*)
BytesInOrder ==
  \A h \in held \ {Root} :
    ~ File(h).is_directory =>
      /\ Len(got[h]) = File(h).position
      /\ \A i \in DOMAIN got[h] :
           Readable(LbaOf(File(h).first_cluster, i - 1))
             => got[h][i] = CellAt(File(h).first_cluster, i - 1)

(* FAT_Open, FAT_Close: no handle has two callers and none is lost: open is*)
(* what callers have and the directory that a call is searching.  The root *)
(* is whoever's that asks for it.                                          *)
HandlesAccounted ==
  LET searched == IF op.kind = "open" THEN {op.dir} \ {Root} ELSE {}
  IN /\ {h \in Handles : opened_files[h].opened} = (held \ {Root}) \cup searched
     /\ held \cap searched = {}

(* fat_next_cluster: the window never holds a wrong value for a cluster of *)
(* a file, although a refused read relabels it.                            *)
CasheHolds ==
  \A c \in DOMAIN Chains : \A k \in DOMAIN Chains[c] :
    LET cluster == Chains[c][k]
    IN Cached(cluster \div FatPerSector) =>
         fat_cashe[cluster - fat_cashe_position * FatPerSector] = Fat[cluster]
=============================================================================
