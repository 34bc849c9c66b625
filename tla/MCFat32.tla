------------------------------- MODULE MCFat32 -------------------------------
(* A partition of 27 sectors, one sector into the disk, so that its last   *)
(* is refused: the table in sectors 1 to 6, clusters of two sectors from   *)
(* sector 7 on.  The root directory is in cluster 2, the folder of file b  *)
(* in 4, and the clusters of files a and b alternate, so that no two of a  *)
(* chain follow each other and a chain leaves the window of the table and  *)
(* comes back.  Both files fill their clusters, and the refused sector is  *)
(* in the middle of a.                                                     *)
EXTENDS Fat32, TLC

CONSTANTS a, b, d, other

(* What stands behind the last cluster on a FAT32 disk, 0x0FFFFFFF: less   *)
(* than the least mark the code takes for an end, 0xFFFFFFF8, the last     *)
(* entry of its sector of the table, and nowhere on the disk.  The search  *)
(* of the folder follows it.                                               *)
Mark == 51

(* The same with the reserved high bits set, which the code does take.     *)
HighMark == 63

MCFat == [c \in 0 .. 11 |->
  CASE c = 3 -> 11 [] c = 11 -> 8 [] c = 6 -> 9
    [] c \in {2, 4, 8} -> Mark [] c = 9 -> HighMark [] OTHER -> 0]

MCChains == (3 :> <<3, 11, 8>>) @@ (6 :> <<6, 9>>)

Entry(name, cluster, size, dir) ==
  [name |-> name, cluster |-> cluster, size |-> size, dir |-> dir]

Filler == [byte |-> 0]

(* Every cell of a file differs from the others of the disk.               *)
FileSectors == UNION {{7 + (c - 2) * 2, 8 + (c - 2) * 2} : c \in {3, 11, 8, 6, 9}}

MCSectors ==
  (7 :> <<Entry(a, 3, 12, FALSE), Entry(d, 4, 0, TRUE)>>) @@
  (11 :> <<Entry(b, 6, 8, FALSE), Filler>>) @@
  [lba \in FileSectors |-> [i \in 1 .. 2 |-> [byte |-> lba * 2 + i]]]

Path(names, slash) == [names |-> names, slash |-> slash]

(* The root directory, the files, and names that lead nowhere.             *)
MCPaths == {Path(<<>>, TRUE), Path(<<a>>, FALSE), Path(<<d, b>>, FALSE),
            Path(<<a, b>>, FALSE), Path(<<a>>, TRUE)}

(* The bytes get_short_name leaves as they were may make another name.     *)
MCShortNames == [name \in {a, b, d} |-> IF name = b THEN {b, other} ELSE {name}]
=============================================================================
