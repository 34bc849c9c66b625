--------------------------------- MODULE Pmm ---------------------------------
(***************************************************************************)
(* The physical page allocator (kernel/src/sys/mm/pmm.c): a bitmap with    *)
(* one bit for each physical page, 1 for a page in use, searched first     *)
(* fit.  total_pages counts the pages of usable memory only, but bits are  *)
(* numbered by physical page, so where the memory map has holes the top    *)
(* pages are never searched; and bitmap_size is rounded down, so the last  *)
(* searched bits lie behind what memset fills, and where the bytes it does *)
(* fill end with a page, even behind the bitmap's own pages.               *)
(*                                                                         *)
(* Pages are numbered; a run is a first page, a number of pages and who    *)
(* was given it.                                                           *)
(***************************************************************************)
EXTENDS Integers, Sequences, FiniteSets, FiniteSetsExt

CONSTANTS
  MemoryMaps,   \* the memory maps the loader may hand over
  BitsPerByte,  \* 8
  BytesPerPage, \* 4096
  RunLengths,   \* how many pages are asked for
  Callers       \* who asks for them

Usable == {"free", "reclaimable"}

Pages(e) == e.first .. e.first + e.pages - 1

PagesOfType(map, types) == UNION {Pages(map[i]) : i \in {j \in DOMAIN map : map[j].type \in types}}

total_pages(map) == MapThenSumSet(LAMBDA i : map[i].pages,
                                  {i \in DOMAIN map : map[i].type \in Usable})

bitmap_size(map) == total_pages(map) \div BitsPerByte

(* The bitmap goes to the first usable region that is large enough.        *)
BitmapPages(map) ==
  LET fits == {i \in DOMAIN map : map[i].type \in Usable
                               /\ map[i].pages * BytesPerPage >= bitmap_size(map)}
      first == map[Min(fits)].first
  IN first .. first + (bitmap_size(map) + BytesPerPage - 1) \div BytesPerPage - 1

(* Every page that has a bit inside the bitmap's own pages.                *)
Numbered(map) == 0 .. Cardinality(BitmapPages(map)) * BytesPerPage * BitsPerByte - 1

(* The bits both searches look at, and those of them memset misses.        *)
SearchedIn(map) == 0 .. total_pages(map) - 1

Slack(map) == SearchedIn(map) \ (0 .. bitmap_size(map) * BitsPerByte - 1)

(* The searched bits of which pmm_init says nothing that lasts: they are   *)
(* neither filled by memset nor, being usable memory with a bit in the     *)
(* bitmap's pages, set or cleared by a loop.                               *)
Stray(map) == Slack(map) \ (PagesOfType(map, Usable) \cap Numbered(map))

(* The bits that some call looks at or writes.                             *)
Bits(map) == Numbered(map) \cup SearchedIn(map) \cup UNION {Pages(map[i]) : i \in DOMAIN map}

(***************************************************************************)
(* The maps the code needs to get anywhere: entries are page aligned and   *)
(* apart, there is at least a byte's worth of usable memory, and a region  *)
(* the bitmap fits in.                                                     *)
(***************************************************************************)
WellFormed(map) ==
  /\ map \in Seq([first : Nat, pages : Nat \ {0}, type : STRING])
  /\ \E i \in DOMAIN map : map[i].type \in Usable
                          /\ map[i].pages * BytesPerPage >= bitmap_size(map)
  /\ \A i, j \in DOMAIN map : i # j => Pages(map[i]) \cap Pages(map[j]) = {}
  /\ total_pages(map) \in Nat /\ bitmap_size(map) > 0

(* The maps on which nothing is handed out that is no memory, which the    *)
(* code does not check.                                                    *)
Regular(map) == WellFormed(map) /\ Stray(map) = {}

ASSUME PmmAssumption ==
  /\ BitsPerByte \in Nat \ {0}
  /\ BytesPerPage \in Nat \ {0}
  /\ RunLengths \subseteq Nat \ {0}
  /\ \A map \in MemoryMaps : WellFormed(map)

VARIABLES
  pmm_memory_map,
  bitmap,     \* the pages whose bit is 1, behind the bitmap's pages too
  held,       \* the runs that were returned and not freed yet
  reclaimed   \* the loader's memory has been given to the allocator

vars == <<pmm_memory_map, bitmap, held, reclaimed>>

Run(first, n) == first .. first + n - 1

(* Mutant: the bitmap is not kept out of the clearing loop.                *)
pmm_init_ClearsBitmap(map, garbage) ==
  (0 .. bitmap_size(map) * BitsPerByte - 1 \cup garbage \cup BitmapPages(map) \cup {0})
    \ PagesOfType(map, Usable)

(* pmm_init: memset sets the bits of whole bytes, garbage is what the      *)
(* others happen to be; the bitmap's pages and page 0 are set, and usable  *)
(* pages but the bitmap's are cleared.                                     *)
pmm_init(map, garbage) ==
  (0 .. bitmap_size(map) * BitsPerByte - 1 \cup garbage \cup BitmapPages(map) \cup {0})
    \ (PagesOfType(map, Usable) \ BitmapPages(map))

Init ==
  /\ pmm_memory_map \in MemoryMaps
  /\ \E garbage \in SUBSET (Bits(pmm_memory_map)
                              \ (0 .. bitmap_size(pmm_memory_map) * BitsPerByte - 1)) :
       bitmap = pmm_init(pmm_memory_map, garbage)
  /\ held = {}
  /\ reclaimed = FALSE

Searched == SearchedIn(pmm_memory_map)

(* Mutant: only the first page of a run is tested.                         *)
FreeRuns_FirstOnly(n) == {p \in Searched : p \notin bitmap /\ Run(p, n) \subseteq Searched}

FreeRuns(n) == {p \in Searched : Run(p, n) \subseteq Searched \ bitmap}

(***************************************************************************)
(* pmm_alloc_pages(): the first run that is free.  A search that finds     *)
(* none returns NULL and changes nothing.  pmm_alloc() is the same search  *)
(* for one page.  Bound: no caller has the very same run twice.            *)
(***************************************************************************)
pmm_alloc_pages(n, c) ==
  /\ FreeRuns(n) # {}
  /\ LET r == [first |-> Min(FreeRuns(n)), pages |-> n, by |-> c]
     IN /\ r \notin held
        /\ bitmap' = bitmap \cup Pages(r)
        /\ held' = held \cup {r}
  /\ UNCHANGED <<pmm_memory_map, reclaimed>>

(* Mutant: one page is left behind.                                        *)
pmm_free_pages_Short(r) ==
  /\ r \in held
  /\ bitmap' = bitmap \ (r.first .. r.first + r.pages - 2)
  /\ held' = held \ {r}
  /\ UNCHANGED <<pmm_memory_map, reclaimed>>

(* pmm_free_pages() clears bits; callers pass what they were given.        *)
pmm_free_pages(r) ==
  /\ r \in held
  /\ bitmap' = bitmap \ Pages(r)
  /\ held' = held \ {r}
  /\ UNCHANGED <<pmm_memory_map, reclaimed>>

(* Called once, by _start.                                                 *)
pmm_reclaim_bootloader_memory ==
  /\ ~ reclaimed
  /\ bitmap' = bitmap \ PagesOfType(pmm_memory_map, {"loader"})
  /\ reclaimed' = TRUE
  /\ UNCHANGED <<pmm_memory_map, held>>

(* Whoever has the memory behind the bitmap's pages writes there.          *)
others_write ==
  /\ \E written \in SUBSET (Bits(pmm_memory_map) \ Numbered(pmm_memory_map)) :
       bitmap' = (bitmap \cap Numbered(pmm_memory_map)) \cup written
  /\ UNCHANGED <<pmm_memory_map, held, reclaimed>>

Next ==
  \/ \E n \in RunLengths, c \in Callers : pmm_alloc_pages(n, c)
  \/ \E r \in held : pmm_free_pages(r)
  \/ pmm_reclaim_bootloader_memory
  \/ others_write

Spec == Init /\ [][Next]_vars

-----------------------------------------------------------------------------
(* Properties.                                                             *)

HeldPages == UNION {Pages(r) : r \in held}

(* The memory that may be handed out so far.                               *)
Available ==
  (PagesOfType(pmm_memory_map, Usable) \ BitmapPages(pmm_memory_map))
    \cup (IF reclaimed THEN PagesOfType(pmm_memory_map, {"loader"}) ELSE {})

(* The type invariant; no page from total_pages on is ever handed out.     *)
TypeOK ==
  /\ pmm_memory_map \in MemoryMaps
  /\ bitmap \subseteq Bits(pmm_memory_map)
  /\ held \subseteq [first : Searched, pages : RunLengths, by : Callers]
  /\ HeldPages \subseteq Searched
  /\ reclaimed \in BOOLEAN

(* No page is given to two callers: the bits of what was handed out stay   *)
(* set until it is freed, through every other allocation, free and reclaim *)
(* and whatever is written behind the bitmap, but for the stray pages.     *)
HeldApart ==
  /\ HeldPages \ Stray(pmm_memory_map) \subseteq bitmap
  /\ \A r, s \in held : r # s => Pages(r) \cap Pages(s) \subseteq Stray(pmm_memory_map)

(* What is handed out is memory, or stray: never any other reserved page   *)
(* or hole of the map, the bitmap itself, a page 0 that is no memory, or   *)
(* the loader's memory before it is reclaimed, although bits are numbered  *)
(* by page and counted by memory.                                          *)
OnlyMemory == HeldPages \subseteq Available \cup Stray(pmm_memory_map)

(* No page that has a bit in the bitmap's pages is lost: one that may be   *)
(* handed out and is not is marked free.                                   *)
NothingLost == Available \cap bitmap \cap Numbered(pmm_memory_map) \subseteq HeldPages

(* "Bitmap Physical Memory Management" hands out memory: every page that   *)
(* was returned is usable, or the loader's and reclaimed.                  *)
OnlyAvailable == HeldPages \subseteq Available

(* "Bitmap Physical Memory Management" gives a page to one caller at a     *)
(* time.                                                                   *)
NeverTwice == \A r, s \in held : r # s => Pages(r) \cap Pages(s) = {}
=============================================================================
