------------------------------ MODULE PmmProofs ------------------------------
(***************************************************************************)
(* The page allocator on every memory map it finds a place for its bitmap  *)
(* in, through every sequence of allocations, frees and the reclaim, with  *)
(* whatever is written behind the bitmap: what it promises is kept but for *)
(* the stray pages, and kept in full where the map has none (Regular).     *)
(***************************************************************************)
EXTENDS Pmm, NatInduction, FiniteSetTheorems, TLAPS

(* What makes first fit safe where the map has holes and memset misses     *)
(* bits: every page a search takes for free is memory, or stray.           *)
FreeIsMemory == Searched \ bitmap \subseteq Available \cup Stray(pmm_memory_map)

PInv ==
  /\ pmm_memory_map \in MemoryMaps
  /\ held \subseteq [first : Searched, pages : RunLengths, by : Callers]
  /\ reclaimed \in BOOLEAN
  /\ FreeIsMemory
  /\ HeldApart /\ OnlyMemory /\ NothingLost
  /\ HeldPages \subseteq Searched

LEMMA MinIsMember ==
  ASSUME NEW S, S \subseteq Nat, S # {}
  PROVE  Min(S) \in S /\ \A x \in S : Min(S) <= x
  BY NatMin DEF Min

(* Usable memory and the loader's are apart in a well formed map.          *)
LEMMA LoaderApart ==
  ASSUME NEW map \in MemoryMaps
  PROVE  PagesOfType(map, Usable) \cap PagesOfType(map, {"loader"}) = {}
  <1>1. \A i, j \in DOMAIN map : i # j => Pages(map[i]) \cap Pages(map[j]) = {}
    BY PmmAssumption DEF WellFormed
  <1>2. QED
    BY <1>1 DEF PagesOfType, Usable

LEMMA SearchedNat ==
  ASSUME NEW map \in MemoryMaps
  PROVE  SearchedIn(map) \subseteq Nat
  BY PmmAssumption DEF WellFormed, SearchedIn

LEMMA BitsNat ==
  ASSUME NEW map \in MemoryMaps
  PROVE  Bits(map) \subseteq Nat
  <1>1. map \in Seq([first : Nat, pages : Nat \ {0}, type : STRING])
    BY PmmAssumption DEF WellFormed
  <1>2. \A i \in DOMAIN map : map[i] \in [first : Nat, pages : Nat \ {0}, type : STRING]
    BY <1>1, SeqElements, ZenonT(60)
  <1>3. ASSUME NEW i \in DOMAIN map PROVE Pages(map[i]) \subseteq Nat
    BY <1>2 DEF Pages
  <1>4. Numbered(map) \subseteq Nat
    BY DEF Numbered
  <1>5. QED
    BY <1>3, <1>4, SearchedNat DEF Bits

(* The run an allocation takes: searched, free, and of the length asked.   *)
LEMMA FirstFit ==
  ASSUME pmm_memory_map \in MemoryMaps, NEW n \in RunLengths, FreeRuns(n) # {}
  PROVE  /\ Min(FreeRuns(n)) \in Searched
         /\ Run(Min(FreeRuns(n)), n) \subseteq Searched \ bitmap
  <1>1. FreeRuns(n) \subseteq Nat
    BY SearchedNat DEF FreeRuns, Searched
  <1>2. Min(FreeRuns(n)) \in FreeRuns(n)
    BY <1>1, MinIsMember
  <1>3. QED
    BY <1>2 DEF FreeRuns

-----------------------------------------------------------------------------
(* The bitmap's place.                                                     *)

LEMMA Monotone ==
  ASSUME NEW i \in Nat, NEW j \in Nat, i <= j, NEW k \in Nat
  PROVE  i * k <= j * k
  OBVIOUS

(* Rounding up to whole pages.                                             *)
LEMMA RoundUp ==
  ASSUME NEW b \in Nat \ {0}, NEW B \in Nat \ {0}
  PROVE  LET k == (b + B - 1) \div B
         IN /\ k \in Nat \ {0} /\ b <= k * B
            /\ \A pages \in Nat : pages * B >= b => k <= pages
  <1> DEFINE k == (b + B - 1) \div B
  <1>1. k \in Nat /\ k * B <= b + B - 1 /\ b + B - 1 < (k + 1) * B
    OBVIOUS
  <1>2. b <= k * B /\ k # 0
    BY <1>1
  <1>3. ASSUME NEW pages \in Nat, pages * B >= b, ~ (k <= pages) PROVE FALSE
    <2>1. pages + 1 <= k
      BY <1>1, <1>3
    <2>2. (pages + 1) * B <= k * B
      BY <1>1, <2>1, Monotone
    <2>3. QED
      BY <1>1, <1>3, <2>2
  <1>4. QED
    BY <1>1, <1>2, <1>3

(* The bitmap lies inside its region and holds what memset fills.          *)
LEMMA BitmapCovers ==
  ASSUME NEW map \in MemoryMaps
  PROVE  /\ BitmapPages(map) \subseteq PagesOfType(map, Usable)
         /\ 0 .. bitmap_size(map) * BitsPerByte - 1 \subseteq Numbered(map)
         /\ 0 \in Numbered(map)
  <1> DEFINE fits == {i \in DOMAIN map : map[i].type \in Usable
                                      /\ map[i].pages * BytesPerPage >= bitmap_size(map)}
             at == Min(fits)
             k == (bitmap_size(map) + BytesPerPage - 1) \div BytesPerPage
  <1> USE PmmAssumption
  <1>1. WellFormed(map)
    OBVIOUS
  <1>2. bitmap_size(map) \in Nat \ {0} /\ BytesPerPage \in Nat \ {0} /\ BitsPerByte \in Nat \ {0}
    BY <1>1 DEF WellFormed, bitmap_size
  <1>3. at \in fits
    <2>1. fits \subseteq Nat /\ fits # {}
      BY <1>1, SMTT(30) DEF WellFormed
    <2>2. QED
      BY <2>1, MinIsMember
  <1>4. /\ at \in DOMAIN map /\ map[at].first \in Nat /\ map[at].pages \in Nat
        /\ map[at].pages * BytesPerPage >= bitmap_size(map)
    <2>1. at \in DOMAIN map /\ map[at].pages * BytesPerPage >= bitmap_size(map)
      BY <1>3
    <2>2. \A i \in DOMAIN map : map[i] \in [first : Nat, pages : Nat \ {0}, type : STRING]
      <3>1. map \in Seq([first : Nat, pages : Nat \ {0}, type : STRING])
        BY <1>1, Zenon DEF WellFormed
      <3>2. QED
        BY <3>1, SeqElements, ZenonT(60)
    <2>3. QED
      BY <2>1, <2>2
  <1>5. BitmapPages(map) = map[at].first .. map[at].first + k - 1
    BY Zenon DEF BitmapPages
  <1> HIDE DEF at, k
  <1>6. k \in Nat \ {0} /\ bitmap_size(map) <= k * BytesPerPage /\ k <= map[at].pages
    BY <1>2, <1>4, RoundUp DEF k
  <1>7. Cardinality(BitmapPages(map)) = k
    <2>1. map[at].first \in Int /\ map[at].first + k - 1 \in Int
      BY <1>4, <1>6
    <2>2. Cardinality(map[at].first .. map[at].first + k - 1)
            = IF map[at].first > map[at].first + k - 1 THEN 0
              ELSE (map[at].first + k - 1) - map[at].first + 1
      BY <2>1, FS_Interval, Zenon
    <2>3. QED
      BY <1>4, <1>5, <1>6, <2>2
  <1>8. Numbered(map) = 0 .. k * BytesPerPage * BitsPerByte - 1
    BY <1>7 DEF Numbered
  <1>9. bitmap_size(map) * BitsPerByte <= k * BytesPerPage * BitsPerByte
    <2>1. k * BytesPerPage \in Nat
      BY <1>2, <1>6
    <2>2. QED
      BY <1>2, <1>6, <2>1, Monotone
  <1>10. 0 .. bitmap_size(map) * BitsPerByte - 1 \subseteq Numbered(map) /\ 0 \in Numbered(map)
    <2>1. bitmap_size(map) * BitsPerByte \in Nat \ {0} /\ k * BytesPerPage * BitsPerByte \in Nat
      BY <1>2, <1>6
    <2>2. QED
      BY <1>8, <1>9, <2>1
  <1>11. BitmapPages(map) \subseteq PagesOfType(map, Usable)
    <2>1. BitmapPages(map) \subseteq Pages(map[at])
      BY <1>4, <1>5, <1>6 DEF Pages
    <2>2. map[at].type \in Usable
      BY <1>3
    <2>3. QED
      BY <1>4, <2>1, <2>2 DEF PagesOfType
  <1>12. QED
    BY <1>10, <1>11

(* A searched bit behind the bitmap's pages is stray.                      *)
LEMMA ForeignIsStray ==
  ASSUME NEW map \in MemoryMaps
  PROVE  SearchedIn(map) \ Numbered(map) \subseteq Stray(map)
  BY BitmapCovers DEF Stray, Slack

-----------------------------------------------------------------------------
(* The steps.                                                              *)

LEMMA PEstablish == Init => PInv
  <1> SUFFICES ASSUME Init PROVE PInv
    OBVIOUS
  <1> DEFINE map == pmm_memory_map
             usable == PagesOfType(map, Usable)
             whole == 0 .. bitmap_size(map) * BitsPerByte - 1
  <1>1. map \in MemoryMaps /\ held = {} /\ reclaimed = FALSE
    BY DEF Init
  <1>2. PICK garbage : bitmap = (whole \cup garbage \cup BitmapPages(map) \cup {0})
                                  \ (usable \ BitmapPages(map))
    BY DEF Init, pmm_init
  <1>3. Searched \ whole \subseteq usable \cup Stray(map)
    BY DEF Stray, Slack, Searched
  <1>4. Available = usable \ BitmapPages(map)
    BY <1>1 DEF Available
  <1>5. FreeIsMemory
    BY <1>2, <1>3, <1>4, Zenon DEF FreeIsMemory
  <1>6. Available \cap bitmap = {}
    BY <1>2, <1>4
  <1>7. HeldPages = {}
    BY <1>1 DEF HeldPages
  <1>8. QED
    BY <1>1, <1>5, <1>6, <1>7 DEF PInv, HeldApart, OnlyMemory, NothingLost

LEMMA PAlloc ==
  ASSUME PInv, NEW n \in RunLengths, NEW c \in Callers, pmm_alloc_pages(n, c)
  PROVE  PInv'
  <1> DEFINE first == Min(FreeRuns(n))
             r == [first |-> first, pages |-> n, by |-> c]
             stray == Stray(pmm_memory_map)
  <1>1. /\ first \in Searched
        /\ Run(first, n) \subseteq Searched \ bitmap
    BY FirstFit DEF PInv, pmm_alloc_pages
  <1>2. Pages(r) = Run(first, n)
    BY DEF Pages, Run
  <1>3. /\ bitmap' = bitmap \cup Run(first, n)
        /\ held' = held \cup {r}
        /\ pmm_memory_map' = pmm_memory_map /\ reclaimed' = reclaimed
    BY <1>2 DEF pmm_alloc_pages
  <1>4. Searched' = Searched /\ Available' = Available
    BY <1>3 DEF Searched, Available
  <1>5. HeldPages' = HeldPages \cup Run(first, n)
    BY <1>2, <1>3 DEF HeldPages
  <1>6. HeldPages \ stray \subseteq bitmap
    BY DEF PInv, HeldApart
  <1>7. HeldApart'
    <2>1. HeldPages' \ stray' \subseteq bitmap'
      BY <1>3, <1>5, <1>6
    <2>2. \A s \in held : Pages(s) \cap Pages(r) \subseteq stray
      BY <1>1, <1>2, <1>6 DEF HeldPages
    <2>3. \A s, t \in held' : s # t => Pages(s) \cap Pages(t) \subseteq stray
      BY <1>3, <2>2 DEF PInv, HeldApart
    <2>4. QED
      BY <1>3, <2>1, <2>3 DEF HeldApart
  <1>8. OnlyMemory' /\ FreeIsMemory'
    BY <1>1, <1>3, <1>4, <1>5 DEF PInv, OnlyMemory, FreeIsMemory
  <1>9. NothingLost' /\ HeldPages' \subseteq Searched'
    BY <1>1, <1>3, <1>4, <1>5 DEF PInv, NothingLost
  <1>10. held' \subseteq [first : Searched', pages : RunLengths, by : Callers]
    BY <1>1, <1>3, <1>4 DEF PInv
  <1>11. QED
    BY <1>3, <1>7, <1>8, <1>9, <1>10 DEF PInv

LEMMA PFree == ASSUME PInv, NEW r \in held, pmm_free_pages(r) PROVE PInv'
  <1> DEFINE stray == Stray(pmm_memory_map)
  <1>1. /\ bitmap' = bitmap \ Pages(r)
        /\ held' = held \ {r}
        /\ pmm_memory_map' = pmm_memory_map /\ reclaimed' = reclaimed
    BY DEF pmm_free_pages
  <1>2. Searched' = Searched /\ Available' = Available
    BY <1>1 DEF Searched, Available
  <1>3. \A s \in held \ {r} : Pages(s) \cap Pages(r) \subseteq stray
    BY DEF PInv, HeldApart
  <1>4. HeldPages \ Pages(r) \subseteq HeldPages' /\ HeldPages' \subseteq HeldPages
    BY <1>1 DEF HeldPages
  <1>5. HeldPages' \cap Pages(r) \subseteq stray
    BY <1>1, <1>3 DEF HeldPages
  <1>6. Pages(r) \subseteq HeldPages
    BY DEF HeldPages
  <1>7. HeldApart'
    <2>1. HeldPages' \ stray' \subseteq bitmap'
      BY <1>1, <1>4, <1>5 DEF PInv, HeldApart
    <2>2. \A s, t \in held' : s # t => Pages(s) \cap Pages(t) \subseteq stray'
      BY <1>1 DEF PInv, HeldApart
    <2>3. QED
      BY <2>1, <2>2 DEF HeldApart
  <1>8. OnlyMemory' /\ FreeIsMemory'
    BY <1>1, <1>2, <1>4, <1>6 DEF PInv, OnlyMemory, FreeIsMemory
  <1>9. NothingLost' /\ HeldPages' \subseteq Searched'
    BY <1>1, <1>2, <1>4 DEF PInv, NothingLost
  <1>10. QED
    BY <1>1, <1>2, <1>7, <1>8, <1>9 DEF PInv

LEMMA PReclaim == ASSUME PInv, pmm_reclaim_bootloader_memory PROVE PInv'
  <1> DEFINE loader == PagesOfType(pmm_memory_map, {"loader"})
  <1>1. /\ bitmap' = bitmap \ loader
        /\ held' = held /\ pmm_memory_map' = pmm_memory_map
        /\ reclaimed = FALSE /\ reclaimed' = TRUE
    BY DEF pmm_reclaim_bootloader_memory, PInv
  <1>2. Searched' = Searched /\ HeldPages' = HeldPages
    BY <1>1 DEF Searched, HeldPages
  <1>3. Available' = Available \cup loader
    BY <1>1 DEF Available
  <1>4. HeldPages \cap loader \subseteq Stray(pmm_memory_map)
    BY <1>1, LoaderApart DEF PInv, OnlyMemory, Available
  <1>5. HeldApart'
    BY <1>1, <1>2, <1>4 DEF PInv, HeldApart
  <1>6. OnlyMemory' /\ FreeIsMemory' /\ NothingLost'
    BY <1>1, <1>2, <1>3 DEF PInv, OnlyMemory, FreeIsMemory, NothingLost
  <1>7. QED
    BY <1>1, <1>2, <1>5, <1>6 DEF PInv

(* What is written behind the bitmap's pages changes stray bits only.      *)
LEMMA POthers == ASSUME PInv, others_write PROVE PInv'
  <1>1. /\ held' = held /\ pmm_memory_map' = pmm_memory_map /\ reclaimed' = reclaimed
        /\ bitmap' \cap Numbered(pmm_memory_map) = bitmap \cap Numbered(pmm_memory_map)
    BY DEF others_write
  <1>2. Searched' = Searched /\ HeldPages' = HeldPages /\ Available' = Available
    BY <1>1 DEF Searched, HeldPages, Available
  <1>3. Searched \ Numbered(pmm_memory_map) \subseteq Stray(pmm_memory_map)
    BY ForeignIsStray DEF PInv, Searched
  <1>4. HeldApart'
    BY <1>1, <1>2, <1>3 DEF PInv, HeldApart
  <1>5. FreeIsMemory'
    BY <1>1, <1>2, <1>3 DEF PInv, FreeIsMemory
  <1>6. OnlyMemory' /\ NothingLost'
    BY <1>1, <1>2 DEF PInv, OnlyMemory, NothingLost
  <1>7. QED
    BY <1>1, <1>2, <1>4, <1>5, <1>6 DEF PInv

LEMMA PStep == ASSUME PInv, [Next]_vars PROVE PInv'
  <1>1. CASE \E n \in RunLengths, c \in Callers : pmm_alloc_pages(n, c)
    BY <1>1, PAlloc
  <1>2. CASE \E r \in held : pmm_free_pages(r)
    BY <1>2, PFree
  <1>3. CASE pmm_reclaim_bootloader_memory
    BY <1>3, PReclaim
  <1>4. CASE others_write
    BY <1>4, POthers
  <1>5. CASE UNCHANGED vars
    BY <1>5 DEF vars, PInv, HeldApart, OnlyMemory, NothingLost, FreeIsMemory,
         HeldPages, Available, Searched
  <1>6. QED
    BY <1>1, <1>2, <1>3, <1>4, <1>5 DEF Next

THEOREM AllocatorInvariant == Spec => []PInv
  BY PEstablish, PStep, PTL DEF Spec

(* Every page that is handed out is memory, or stray, on every map: what   *)
(* is neither was marked used and stays so.                                *)
THEOREM HandsOutMemory == Spec => []OnlyMemory
  <1>1. PInv => OnlyMemory
    BY DEF PInv
  <1>2. QED
    BY <1>1, AllocatorInvariant, PTL

(* No page is given to two callers, on any map, unless it is stray.        *)
THEOREM PagesHeldApart == Spec => []HeldApart
  <1>1. PInv => HeldApart
    BY DEF PInv
  <1>2. QED
    BY <1>1, AllocatorInvariant, PTL

(* No page that may be handed out stays marked without an owner.           *)
THEOREM NoPageLost == Spec => []NothingLost
  <1>1. PInv => NothingLost
    BY DEF PInv
  <1>2. QED
    BY <1>1, AllocatorInvariant, PTL

(* Bits stay among those a call may touch, and no page from total_pages on *)
(* is handed out.                                                          *)
THEOREM TypesKept == Spec => []TypeOK
  <1> DEFINE Marked == bitmap \subseteq Bits(pmm_memory_map)
  <1>1. Init => PInv /\ Marked
    <2> SUFFICES ASSUME Init PROVE Marked
      BY PEstablish
    <2>1. pmm_memory_map \in MemoryMaps
      BY DEF Init
    <2>2. /\ 0 .. bitmap_size(pmm_memory_map) * BitsPerByte - 1 \subseteq Bits(pmm_memory_map)
          /\ BitmapPages(pmm_memory_map) \cup {0} \subseteq Bits(pmm_memory_map)
      BY <2>1, BitmapCovers DEF Bits, PagesOfType
    <2>3. PICK garbage \in SUBSET (Bits(pmm_memory_map)
                            \ (0 .. bitmap_size(pmm_memory_map) * BitsPerByte - 1)) :
            bitmap = pmm_init(pmm_memory_map, garbage)
      BY DEF Init
    <2>4. QED
      BY <2>2, <2>3 DEF pmm_init
  <1>2. PInv /\ Marked /\ [Next]_vars => PInv' /\ Marked'
    <2> SUFFICES ASSUME PInv, Marked, [Next]_vars PROVE Marked'
      BY PStep
    <2>1. pmm_memory_map' = pmm_memory_map /\ pmm_memory_map \in MemoryMaps
      BY DEF Next, vars, pmm_alloc_pages, pmm_free_pages, pmm_reclaim_bootloader_memory,
         others_write, PInv
    <2>2. CASE \E n \in RunLengths, c \in Callers : pmm_alloc_pages(n, c)
      <3>1. PICK n \in RunLengths, c \in Callers : pmm_alloc_pages(n, c)
        BY <2>2
      <3>2. FreeRuns(n) # {}
            /\ bitmap' = bitmap \cup Pages([first |-> Min(FreeRuns(n)), pages |-> n, by |-> c])
        BY <3>1 DEF pmm_alloc_pages
      <3>3. Run(Min(FreeRuns(n)), n) \subseteq Searched
        BY <2>1, <3>2, FirstFit
      <3>4. Searched \subseteq Bits(pmm_memory_map)
        BY DEF Searched, Bits
      <3>5. QED
        BY <2>1, <3>2, <3>3, <3>4 DEF Run, Pages
    <2>3. CASE ~ \E n \in RunLengths, c \in Callers : pmm_alloc_pages(n, c)
      <3>1. bitmap' \subseteq bitmap \cup (Bits(pmm_memory_map) \ Numbered(pmm_memory_map))
        BY <2>3 DEF Next, vars, pmm_free_pages, pmm_reclaim_bootloader_memory, others_write
      <3>2. QED
        BY <2>1, <3>1
    <2>4. QED
      BY <2>2, <2>3
  <1>3. PInv /\ Marked => TypeOK
    BY DEF PInv, TypeOK
  <1>4. QED
    BY <1>1, <1>2, <1>3, PTL DEF Spec

(* Where the map has no stray page, the two promises of the page allocator *)
(* hold in full: only memory is handed out, and to one caller at a time.   *)
THEOREM AllocatorIsSound ==
  ASSUME \A map \in MemoryMaps : Regular(map)
  PROVE  Spec => [](OnlyAvailable /\ NeverTwice)
  <1>1. ASSUME PInv PROVE OnlyAvailable /\ NeverTwice
    <2>1. Stray(pmm_memory_map) = {}
      BY <1>1 DEF PInv, Regular
    <2>2. QED
      BY <1>1, <2>1 DEF PInv, OnlyMemory, OnlyAvailable, HeldApart, NeverTwice
  <1>2. QED
    BY <1>1, AllocatorInvariant, PTL
=============================================================================
