-------------------------------- MODULE Heap --------------------------------
(***************************************************************************)
(* The kernel heap (kernel/src/std/liballoc.c) on top of the page          *)
(* allocator, which it shares with the page tables of vmm_map_page.        *)
(*                                                                         *)
(* A major block is a run of pages with a header at its start; its minor   *)
(* blocks are a list of headers, each followed by what was asked for and   *)
(* some bytes for alignment.  majors and the minors of a major are the two *)
(* linked lists, from first to last.  kmalloc and kfree run with           *)
(* interrupts off, so each is one step; krealloc is not, and where it must *)
(* grow a block it is a kmalloc, then a kfree of the old block, with other *)
(* tasks' steps in between.                                                *)
(***************************************************************************)
EXTENDS Integers, Sequences, FiniteSets, FiniteSetsExt, SequencesExt

CONSTANTS
  MemoryMaps, BitsPerByte, BytesPerPage,   \* see Pmm
  PageCount,    \* l_pageCount: the least number of pages of a major
  MajorHeader,  \* sizeof(struct liballoc_major)
  MinorHeader,  \* sizeof(struct liballoc_minor)
  Overhead,     \* ALIGNMENT + ALIGN_INFO
  Requests,     \* the sizes that are asked for
  MaxBlocks,    \* bound: how many blocks are allocated at a time
  MaxTables,    \* bound: how many page tables are created
  MayExhaust    \* bound: whether the heap is driven to where no run is left

nullptr == -1

VARIABLES
  pmm_memory_map, bitmap, reclaimed,   \* see Pmm
  majors,       \* the list from l_memRoot on
  l_bestBet,    \* the first page of a major, or nullptr
  l_inuse, l_allocated,
  tables        \* the pages of page tables

pmm == <<pmm_memory_map, reclaimed>>
vars == <<pmm, bitmap, majors, l_bestBet, l_inuse, l_allocated, tables>>

(* The runs of pages the heap and the page tables hold.                    *)
MajorRuns == {[first |-> majors[i].page, pages |-> majors[i].pages, by |-> "heap"]
                : i \in DOMAIN majors}

TableRuns == {[first |-> p, pages |-> 1, by |-> "paging"] : p \in tables}

(* The sizes that are asked of the page allocator.                         *)
PagesFor(size) ==
  LET st == (size + MajorHeader + MinorHeader + BytesPerPage - 1) \div BytesPerPage
  IN IF st < PageCount THEN PageCount ELSE st

SizeOf(req) == req + Overhead

Allocator == INSTANCE Pmm WITH
  held <- MajorRuns \cup TableRuns,
  RunLengths <- {1} \cup {PagesFor(SizeOf(req)) : req \in Requests},
  Callers <- {"heap", "paging"}

(* The memory maps are those on which the page allocator hands out nothing *)
(* but memory (Regular, see Pmm).                                          *)
ASSUME HeapAssumption ==
  /\ BitsPerByte \in Nat \ {0} /\ BytesPerPage \in Nat \ {0}
  /\ \A map \in MemoryMaps : Allocator!Regular(map)
  /\ PageCount \in Nat \ {0}
  /\ MajorHeader \in Nat \ {0} /\ MinorHeader \in Nat \ {0} /\ Overhead \in Nat \ {0}
  /\ Requests \subseteq Nat
  /\ MaxBlocks \in Nat /\ MaxTables \in Nat /\ MayExhaust \in BOOLEAN

Init ==
  /\ majors = <<>>
  /\ l_bestBet = nullptr
  /\ l_inuse = 0
  /\ l_allocated = 0
  /\ tables = {}
  /\ Allocator!Init

-----------------------------------------------------------------------------
(* Majors and the gaps in them.                                            *)

Bytes(m) == m.pages * BytesPerPage

Unused(m) == Bytes(m) - m.usage

End(min) == min.at + MinorHeader + min.size

(* The bytes between the k-th minor, or the header, and the next minor, or *)
(* the end.                                                                *)
GapStart(m, k) == IF k = 0 THEN MajorHeader ELSE End(m.minors[k])

Gap(m, k) ==
  (IF k = Len(m.minors) THEN Bytes(m) ELSE m.minors[k + 1].at) - GapStart(m, k)

(* Mutant: the header of the new block is not counted.                     *)
Gaps_NoHeader(m, size) == {k \in 0 .. Len(m.minors) : Gap(m, k) >= size}

Gaps(m, size) == {k \in 0 .. Len(m.minors) : Gap(m, k) >= size + MinorHeader}

(* Cases 1 to 4: enough bytes in all, and enough of them together.         *)
Fits(m, size) == Unused(m) >= size + MinorHeader /\ Gaps(m, size) # {}

(* Mutant: the new block's header is not counted as used.                  *)
Place_Uncounted(m, req) ==
  LET size == SizeOf(req)
      k == Min(Gaps(m, size))
  IN [m EXCEPT !.usage = @ + size,
               !.minors = InsertAt(@, k + 1, [at |-> GapStart(m, k), size |-> size, req |-> req])]

(* The first gap that is large enough takes the new minor.                 *)
Place(m, req) ==
  LET size == SizeOf(req)
      k == Min(Gaps(m, size))
  IN [m EXCEPT !.usage = @ + size + MinorHeader,
               !.minors = InsertAt(@, k + 1, [at |-> GapStart(m, k), size |-> size, req |-> req])]

NewMajor(page, size) ==
  [page |-> page, pages |-> PagesFor(size), usage |-> MajorHeader, minors |-> <<>>]

BestSize == IF l_bestBet = nullptr THEN 0
            ELSE Unused(majors[CHOOSE i \in DOMAIN majors : majors[i].page = l_bestBet])

(* l_bestBet after the search has visited the majors of ms in their order: *)
(* the first of those with the most unused bytes, if it beats the old one. *)
BestAfter(ms) ==
  LET most == Max({Unused(ms[i]) : i \in DOMAIN ms})
      first == Min({i \in DOMAIN ms : Unused(ms[i]) = most})
  IN IF ms # <<>> /\ most > BestSize THEN ms[first].page ELSE l_bestBet

(* Mutant: the majors before l_bestBet are not tried.                      *)
Visits_NoRestart(size) ==
  IF l_bestBet # nullptr /\ BestSize > size + MinorHeader
  THEN SubSeq(majors, CHOOSE i \in DOMAIN majors : majors[i].page = l_bestBet, Len(majors))
  ELSE majors

(***************************************************************************)
(* kmalloc().  The search starts at l_bestBet if that has enough unused    *)
(* bytes, and comes back to the first major when it ends without a place.  *)
(***************************************************************************)
Visits(size) ==
  IF l_bestBet # nullptr /\ BestSize > size + MinorHeader
  THEN LET best == CHOOSE i \in DOMAIN majors : majors[i].page = l_bestBet
       IN SubSeq(majors, best, Len(majors)) \o majors
  ELSE majors

Fitting(size) == {i \in DOMAIN Visits(size) : Fits(Visits(size)[i], size)}

BlockCount == MapThenSumSet(LAMBDA i : Len(majors[i].minors), DOMAIN majors)

kmalloc_fits(req) ==
  LET size == SizeOf(req)
      found == Min(Fitting(size))
      m == Visits(size)[found]
  IN /\ BlockCount < MaxBlocks
     /\ Fitting(size) # {}
     /\ majors' = [i \in DOMAIN majors |->
                     IF majors[i].page = m.page THEN Place(m, req) ELSE majors[i]]
     /\ l_bestBet' = BestAfter(SubSeq(Visits(size), 1, found))
     /\ l_inuse' = l_inuse + size
     /\ UNCHANGED <<pmm, bitmap, l_allocated, tables>>

(* No major has a place: one is added at the end of the list.  It is only  *)
(* compared with l_bestBet when the loop goes on to it (case 5, or the     *)
(* first of all), not when case 1 falls through.  liballoc_alloc adds the  *)
(* higher half to what it gets, so a null pointer is a block at page 0.    *)
kmalloc_grows(req) ==
  LET size == SizeOf(req)
      n == PagesFor(size)
      runs == Allocator!FreeRuns(n)
      new == NewMajor(IF runs = {} THEN 0 ELSE Min(runs), size)
      compared == majors = <<>> \/ Unused(Last(majors)) >= size + MinorHeader
  IN /\ BlockCount < MaxBlocks
     /\ MayExhaust \/ runs # {}
     /\ Fitting(size) = {}
     /\ majors' = Append(majors, Place(new, req))
     /\ bitmap' = IF runs = {} THEN bitmap ELSE bitmap \cup Allocator!Run(new.page, n)
     /\ l_bestBet' = BestAfter(IF compared THEN Append(Visits(size), new) ELSE Visits(size))
     /\ l_inuse' = l_inuse + size
     /\ l_allocated' = l_allocated + Bytes(new)
     /\ UNCHANGED <<pmm, tables>>

(* Mutant: only the first page is given back.                              *)
Released_OnePage(m) == bitmap \ {m.page}

(* Mutant: l_bestBet is not looked at when a major goes.                   *)
BetWithout_Kept(m) == l_bestBet

(* What kfree() leaves: of the block, and of a major that is empty.        *)
InUseWithout(min) == l_inuse - min.size

BetWithout(m) == IF l_bestBet = m.page THEN nullptr ELSE l_bestBet

Released(m) == bitmap \ Allocator!Run(m.page, m.pages)

(* kfree() on a pointer kmalloc returned: the k-th block of the i-th major.*)
kfree(i, k) ==
  LET m == majors[i]
      min == m.minors[k]
      left == [m EXCEPT !.usage = @ - (min.size + MinorHeader), !.minors = RemoveAt(@, k)]
  IN /\ l_inuse' = InUseWithout(min)
     /\ IF left.minors = <<>>
        THEN /\ majors' = RemoveAt(majors, i)
             /\ l_bestBet' = BetWithout(m)
             /\ l_allocated' = l_allocated - Bytes(m)
             /\ bitmap' = Released(m)
        ELSE /\ majors' = [majors EXCEPT ![i] = left]
             /\ l_bestBet' = IF l_bestBet # nullptr /\ Unused(left) > BestSize
                             THEN m.page ELSE l_bestBet
             /\ UNCHANGED <<l_allocated, bitmap>>
     /\ UNCHANGED <<pmm, tables>>

(* krealloc() to no more than was asked for: only req_size changes.        *)
krealloc_shrinks(i, k, req) ==
  /\ req \in 1 .. majors[i].minors[k].req
  /\ majors' = [majors EXCEPT ![i].minors[k].req = req]
  /\ UNCHANGED <<pmm, bitmap, l_bestBet, l_inuse, l_allocated, tables>>

(* Mutant: the page of a table is not marked used.                         *)
new_page_table_Unmarked ==
  /\ Cardinality(tables) < MaxTables
  /\ Allocator!FreeRuns(1) # {}
  /\ tables' = tables \cup {Min(Allocator!FreeRuns(1))}
  /\ UNCHANGED <<pmm, bitmap, majors, l_bestBet, l_inuse, l_allocated>>

(* vmm_map_page() takes a page for a new page table.                       *)
new_page_table ==
  /\ Cardinality(tables) < MaxTables
  /\ Allocator!FreeRuns(1) # {}
  /\ LET p == Min(Allocator!FreeRuns(1))
     IN tables' = tables \cup {p} /\ bitmap' = bitmap \cup {p}
  /\ UNCHANGED <<pmm, majors, l_bestBet, l_inuse, l_allocated>>

reclaim ==
  /\ UNCHANGED <<majors, l_bestBet, l_inuse, l_allocated, tables>>
  /\ Allocator!pmm_reclaim_bootloader_memory

Next ==
  \/ \E req \in Requests : kmalloc_fits(req) \/ kmalloc_grows(req)
  \/ \E i \in DOMAIN majors : \E k \in DOMAIN majors[i].minors :
       kfree(i, k) \/ \E req \in Requests : krealloc_shrinks(i, k, req)
  \/ new_page_table
  \/ reclaim

Spec == Init /\ [][Next]_vars

-----------------------------------------------------------------------------
(* Properties.                                                             *)

Major == [page : Nat, pages : Nat, usage : Nat,
          minors : Seq([at : Nat, size : Nat, req : Nat])]

TypeOK ==
  /\ majors \in Seq(Major)
  /\ l_bestBet \in Nat \cup {nullptr}
  /\ l_inuse \in Nat /\ l_allocated \in Nat
  /\ tables \subseteq Nat /\ bitmap \subseteq Nat

(* The minors of a major are listed in the order of their addresses, lie   *)
(* inside the major behind its header and do not overlap, and each block   *)
(* holds what was asked for: blocks never share a byte, whatever the order *)
(* in which they were allocated, shrunk and freed.                         *)
BlocksApart ==
  \A i \in DOMAIN majors :
    /\ \A k \in 0 .. Len(majors[i].minors) : Gap(majors[i], k) >= 0
    /\ \A k \in DOMAIN majors[i].minors :
         SizeOf(majors[i].minors[k].req) <= majors[i].minors[k].size

(* The counters that decide where kmalloc looks say what the lists say,    *)
(* and never pass below zero.                                              *)
Accounting ==
  /\ TypeOK
  /\ \A i \in DOMAIN majors :
       majors[i].usage = MajorHeader
         + MapThenSumSet(LAMBDA k : majors[i].minors[k].size + MinorHeader, DOMAIN majors[i].minors)
  /\ l_allocated = MapThenSumSet(LAMBDA i : Bytes(majors[i]), DOMAIN majors)
  /\ l_inuse + BlockCount * MinorHeader + Len(majors) * MajorHeader
       = MapThenSumSet(LAMBDA i : majors[i].usage, DOMAIN majors)

(* l_bestBet never points to a major that was given back.                  *)
BestBetListed ==
  l_bestBet # nullptr => \E i \in DOMAIN majors : majors[i].page = l_bestBet

(* "return nullptr; // uh oh, we ran out of memory": a major is only ever  *)
(* placed on pages that may be handed out and are marked used.             *)
MajorsOwnPages ==
  \A i \in DOMAIN majors : 
    Allocator!Run(majors[i].page, majors[i].pages) \subseteq bitmap \cap Allocator!Available

(* Heap and page tables never share a page with each other, the bitmap or  *)
(* the loader, and a page that neither holds can be allocated again: the   *)
(* heap gives every page back with the last block in it.                   *)
PagesAccounted ==
  /\ MajorsOwnPages
  /\ \A i, j \in DOMAIN majors : i # j => majors[i].page # majors[j].page
  /\ \A i \in DOMAIN majors : majors[i].minors # <<>>
  /\ Allocator!HeldApart /\ Allocator!OnlyMemory /\ Allocator!NothingLost

(* The heap asks for more pages only if no major has a gap that is large   *)
(* enough, although the search starts in the middle of the list.           *)
GrowsOnlyWhenFull ==
  [][Len(majors') > Len(majors) =>
       \A i \in DOMAIN majors : Gaps(majors[i], Last(majors').minors[1].size) = {}]_vars

(* The heap and the page tables use the page allocator as it promises: all *)
(* they do to its bitmap are allocations, and frees of what they hold.     *)
UsesAllocator == Allocator!Spec
=============================================================================
