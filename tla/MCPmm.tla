-------------------------------- MODULE MCPmm --------------------------------
(* Memory maps with two bits to a byte and four bytes to a page, so that a *)
(* bitmap page has eight bits.                                             *)
EXTENDS Pmm, TLC

CONSTANTS c1, c2

Entry(first, pages, type) == [first |-> first, pages |-> pages, type |-> type]

(* A hole, so that the top pages are not searched, and an odd number of    *)
(* usable pages, so that memset misses the last searched bit.              *)
Holed == <<Entry(1, 2, "free"), Entry(3, 1, "reserved"), Entry(4, 3, "free"),
           Entry(7, 1, "loader")>>

(* The loader's pages lie below the memory.                                *)
Low == <<Entry(1, 1, "loader"), Entry(2, 1, "reserved"), Entry(3, 5, "reclaimable")>>

(* The bit that memset misses, 4, is of a reserved page: it is stray.      *)
ReservedSlack == <<Entry(1, 3, "free"), Entry(4, 1, "reserved"), Entry(5, 2, "free")>>

(* It is of a page of the loader's, with memory on both sides.             *)
LoaderSlack == <<Entry(1, 3, "free"), Entry(4, 1, "loader"), Entry(5, 2, "free")>>

(* The bitmap fills its page: the last searched bit, 8, is behind it, and  *)
(* so are those of the pages 9 and 10.                                     *)
FullPage == <<Entry(1, 3, "free"), Entry(4, 1, "reserved"), Entry(5, 6, "free")>>

(* The bitmap needs two pages, so the first region, page 0, is passed over *)
(* and handed out.                                                         *)
ZeroUsable == <<Entry(0, 1, "free"), Entry(1, 1, "loader"), Entry(2, 4, "reserved"),
                Entry(6, 10, "free")>>

MCMaps == {Holed, Low, ReservedSlack, LoaderSlack, FullPage, ZeroUsable}

Symmetry == Permutations({c1, c2})
=============================================================================
