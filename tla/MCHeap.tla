------------------------------- MODULE MCHeap -------------------------------
(* Majors of two pages of five bytes, eight of them behind the header: a   *)
(* block takes three or four, so that two blocks fill a major, and two of  *)
(* the smaller kind leave gaps the larger does not fit in.                 *)
EXTENDS Heap

Entry(first, pages, type) == [first |-> first, pages |-> pages, type |-> type]

(* The bitmap takes page 1 and the loader's page 4 parts the others: there *)
(* is room for two majors and a page table, and once the loader's memory   *)
(* is reclaimed for three majors.  Pages 8 and 9 are never searched.       *)
MCMaps == {<<Entry(1, 3, "free"), Entry(4, 1, "loader"), Entry(5, 5, "free")>>}
=============================================================================
