------------------------------- MODULE MCRbTree -------------------------------
(* Six nodes: the first tree in which trouble moves up past a grandparent  *)
(* that is not the root.                                                   *)
EXTENDS RbTree, TLC

CONSTANTS n1, n2, n3, n4, n5, n6

MCNodes == {n1, n2, n3, n4, n5, n6}

(* kmalloc may return any free memory.                                     *)
Interchangeable == Permutations(MCNodes)
=============================================================================
