-------------------------------- MODULE MCVfs --------------------------------
(* Five nodes, two of them the roots, and paths of two names.              *)
EXTENDS Vfs, TLC

CONSTANTS root, fs, n1, n2, n3, a, b

MCNodes == {root, fs, n1, n2, n3}
MCNames == {a, b}

(* kmalloc may return any free memory, and no name is special.             *)
Interchangeable == Permutations({n1, n2, n3}) \cup Permutations(MCNames)
=============================================================================
