-------------------------------- MODULE MCShell --------------------------------
(* Two nodes beside the root and two names; files of three bytes.          *)
EXTENDS Shell, TLC

CONSTANTS root, n1, n2, a, b, gap

MCNodes == {root, n1, n2}
MCNames == {a, b}
MCBytes == MCNames \cup {gap}

(* The root; and relative, the working directory, what is above and in it. *)
MCArgs ==
  {[absolute |-> TRUE, tokens |-> <<>>]}
    \cup [absolute : {FALSE}, tokens : {<<".">>, <<"..">>} \cup {<<x>> : x \in MCNames}]

MCSays == {<<x>> : x \in MCNames}
MCHelpLines == << <<gap>>, <<gap>> >>

Interchangeable == Permutations({n1, n2}) \cup Permutations(MCNames)
=============================================================================
