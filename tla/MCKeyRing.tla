------------------------------ MODULE MCKeyRing ------------------------------
(* A ring of two slots: it fills, wraps and is emptied within five keys.   *)
EXTENDS KeyRing
=============================================================================
