-------------------------- MODULE MCHolderFactory ---------------------------
(* Small instances of HolderFactory for TLC. *)
EXTENDS HolderFactory

CONSTANTS ff, ie, op, r1, r2, r3, r4
=============================================================================
