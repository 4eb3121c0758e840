--------------------------- MODULE MCResultTable ---------------------------
(* A small instance of ResultTable for TLC. *)
EXTENDS ResultTable

\* Three kisses, the first and the last of the same name.
MCDuplicate == [p \in 0..2 |-> IF p = 0 THEN 2 ELSE p]
=============================================================================
