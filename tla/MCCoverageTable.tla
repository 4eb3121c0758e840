-------------------------- MODULE MCCoverageTable --------------------------
(* A small instance of CoverageTable for TLC. *)
EXTENDS CoverageTable, TLC

CONSTANTS b1, b2

MCCellOf == [p \in Pos |-> p]

\* Kisses that load the file f, or g, or both with a line of f
\* that has no number.
F == "f" :> (1 :> 1 @@ 2 :> 0)
G == "g" :> (1 :> 2)
Both == "f" :> (1 :> 3 @@ 2 :> -1) @@ "g" :> (1 :> 1)

MCScenarios == {<<F, G, F>>, <<F, Both, G>>, <<Both, F>>}

Swaps == Permutations({b1, b2})
=============================================================================
