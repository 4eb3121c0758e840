--------------------------- MODULE MCTaskDispatch ---------------------------
(* Small instances of TaskDispatch for TLC. *)
EXTENDS TaskDispatch, TLC

CONSTANTS ff, ie, c1, c2, c3, t1, t2, t3, k1, k2

\* Two instances of one browser and one of another.
MCBrowserOf == (c1 :> ff) @@ (c2 :> ff) @@ (c3 :> ie)

\* A task for no browser between two for both.
MCListed == (t1 :> {ff, ie}) @@ (t2 :> {}) @@ (t3 :> {ff, ie})

\* Tasks for all browsers of the project, the common case.
MCAllBrowsers == [t \in Tasks |-> {ff, ie}]

\* Results of one task are unknown to the other.
MCKissList == (t1 :> <<k1>>) @@ (t2 :> <<k2>>) @@ (t3 :> <<k2>>)
=============================================================================
