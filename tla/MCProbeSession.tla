--------------------------- MODULE MCProbeSession ---------------------------
(* A small instance of ProbeSession for TLC. *)
EXTENDS ProbeSession

\* Two tasks of the browser with a kiss of the same name, the first with one that
\* the second does not know, and between them one of another browser, which knows
\* only that one.  The page of that kiss calls done twice, which ends its run and
\* may end the next.
MCKissList == <<<<"once", "twice">>, <<"twice">>, <<"once">>>>
MCOurs == {1, 3}
MCCalls == [n \in Names |-> IF n = "twice" THEN 2 ELSE 1]
=============================================================================
