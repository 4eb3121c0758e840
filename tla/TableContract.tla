--------------------------- MODULE TableContract ---------------------------
(***************************************************************************)
(* What BrowserHolderImpl.notice relies on when it talks to a ResultTable: *)
(* to every browser of the table the kisses are given in list order, none  *)
(* twice, and a browser is released (isDead answers true) only once the    *)
(* table has no kiss left for it.  A table may pass over a kiss, since     *)
(* its case file may have gone, and every browser that keeps asking is     *)
(* released in the end, unless another task takes it away before.          *)
(***************************************************************************)
EXTENDS Naturals

CONSTANTS
  Browsers,   \* the browser names of the task
  Live,       \* the browsers that never stop asking
  Size        \* how many kisses the task has

VARIABLES
  given,      \* how many kisses of the list are behind each browser
  released,   \* the browsers whose last question was answered "dead"
  taken       \* the browsers that another task has, or none

contractVars == <<given, released, taken>>

Init == /\ given = [b \in Browsers |-> 0]
        /\ released = {}
        /\ taken = {}

\* b gets a kiss, or learns that every kiss from its position on is gone.
Give(b) == /\ b \notin taken \union released
           /\ given[b] < Size
           /\ \E p \in (given[b] + 1)..Size : given' = [given EXCEPT ![b] = p]
           /\ UNCHANGED <<released, taken>>

\* b has nothing left to run and is told that the table is dead.
Release(b) == /\ given[b] = Size
              /\ released' = released \union {b}
              /\ UNCHANGED <<given, taken>>

\* A released browser whose holder still keeps this table asks again.
AskAgain(b) == /\ b \in released \ taken
               /\ released' = released \ {b}
               /\ UNCHANGED <<given, taken>>

\* The holder of b gets another processor, or none.
Take(b) == /\ b \notin taken
           /\ taken' = taken \union {b}
           /\ UNCHANGED <<given, released>>

Next == \E b \in Browsers : Give(b) \/ Release(b) \/ AskAgain(b) \/ Take(b)

Safety == Init /\ [][Next]_contractVars

\* Every browser that keeps asking is released in the end, or is taken away.
EveryBrowserReleased == \A b \in Live : <>(b \in released \union taken)

Spec == Safety /\ EveryBrowserReleased
=============================================================================
