---------------------------- MODULE ResultTable ----------------------------
(***************************************************************************)
(* One result table of WaMole (ResultTableImpl with its DeadLine): which   *)
(* kiss each browser gets next, which results have arrived, and when the   *)
(* table declares the task finished.  The callers are the holders of the   *)
(* table's browsers.  A holder lets one notice in at a time, so each       *)
(* browser has one call in progress; the calls of different browsers       *)
(* interleave, store and getNextExcutableKiss under the table's monitor,   *)
(* isDead without it.  A holder told that the table is dead takes a task   *)
(* from the queue; then, or by another thread that starts a task, it may   *)
(* get another processor or none, and never serves this table again.       *)
(*                                                                         *)
(* A kiss is its position in kissList.  A kiss name is the LAST position   *)
(* that has it, which is what getKissIndex answers for a name.  A result   *)
(* is abstracted to its presence in the table.  Time is in units of a      *)
(* second, and deadline - now is kept instead of the two clock readings.   *)
(***************************************************************************)
EXTENDS Integers, FiniteSets

CONSTANTS
  Browsers,   \* browserList
  Size,       \* kissList.size()
  Interval,   \* seconds allowed per kiss, the project's "interval" property
  CellOf,     \* kiss position -> the position its name is looked up at
  Deletable,  \* names whose case file may disappear while the task runs
  Live        \* the browsers that never stop asking

Pos == 0..(Size - 1)

ASSUME BrowsersAssumption == IsFiniteSet(Browsers) /\ Browsers # {}
ASSUME SizeAssumption == Size \in Nat
ASSUME IntervalAssumption == Interval \in Nat
ASSUME CellAssumption ==
  /\ CellOf \in [Pos -> Pos]
  /\ \A p \in Pos : p <= CellOf[p] /\ CellOf[CellOf[p]] = CellOf[p]

Names == {CellOf[p] : p \in Pos}

ASSUME DeletableAssumption == Deletable \subseteq Names
ASSUME LiveAssumption == Live \subseteq Browsers

VARIABLES
  results,       \* the cells of each browser that hold a result
  currentIndex,  \* position from which each browser is served next
  successCount,  \* results counted for each browser
  count,         \* DeadLine.count, the least success count seen
  remaining,     \* DeadLine.deadline - now, -1 once it has passed
  missing,       \* names whose case file does not exist now
  report,        \* does report.xml exist?
  pc,            \* where the call of each browser's holder is
  gone,          \* browsers whose holder has another processor, or none
  handed         \* history: how often each kiss was given to each browser

vars == <<results, currentIndex, successCount, count, remaining, missing,
          report, pc, gone, handed>>

tableVars == <<results, currentIndex, successCount, count, remaining, handed>>

-----------------------------------------------------------------------------
(***************************************************************************)
(* DeadLine.  buffer = interval * 2 and the deadline is set to             *)
(* now + buffer + interval * (size - count).                               *)
(***************************************************************************)
Buffer == 2 * Interval

Allowance(done) == Buffer + Interval * (Size - done)

\* Mutant: the deadline is not consulted.
isCompleteOnly == count > Size

\* now > deadline || count > size: without any lock, on two plain fields.
isDeadLine == remaining < 0 \/ count > Size

IsLeast(least, counts) == /\ \E b \in Browsers : counts[b] = least
                          /\ \A b \in Browsers : least <= counts[b]

\* Mutant: the fastest browser decides.
getMostCount(counts) == CHOOSE most \in 0..(Size + 1) :
  /\ \E b \in Browsers : counts[b] = most
  /\ \A b \in Browsers : most >= counts[b]

getLeastCount(counts) == CHOOSE least \in 0..(Size + 1) : IsLeast(least, counts)

\* Counts above Size are not told apart: isDead only asks count > size.
Capped(n) == IF n > Size THEN Size + 1 ELSE n

\* Mutant: decrease grants the time of the old count.
decreaseStale(least) ==
  IF least > count
  THEN count' = least /\ remaining' = Allowance(count)
  ELSE UNCHANGED <<count, remaining>>

\* Mutant: decrease renews the deadline when the least count did not grow.
decreaseAlways(least) ==
  IF least >= count
  THEN count' = least /\ remaining' = Allowance(least)
  ELSE UNCHANGED <<count, remaining>>

decrease(least) ==
  IF least > count
  THEN count' = least /\ remaining' = Allowance(least)
  ELSE UNCHANGED <<count, remaining>>

-----------------------------------------------------------------------------
(***************************************************************************)
(* getNextExcutableKiss: from currentIndex on, every kiss whose case file  *)
(* is gone gets an empty result (storeEmpty) and is counted; the first     *)
(* other one is handed out.  `cells` and `done` are the browser's results  *)
(* and success count when the method is entered.  The code increments      *)
(* currentIndex past the end too; all positions from Size on are one here, *)
(* as they are only compared with the size.                                *)
(***************************************************************************)
Skippable(from, to) == \A p \in from..(to - 1) : CellOf[p] \in missing

NextExcutable(b, next) == /\ Skippable(currentIndex[b], next)
                          /\ next < Size => CellOf[next] \notin missing

\* Mutant: the loop writes no cell.
FilledUnwritten(b, cells, next) == cells

Filled(b, cells, next) ==
  cells \union {CellOf[p] : p \in currentIndex[b]..(next - 1)}

\* Mutant: storeEmpty does not count.
CountedWithoutEmpty(b, done, next) == Capped(done)

Counted(b, done, next) == Capped(done + (next - currentIndex[b]))

\* Mutants: the cursor stays on the kiss; the cursor rewinds at the end.
IndexOnKiss(next) == next
IndexRewound(next) == IF next < Size THEN next + 1 ELSE 0

IndexAfter(next) == IF next < Size THEN next + 1 ELSE Size

Advance(b, cells, done) ==
  \E next \in currentIndex[b]..Size :
    /\ NextExcutable(b, next)
    /\ results' = [results EXCEPT ![b] = Filled(b, cells, next)]
    /\ successCount' = [successCount EXCEPT ![b] = Counted(b, done, next)]
    /\ decrease(getLeastCount(successCount'))
    /\ currentIndex' = [currentIndex EXCEPT ![b] = IndexAfter(next)]
    /\ handed' = IF next < Size THEN [handed EXCEPT ![b][next] = @ + 1]
                                ELSE handed
    /\ pc' = [pc EXCEPT ![b] = IF next < Size THEN "idle" ELSE "exhausted"]
    /\ UNCHANGED <<missing, report, gone>>

\* The holder has this table's processor, and no notice inside.
Callable(b) == b \notin gone /\ pc[b] = "idle"

\* A notice without a result.
Poll(b) == Callable(b) /\ Advance(b, results[b], successCount[b])

\* A notice with a result.  Nothing ties the result to the kiss the table
\* gave last: it may be late, repeated, or of a task that had the same names.
Store(b, name) ==
  /\ Callable(b)
  /\ Advance(b, results[b] \union {name}, successCount[b] + 1)

Notice(b) == Poll(b) \/ \E name \in Names : Store(b, name)

-----------------------------------------------------------------------------
(***************************************************************************)
(* isDead, asked after a null answer: the deadline is read, report() runs  *)
(* if it has passed, and then the deadline is read AGAIN for the answer.   *)
(* Between the two the clock moves and other browsers store results.  A    *)
(* holder that got another processor before asks that one's table instead. *)
(***************************************************************************)
FirstLook(b) ==
  /\ b \notin gone /\ pc[b] = "exhausted"
  /\ pc' = [pc EXCEPT ![b] = IF isDeadLine THEN "reporting" ELSE "looking"]
  /\ UNCHANGED <<tableVars, missing, report, gone>>

\* Mutant: report() writes only over the report of an earlier task.
ReportOverOld(b) == /\ pc[b] = "reporting"
                    /\ pc' = [pc EXCEPT ![b] = "reported"]
                    /\ UNCHANGED <<tableVars, missing, report, gone>>

\* report() writes the file only if there is none.
Report(b) == /\ pc[b] = "reporting"
             /\ report' = TRUE
             /\ pc' = [pc EXCEPT ![b] = "reported"]
             /\ UNCHANGED <<tableVars, missing, gone>>

\* The second look may be the first to find the table dead: the holder leaves
\* without a report.
SecondLook(b) ==
  /\ pc[b] \in {"looking", "reported"}
  /\ pc' = [pc EXCEPT ![b] = IF ~ isDeadLine THEN "idle"
                             ELSE IF @ = "reported" THEN "leaving"
                                                    ELSE "unreported"]
  /\ UNCHANGED <<tableVars, missing, report, gone>>

ToldDead(b) == pc[b] \in {"leaving", "unreported"}

\* Mutant: a holder that finds no task keeps its processor.
LeaveNothing(b) == /\ ToldDead(b)
                   /\ pc' = [pc EXCEPT ![b] = "left"]
                   /\ UNCHANGED <<tableVars, missing, report, gone>>

\* Told that the table is dead, the holder takes a task from the queue.  If
\* there is none it has no processor any more.  Else the holders of the new
\* task's browsers get its processor, and this one keeps its own if its browser
\* is not among them (unless it has lost it already).
Leave(b) ==
  /\ ToldDead(b)
  /\ \/ /\ gone' = gone \union {b}
        /\ pc' = [pc EXCEPT ![b] = "left"]
     \/ /\ b \notin gone
        /\ pc' = [pc EXCEPT ![b] = "idle"]
        /\ UNCHANGED gone
  /\ UNCHANGED <<tableVars, missing, report>>

-----------------------------------------------------------------------------
(***************************************************************************)
(* The environment: another thread that starts a task, the clock, and the  *)
(* author editing test files.                                              *)
(***************************************************************************)
\* A task that another thread starts, as it leaves a table or adds the task,
\* sets the holder's processor, even in the midst of a call.
Overtake(b) ==
  /\ b \notin gone
  /\ gone' = gone \union {b}
  /\ UNCHANGED <<tableVars, missing, report, pc>>

Tick == /\ remaining >= 0
        /\ remaining' = remaining - 1
        /\ UNCHANGED <<results, currentIndex, successCount, count, missing,
                       report, pc, gone, handed>>

EditCase(name) ==
  /\ missing' = IF name \in missing THEN missing \ {name}
                                    ELSE missing \union {name}
  /\ UNCHANGED <<tableVars, report, pc, gone>>

\* TaskAdapter took only kisses that had a case, and the constructor grants
\* the whole allowance.  The report of the task before has been collected (one
\* that has not stays, and nothing is written over it).
Init == /\ results = [b \in Browsers |-> {}]
        /\ currentIndex = [b \in Browsers |-> 0]
        /\ successCount = [b \in Browsers |-> 0]
        /\ count = 0
        /\ remaining = Allowance(0)
        /\ missing = {}
        /\ report = FALSE
        /\ pc = [b \in Browsers |-> "idle"]
        /\ gone = {}
        /\ handed = [b \in Browsers |-> [p \in Pos |-> 0]]

\* One step of the call that b's holder makes.  None is possible once the
\* holder is through with this table.
HolderStep(b) == \/ Notice(b)
                 \/ FirstLook(b)
                 \/ Report(b)
                 \/ SecondLook(b)
                 \/ Leave(b)

Next == \/ \E b \in Browsers : HolderStep(b) \/ Overtake(b)
        \/ Tick
        \/ \E name \in Deletable : EditCase(name)

\* The probe's timer in a live browser sends a notice every 20 seconds, threads
\* in isDead are scheduled, and the clock advances.  It reaches this table only
\* as long as the holder has its processor.  The other browsers may hang or be
\* closed at any time.
Fairness == /\ \A b \in Live : WF_vars(HolderStep(b))
            /\ WF_vars(Tick)

Safety == Init /\ [][Next]_vars

Spec == Safety /\ Fairness

-----------------------------------------------------------------------------
(* Properties *)

TypeOK ==
  /\ results \in [Browsers -> SUBSET Names]
  /\ currentIndex \in [Browsers -> 0..Size]
  /\ successCount \in [Browsers -> 0..(Size + 1)]
  /\ count \in 0..(Size + 1)
  /\ remaining \in Int
  /\ missing \subseteq Names
  /\ report \in BOOLEAN
  /\ pc \in [Browsers -> {"idle", "exhausted", "reporting", "reported",
                          "looking", "leaving", "unreported", "left"}]
  /\ gone \subseteq Browsers
  /\ \A b \in Browsers : pc[b] = "left" => b \in gone
  /\ handed \in [Browsers -> [Pos -> Nat]]

\* The deadline is computed from the slowest browser: DeadLine.count is the
\* least success count at all times, whichever browser's call updated it last
\* (decrease is called from store, and from storeEmpty inside the skip loop).
CountIsLeast == IsLeast(count, successCount)

\* Whatever the order of stores, skips and clock steps, a table has at most
\* the buffer plus one interval for each kiss the slowest browser still owes:
\* a stuck browser cannot hold the queue for longer (DeadLine.decrease).
DeadlineBounded == remaining <= Allowance(count)

\* The deadline follows the slowest browser: it is set from the least count,
\* and it is never further away than that count allows.
DeadlineFollows == CountIsLeast /\ DeadlineBounded

\* Every result in the table was counted for its browser, so the slowest
\* count never lags behind the table (duplicated names and late results make
\* the count run ahead, never behind).
FilledAreCounted ==
  \A b \in Browsers : successCount[b] <= Size
                        => Cardinality(results[b]) <= successCount[b]

\* No kiss falls between the cursor and the table: each position the cursor
\* has passed was handed to the browser, or its cell holds a result.
NoKissSkipped ==
  \A b \in Browsers : \A p \in 0..(currentIndex[b] - 1) :
    handed[b][p] > 0 \/ CellOf[p] \in results[b]

\* A browser never gets the same position twice, however its notices with and
\* without results interleave with deleted and restored case files.
HandedAtMostOnce == \A b \in Browsers, p \in Pos : handed[b][p] <= 1

\* The cursor of a browser hands out each position once: none is passed over
\* without a result, and none comes a second time.
CursorRight == NoKissSkipped /\ HandedAtMostOnce

\* The table is dead for good in the end: late or repeated results revive it
\* (decrease moves the deadline), but only finitely often.
DiesForGood == <>[]isDeadLine

\* Another task has the holder, which will never ask this table again, though
\* its last answer was not "dead".
Overtaken(b) == b \in gone /\ pc[b] \in {"idle", "exhausted"}

\* A live browser gets the report written, even if the others hang, unless the
\* deadline passes between its two looks or another task takes its holder.
EventuallyReported ==
  \A b \in Live : <>(report \/ pc[b] = "unreported" \/ Overtaken(b))

Contract == INSTANCE TableContract WITH
  given <- currentIndex,
  released <- {b \in Browsers : ToldDead(b) \/ pc[b] = "left"},
  taken <- gone

\* The table keeps the contract the holder relies on: kisses in list order,
\* none for a browser that another task has, and no browser is told "dead"
\* before its list is used up (BrowserHolderImpl.notice asks isDead only after
\* a null answer).
ImplementsContract == Contract!Safety

\* Every live browser is told "dead" in the end, so that its holder goes on to
\* the next task, or another task takes it, even if the other browsers hang with
\* kisses left to run.
EveryBrowserReleased == Contract!EveryBrowserReleased

\* A live browser is never kept waiting by the others: it goes on to another
\* task, and has the report written first but for the gap of isDead.
ReportedAndReleased == EventuallyReported /\ EveryBrowserReleased
=============================================================================
