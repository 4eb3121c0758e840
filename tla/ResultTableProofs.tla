------------------------- MODULE ResultTableProofs -------------------------
(***************************************************************************)
(* Proofs about one result table, for every set of browsers, every list of *)
(* kisses (with or without repeated names) and every interval.             *)
(*                                                                         *)
(* All calls that change the table go through Advance, so each invariant   *)
(* has a lemma saying that Advance keeps it, used for Poll and for Store.  *)
(***************************************************************************)
EXTENDS ResultTable, FiniteSetTheorems, WellFoundedInduction, TLAPS

-----------------------------------------------------------------------------
(* The least success count *)

LessThan == {pair \in Nat \X Nat : pair[1] < pair[2]}

\* The order of the natural numbers, as a set of pairs, is well founded.
LEMMA LessThanWellFounded == IsWellFoundedOn(LessThan, Nat)
  BY NatLessThanWellFounded DEF LessThan, OpToRel

\* getLeastCount really returns the least entry: one that occurs, and that no
\* entry is below (ResultTableImpl.getLeastCount).
LEMMA LeastCount ==
  ASSUME NEW counts \in [Browsers -> 0..(Size + 1)]
  PROVE  /\ getLeastCount(counts) \in 0..(Size + 1)
         /\ IsLeast(getLeastCount(counts), counts)
<1> DEFINE T == {counts[b] : b \in Browsers}
<1>1. T \subseteq Nat /\ T # {}
  BY BrowsersAssumption, SizeAssumption
<1>2. PICK x \in T : \A y \in T : ~ (<<y, x>> \in LessThan)
  <2> HIDE DEF T
  <2> QED BY <1>1, LessThanWellFounded, WFMin
<1>3. x \in 0..(Size + 1) /\ IsLeast(x, counts)
  <2>1. \A b \in Browsers : counts[b] \in Nat /\ x \in Nat /\ ~(counts[b] < x)
    BY <1>1, <1>2 DEF LessThan
  <2> QED BY <1>2, <2>1, SizeAssumption DEF IsLeast
<1> QED BY <1>3 DEF getLeastCount

-----------------------------------------------------------------------------
(* Types *)

LEMMA AllowanceType == \A n \in 0..(Size + 1) : Allowance(n) \in Int
  BY SizeAssumption, IntervalAssumption DEF Allowance, Buffer

\* What a call may pass to Advance: the cells and the count it starts with.
Starts(b, cells, done) == /\ results[b] \subseteq cells
                          /\ cells \subseteq Names
                          /\ done \in Nat
                          /\ successCount[b] <= done

LEMMA DecreaseType ==
  ASSUME NEW least \in 0..(Size + 1), decrease(least),
         count \in 0..(Size + 1), remaining \in Int
  PROVE  count' \in 0..(Size + 1) /\ remaining' \in Int
  BY AllowanceType DEF decrease

LEMMA AdvanceTypes ==
  ASSUME TypeOK, NEW b \in Browsers, NEW cells, NEW done,
         Callable(b), Starts(b, cells, done), Advance(b, cells, done)
  PROVE  TypeOK'
<1>1. PICK next \in currentIndex[b]..Size :
        /\ results' = [results EXCEPT ![b] = Filled(b, cells, next)]
        /\ successCount' = [successCount EXCEPT ![b] = Counted(b, done, next)]
        /\ decrease(getLeastCount(successCount'))
        /\ currentIndex' = [currentIndex EXCEPT ![b] = IndexAfter(next)]
        /\ handed' = IF next < Size THEN [handed EXCEPT ![b][next] = @ + 1]
                                    ELSE handed
        /\ pc' = [pc EXCEPT ![b] = IF next < Size THEN "idle" ELSE "exhausted"]
        /\ UNCHANGED <<missing, report, gone>>
  BY DEF Advance
<1>2. currentIndex[b] \in 0..Size /\ next \in 0..Size
  BY <1>1, SizeAssumption DEF TypeOK
<1>3. results' \in [Browsers -> SUBSET Names]
  <2>1. Filled(b, cells, next) \subseteq Names
    BY <1>1, <1>2, SizeAssumption DEF Filled, Starts, Names, Pos
  <2> QED BY <1>1, <2>1 DEF TypeOK
<1>4. successCount' \in [Browsers -> 0..(Size + 1)]
  <2>1. Counted(b, done, next) \in 0..(Size + 1)
    BY <1>1, <1>2, SizeAssumption DEF Counted, Capped, Starts
  <2> QED BY <1>1, <2>1 DEF TypeOK
<1>5. count' \in 0..(Size + 1) /\ remaining' \in Int
  BY <1>1, <1>4, LeastCount, DecreaseType DEF TypeOK
<1>6. currentIndex' \in [Browsers -> 0..Size]
  <2>1. IndexAfter(next) \in 0..Size
    BY <1>2, SizeAssumption DEF IndexAfter
  <2> QED BY <1>1, <2>1 DEF TypeOK
<1>7. handed' \in [Browsers -> [Pos -> Nat]]
  <2>1. CASE next < Size
    <3>1. next \in Pos
      BY <1>2, <2>1, SizeAssumption DEF Pos
    <3> QED BY <1>1, <2>1, <3>1 DEF TypeOK
  <2>2. CASE ~(next < Size)
    BY <1>1, <2>2 DEF TypeOK
  <2> QED BY <2>1, <2>2
<1>8. /\ pc' \in [Browsers -> {"idle", "exhausted", "reporting", "reported",
                             "looking", "leaving", "unreported", "left"}]
      /\ \A x \in Browsers : pc'[x] = "left" => x \in gone'
  BY <1>1 DEF TypeOK
<1> QED BY <1>1, <1>3, <1>4, <1>5, <1>6, <1>7, <1>8 DEF TypeOK

\* A notice without a result, and one with a result, start Advance properly.
LEMMA PollStarts ==
  ASSUME TypeOK, NEW b \in Browsers
  PROVE  Starts(b, results[b], successCount[b])
  BY SizeAssumption DEF TypeOK, Starts

LEMMA StoreStarts ==
  ASSUME TypeOK, NEW b \in Browsers, NEW name \in Names
  PROVE  Starts(b, results[b] \union {name}, successCount[b] + 1)
  BY SizeAssumption DEF TypeOK, Starts

LEMMA InitTypeOK == Init => TypeOK
<1> SUFFICES ASSUME Init PROVE TypeOK
  OBVIOUS
<1>1. remaining \in Int
  BY AllowanceType, SizeAssumption DEF Init
<1>2. \A b \in Browsers : pc[b] = "idle"
  BY DEF Init
<1>3. /\ pc \in [Browsers -> {"idle", "exhausted", "reporting", "reported",
                           "looking", "leaving", "unreported", "left"}]
      /\ \A b \in Browsers : pc[b] = "left" => b \in gone
  BY <1>2 DEF Init
<1>4. /\ results \in [Browsers -> SUBSET Names]
      /\ currentIndex \in [Browsers -> 0..Size]
      /\ successCount \in [Browsers -> 0..(Size + 1)]
      /\ handed \in [Browsers -> [Pos -> Nat]]
  BY SizeAssumption DEF Init
<1>5. /\ count \in 0..(Size + 1)
      /\ missing \subseteq Names /\ gone \subseteq Browsers
  BY SizeAssumption DEF Init
<1>6. report \in BOOLEAN
  BY Zenon DEF Init
<1> QED BY <1>1, <1>3, <1>4, <1>5, <1>6 DEF TypeOK

\* Every call of every browser keeps the variables in their types, for any
\* number of browsers and kisses.
THEOREM TypeCorrect == Safety => []TypeOK
<1>1. Init => TypeOK
  BY InitTypeOK
<1>2. TypeOK /\ [Next]_vars => TypeOK'
  <2> SUFFICES ASSUME TypeOK, [Next]_vars PROVE TypeOK'
    OBVIOUS
  <2>1. ASSUME NEW b \in Browsers, Poll(b) PROVE TypeOK'
    BY <2>1, PollStarts, AdvanceTypes DEF Poll
  <2>2. ASSUME NEW b \in Browsers, NEW name \in Names, Store(b, name)
        PROVE  TypeOK'
    BY <2>2, StoreStarts, AdvanceTypes DEF Store
  <2>3. ASSUME NEW b \in Browsers, FirstLook(b) \/ SecondLook(b)
        PROVE  TypeOK'
    BY <2>3 DEF FirstLook, SecondLook, tableVars, TypeOK
  <2>4. ASSUME NEW b \in Browsers, Report(b) PROVE TypeOK'
    BY <2>4 DEF Report, tableVars, TypeOK
  <2>5. CASE Tick
    BY <2>5 DEF Tick, TypeOK
  <2>6. ASSUME NEW name \in Deletable, EditCase(name) PROVE TypeOK'
    BY <2>6, DeletableAssumption DEF EditCase, tableVars, TypeOK
  <2>7. ASSUME NEW b \in Browsers, Leave(b) \/ Overtake(b) PROVE TypeOK'
    BY <2>7 DEF Leave, Overtake, tableVars, TypeOK
  <2>8. CASE UNCHANGED vars
    BY <2>8 DEF vars, TypeOK
  <2> QED BY <2>1, <2>2, <2>3, <2>4, <2>5, <2>6, <2>7, <2>8
          DEF Next, HolderStep, Notice
<1> QED BY <1>1, <1>2, PTL DEF Safety

-----------------------------------------------------------------------------
(***************************************************************************)
(* The deadline.  DeadLine keeps no list of counts: it sees one number per *)
(* call and must still be at the least of them.  The argument is that the  *)
(* success counts only grow (Starts says so of the call, Counted of the    *)
(* skip loop), hence a least count that is not above the recorded one is   *)
(* equal to it.                                                            *)
(***************************************************************************)
DeadlineInv == CountIsLeast /\ DeadlineBounded

LEMMA AdvanceDeadline ==
  ASSUME TypeOK, DeadlineInv, NEW b \in Browsers, NEW cells, NEW done,
         Callable(b), Starts(b, cells, done), Advance(b, cells, done)
  PROVE  DeadlineInv'
<1> DEFINE least == getLeastCount(successCount')
<1>1. PICK next \in currentIndex[b]..Size :
        /\ successCount' = [successCount EXCEPT ![b] = Counted(b, done, next)]
        /\ decrease(least)
  BY DEF Advance
<1>2. successCount' \in [Browsers -> 0..(Size + 1)]
  BY AdvanceTypes DEF TypeOK
<1>3. least \in 0..(Size + 1) /\ IsLeast(least, successCount')
  BY <1>2, LeastCount
<1>4. \A x \in Browsers : successCount[x] <= successCount'[x]
  <2>1. successCount[b] <= Counted(b, done, next)
    BY <1>1, SizeAssumption DEF Counted, Capped, Starts, TypeOK
  <2> QED BY <1>1, <2>1, SizeAssumption DEF TypeOK
<1> HIDE DEF least
<1>5. CASE least > count
  <2>1. count' = least /\ remaining' = Allowance(least)
    BY <1>1, <1>5 DEF decrease
  <2>2. remaining' <= Allowance(count')
    BY <2>1, <1>3, AllowanceType
  <2> QED BY <1>3, <2>1, <2>2
          DEF DeadlineInv, CountIsLeast, DeadlineBounded, IsLeast, Allowance, Buffer
<1>6. CASE ~(least > count)
  <2>1. UNCHANGED <<count, remaining>>
    BY <1>1, <1>6 DEF decrease
  <2>2. count <= least
    <3>1. PICK x \in Browsers : successCount'[x] = least
      BY <1>3 DEF IsLeast
    <3>2. count <= successCount[x]
      BY DEF DeadlineInv, CountIsLeast, IsLeast
    <3> QED BY <1>2, <1>3, <1>4, <3>1, <3>2, SizeAssumption DEF TypeOK
  <2>3. least = count
    BY <1>3, <1>6, <2>2, SizeAssumption DEF TypeOK
  <2> QED BY <1>3, <2>1, <2>3
          DEF DeadlineInv, CountIsLeast, DeadlineBounded, IsLeast, Allowance, Buffer
<1> QED BY <1>5, <1>6

\* Inductive together: the new deadline is set from the new count.
LEMMA DeadlineInvariant == Safety => [](CountIsLeast /\ DeadlineBounded)
<1>1. Init => DeadlineInv
  <2> SUFFICES ASSUME Init PROVE DeadlineInv
    OBVIOUS
  <2>1. IsLeast(count, successCount)
    BY BrowsersAssumption DEF Init, IsLeast
  <2>2. remaining <= Allowance(count)
    BY AllowanceType, SizeAssumption DEF Init
  <2> QED BY <2>1, <2>2 DEF DeadlineInv, CountIsLeast, DeadlineBounded
<1>2. TypeOK /\ DeadlineInv /\ [Next]_vars => DeadlineInv'
  <2> SUFFICES ASSUME TypeOK, DeadlineInv, [Next]_vars PROVE DeadlineInv'
    OBVIOUS
  <2> USE DEF DeadlineInv, CountIsLeast, DeadlineBounded, IsLeast, Allowance,
              Buffer
  <2>1. ASSUME NEW b \in Browsers, Poll(b) PROVE DeadlineInv'
    BY <2>1, PollStarts, AdvanceDeadline DEF Poll
  <2>2. ASSUME NEW b \in Browsers, NEW name \in Names, Store(b, name)
        PROVE  DeadlineInv'
    BY <2>2, StoreStarts, AdvanceDeadline DEF Store
  <2>3. ASSUME NEW b \in Browsers, FirstLook(b) \/ Report(b) \/ SecondLook(b)
        PROVE  DeadlineInv'
    BY <2>3 DEF FirstLook, Report, SecondLook, tableVars
  <2>4. CASE Tick
    <3>1. remaining' <= remaining /\ UNCHANGED <<count, successCount>>
      BY <2>4 DEF Tick, TypeOK
    <3> QED BY <2>4, <3>1, AllowanceType DEF Tick, TypeOK
  <2>5. ASSUME NEW name \in Deletable, EditCase(name) PROVE DeadlineInv'
    BY <2>5 DEF EditCase, tableVars
  <2>6. ASSUME NEW b \in Browsers, Leave(b) \/ Overtake(b) PROVE DeadlineInv'
    BY <2>6 DEF Leave, Overtake, tableVars
  <2>7. CASE UNCHANGED vars
    BY <2>7 DEF vars
  <2> QED BY <2>1, <2>2, <2>3, <2>4, <2>5, <2>6, <2>7
          DEF Next, HolderStep, Notice
<1>3. DeadlineInv => CountIsLeast /\ DeadlineBounded
  BY DEF DeadlineInv
<1> QED BY <1>1, <1>2, <1>3, TypeCorrect, PTL DEF Safety

\* The deadline's count is the least success count, and the deadline never
\* leaves that browser more than the buffer and one interval for each kiss it
\* still owes (DeadLine.decrease, ResultTableImpl.getLeastCount).
THEOREM DeadlineCorrect == Safety => []DeadlineFollows
<1>1. CountIsLeast /\ DeadlineBounded => DeadlineFollows
  BY DEF DeadlineFollows
<1> QED BY <1>1, DeadlineInvariant, PTL

-----------------------------------------------------------------------------
(***************************************************************************)
(* The cursor.  HandedAtMostOnce is not inductive alone: the cursor must   *)
(* also never stand at or before a position already handed out.            *)
(***************************************************************************)
Untouched == \A b \in Browsers : \A p \in Pos :
               p >= currentIndex[b] => handed[b][p] = 0

CursorInv == HandedAtMostOnce /\ Untouched /\ NoKissSkipped

LEMMA AdvanceCursor ==
  ASSUME TypeOK, CursorInv, NEW b \in Browsers, NEW cells, NEW done,
         Starts(b, cells, done), Advance(b, cells, done)
  PROVE  CursorInv'
<1>1. PICK next \in currentIndex[b]..Size :
        /\ results' = [results EXCEPT ![b] = Filled(b, cells, next)]
        /\ currentIndex' = [currentIndex EXCEPT ![b] = IndexAfter(next)]
        /\ handed' = IF next < Size THEN [handed EXCEPT ![b][next] = @ + 1]
                                    ELSE handed
  BY DEF Advance
<1>2. currentIndex[b] \in 0..Size /\ next \in 0..Size /\ currentIndex[b] <= next
  BY <1>1, SizeAssumption DEF TypeOK
<1>3. ASSUME NEW x \in Browsers, x # b
      PROVE  /\ handed'[x] = handed[x]
             /\ results'[x] = results[x]
             /\ currentIndex'[x] = currentIndex[x]
  BY <1>1, <1>3 DEF TypeOK
<1>4. /\ results'[b] = Filled(b, cells, next)
      /\ currentIndex'[b] = IndexAfter(next)
  BY <1>1 DEF TypeOK
<1>5. ASSUME NEW p \in Pos
      PROVE  handed'[b][p] = IF p = next THEN handed[b][p] + 1 ELSE handed[b][p]
  BY <1>1, <1>2, <1>5, SizeAssumption DEF TypeOK, Pos
<1>6. HandedAtMostOnce'
  <2> SUFFICES ASSUME NEW x \in Browsers, NEW p \in Pos
               PROVE  handed'[x][p] <= 1
    BY DEF HandedAtMostOnce
  <2>1. CASE x = b /\ p = next
    BY <1>2, <1>5, <2>1 DEF CursorInv, Untouched
  <2>2. CASE ~(x = b /\ p = next)
    BY <1>3, <1>5, <2>2 DEF CursorInv, HandedAtMostOnce
  <2> QED BY <2>1, <2>2
<1>7. Untouched'
  <2> SUFFICES ASSUME NEW x \in Browsers, NEW p \in Pos, p >= currentIndex'[x]
               PROVE  handed'[x][p] = 0
    BY DEF Untouched
  <2>1. CASE x = b
    <3>1. p > next /\ p >= currentIndex[b]
      BY <1>2, <1>4, <2>1, SizeAssumption DEF IndexAfter, Pos
    <3> QED BY <1>2, <1>5, <2>1, <3>1 DEF CursorInv, Untouched, Pos
  <2>2. CASE x # b
    BY <1>3, <2>2 DEF CursorInv, Untouched
  <2> QED BY <2>1, <2>2
<1>8. NoKissSkipped'
  <2> SUFFICES ASSUME NEW x \in Browsers, NEW p \in 0..(currentIndex'[x] - 1)
               PROVE  handed'[x][p] > 0 \/ CellOf[p] \in results'[x]
    BY DEF NoKissSkipped
  <2>1. CASE x = b
    <3>1. p \in Pos /\ p <= next
      BY <1>2, <1>4, <2>1, SizeAssumption DEF IndexAfter, Pos
    <3>2. CASE p < currentIndex[b]
      <4>1. handed[b][p] > 0 \/ CellOf[p] \in results[b]
        BY <1>2, <3>1, <3>2 DEF CursorInv, NoKissSkipped, Pos
      <4>2. handed[b][p] > 0 => handed'[b][p] > 0
        BY <1>5, <3>1 DEF TypeOK
      <4>3. results[b] \subseteq results'[b]
        BY <1>4 DEF Filled, Starts
      <4> QED BY <2>1, <4>1, <4>2, <4>3
    <3>3. CASE p >= currentIndex[b] /\ p < next
      BY <1>2, <1>4, <2>1, <3>1, <3>3 DEF Filled, Pos
    <3>4. CASE p = next
      BY <1>5, <2>1, <3>1, <3>4 DEF TypeOK
    <3> QED BY <1>2, <3>1, <3>2, <3>3, <3>4 DEF Pos
  <2>2. CASE x # b
    BY <1>3, <2>2 DEF CursorInv, NoKissSkipped
  <2> QED BY <2>1, <2>2
<1> QED BY <1>6, <1>7, <1>8 DEF CursorInv

\* The two facts about the cursor, from one strengthening.
LEMMA CursorInvariant == Safety => [](HandedAtMostOnce /\ NoKissSkipped)
<1>1. Init => CursorInv
  BY SizeAssumption
  DEF Init, CursorInv, HandedAtMostOnce, Untouched, NoKissSkipped, Pos
<1>2. TypeOK /\ CursorInv /\ [Next]_vars => CursorInv'
  <2> SUFFICES ASSUME TypeOK, CursorInv, [Next]_vars PROVE CursorInv'
    OBVIOUS
  <2>1. ASSUME NEW b \in Browsers, Poll(b) PROVE CursorInv'
    BY <2>1, PollStarts, AdvanceCursor DEF Poll
  <2>2. ASSUME NEW b \in Browsers, NEW name \in Names, Store(b, name)
        PROVE  CursorInv'
    BY <2>2, StoreStarts, AdvanceCursor DEF Store
  <2>3. ASSUME UNCHANGED <<handed, currentIndex, results>> PROVE CursorInv'
    BY <2>3 DEF CursorInv, HandedAtMostOnce, Untouched, NoKissSkipped
  <2> QED BY <2>1, <2>2, <2>3
          DEF Next, HolderStep, Notice, FirstLook, Report, SecondLook, Tick,
              EditCase, Leave, Overtake, tableVars, vars
<1>3. CursorInv => HandedAtMostOnce /\ NoKissSkipped
  BY DEF CursorInv
<1> QED BY <1>1, <1>2, <1>3, TypeCorrect, PTL DEF Safety

\* A browser is handed no position twice, and what its cursor has passed was
\* handed to it or has a result (ResultTableImpl.getNextExcutableKiss).
THEOREM CursorCorrect == Safety => []CursorRight
<1>1. HandedAtMostOnce /\ NoKissSkipped => CursorRight
  BY DEF CursorRight
<1> QED BY <1>1, CursorInvariant, PTL

-----------------------------------------------------------------------------
(***************************************************************************)
(* Counting the cells.                                                     *)
(***************************************************************************)
LEMMA NamesFinite == IsFiniteSet(Names) /\ \A T \in SUBSET Names : IsFiniteSet(T)
<1>1. IsFiniteSet(Pos)
  BY SizeAssumption, FS_Interval DEF Pos
<1>2. Names \subseteq Pos
  BY CellAssumption DEF Names
<1> QED BY <1>1, <1>2, FS_Subset

\* The skip loop fills at most one cell per position it passes.
LEMMA SkippedCells ==
  ASSUME NEW from \in 0..Size, NEW to \in 0..Size, from <= to
  PROVE  LET T == {CellOf[p] : p \in from..(to - 1)}
         IN  IsFiniteSet(T) /\ Cardinality(T) <= to - from
<1> DEFINE S == from..(to - 1)
           T == {CellOf[p] : p \in S}
           f == [p \in S |-> CellOf[p]]
<1>1. IsFiniteSet(S) /\ Cardinality(S) = to - from
  <2>1. from \in Int /\ to - 1 \in Int
    BY SizeAssumption
  <2>2. /\ IsFiniteSet(S)
        /\ Cardinality(S) = IF from > to - 1 THEN 0 ELSE (to - 1) - from + 1
    BY <2>1, FS_Interval, Zenon
  <2> QED BY <2>1, <2>2, SizeAssumption
<1>2. f \in Surjection(S, T)
  BY DEF Surjection
<1>3. IsFiniteSet(T) /\ Cardinality(T) <= Cardinality(S)
  <2> HIDE DEF S, T, f
  <2> QED BY <1>1, <1>2, FS_Surjection
<1> QED BY <1>1, <1>3

LEMMA AdvanceCounts ==
  ASSUME TypeOK, FilledAreCounted, NEW b \in Browsers, NEW cells, NEW done,
         Starts(b, cells, done), Advance(b, cells, done),
         done <= Size => Cardinality(cells) <= done
  PROVE  FilledAreCounted'
<1>1. PICK next \in currentIndex[b]..Size :
        /\ results' = [results EXCEPT ![b] = Filled(b, cells, next)]
        /\ successCount' = [successCount EXCEPT ![b] = Counted(b, done, next)]
  BY DEF Advance
<1>2. currentIndex[b] \in 0..Size /\ next \in 0..Size /\ currentIndex[b] <= next
  BY <1>1, SizeAssumption DEF TypeOK
<1> DEFINE skipped == {CellOf[p] : p \in currentIndex[b]..(next - 1)}
<1>3. IsFiniteSet(skipped) /\ Cardinality(skipped) <= next - currentIndex[b]
  BY <1>2, SkippedCells
<1>4. IsFiniteSet(cells)
  BY NamesFinite DEF Starts
<1> HIDE DEF skipped
<1>5. Cardinality(cells \union skipped) <= Cardinality(cells) + Cardinality(skipped)
  <2>1. IsFiniteSet(cells \cap skipped)
    BY <1>4, FS_Subset
  <2>2. Cardinality(cells \union skipped)
          = Cardinality(cells) + Cardinality(skipped) - Cardinality(cells \cap skipped)
    BY <1>3, <1>4, FS_Union
  <2>3. /\ Cardinality(cells) \in Nat /\ Cardinality(skipped) \in Nat
        /\ Cardinality(cells \cap skipped) \in Nat
    BY <1>3, <1>4, <2>1, FS_CardinalityType
  <2> QED BY <2>2, <2>3
<1>6. Cardinality(cells) \in Nat /\ Cardinality(skipped) \in Nat
      /\ Cardinality(cells \union skipped) \in Nat
  BY <1>3, <1>4, FS_Union, FS_CardinalityType
<1>7. SUFFICES ASSUME NEW x \in Browsers, successCount'[x] <= Size
               PROVE  Cardinality(results'[x]) <= successCount'[x]
  BY DEF FilledAreCounted
<1>8. CASE x = b
  <2>1. results'[b] = cells \union skipped
    BY <1>1 DEF TypeOK, Filled, skipped
  <2>2. successCount'[b] = Capped(done + (next - currentIndex[b]))
    BY <1>1 DEF TypeOK, Counted
  <2>3. successCount'[b] = done + (next - currentIndex[b]) /\ done <= Size
    BY <1>2, <1>7, <1>8, <2>2, SizeAssumption DEF Capped, Starts
  <2> QED BY <1>2, <1>3, <1>5, <1>6, <1>8, <2>1, <2>3 DEF Starts
<1>9. CASE x # b
  BY <1>1, <1>7, <1>9 DEF TypeOK, FilledAreCounted
<1> QED BY <1>8, <1>9

LEMMA NoticeCounts ==
  ASSUME TypeOK, FilledAreCounted, NEW b \in Browsers, Notice(b)
  PROVE  FilledAreCounted'
<1>1. CASE Poll(b)
  <2>1. successCount[b] <= Size => Cardinality(results[b]) <= successCount[b]
    BY DEF FilledAreCounted
  <2> QED BY <1>1, <2>1, PollStarts, AdvanceCounts DEF Poll
<1>2. ASSUME NEW name \in Names, Store(b, name) PROVE FilledAreCounted'
  <2>1. IsFiniteSet(results[b])
    BY NamesFinite DEF TypeOK
  <2>2. Cardinality(results[b] \union {name}) <= Cardinality(results[b]) + 1
    <3>1. Cardinality(results[b]) \in Nat
      BY <2>1, FS_CardinalityType
    <3>2. Cardinality(results[b] \union {name}) =
            IF name \in results[b] THEN Cardinality(results[b])
                                   ELSE Cardinality(results[b]) + 1
      BY <2>1, FS_AddElement
    <3> QED BY <3>1, <3>2
  <2>3. successCount[b] + 1 <= Size
          => Cardinality(results[b] \union {name}) <= successCount[b] + 1
    <3>1. Cardinality(results[b]) \in Nat
          /\ Cardinality(results[b] \union {name}) \in Nat
      BY <2>1, FS_AddElement, FS_CardinalityType
    <3>2. successCount[b] \in Nat
      BY SizeAssumption DEF TypeOK
    <3> QED BY <2>2, <3>1, <3>2, SizeAssumption DEF FilledAreCounted
  <2> QED BY <1>2, <2>3, StoreStarts, AdvanceCounts DEF Store
<1> QED BY <1>1, <1>2 DEF Notice

\* For every task: the table never holds more results of a browser than were
\* counted for it, so a complete count can be late but not a complete table.
THEOREM CountsCorrect == Safety => []FilledAreCounted
<1>1. Init => FilledAreCounted
  BY FS_EmptySet DEF Init, FilledAreCounted
<1>2. TypeOK /\ FilledAreCounted /\ [Next]_vars => FilledAreCounted'
  <2> SUFFICES ASSUME TypeOK, FilledAreCounted, [Next]_vars
               PROVE  FilledAreCounted'
    OBVIOUS
  <2>1. ASSUME UNCHANGED <<successCount, results>> PROVE FilledAreCounted'
    BY <2>1 DEF FilledAreCounted
  <2> QED BY <2>1, NoticeCounts
          DEF Next, HolderStep, FirstLook, Report, SecondLook, Tick,
              EditCase, Leave, Overtake, tableVars, vars
<1> QED BY <1>1, <1>2, TypeCorrect, PTL DEF Safety

-----------------------------------------------------------------------------
(***************************************************************************)
(* The contract.  isDead is reached only from a null answer, and a null    *)
(* answer leaves the cursor at the end of the list.                        *)
(***************************************************************************)
AtTheEnd == \A b \in Browsers : pc[b] # "idle" => currentIndex[b] = Size

Released == {b \in Browsers : ToldDead(b) \/ pc[b] = "left"}

LEMMA AdvanceContract ==
  ASSUME TypeOK, NEW b \in Browsers, NEW cells, NEW done,
         Callable(b), Advance(b, cells, done)
  PROVE  /\ AtTheEnd => AtTheEnd'
         /\ [Contract!Next]_(Contract!contractVars)
<1>1. PICK next \in currentIndex[b]..Size :
        /\ currentIndex' = [currentIndex EXCEPT ![b] = IndexAfter(next)]
        /\ pc' = [pc EXCEPT ![b] = IF next < Size THEN "idle" ELSE "exhausted"]
        /\ UNCHANGED gone
  BY DEF Advance
<1>2. currentIndex[b] \in 0..Size /\ next \in 0..Size /\ currentIndex[b] <= next
  BY <1>1, SizeAssumption DEF TypeOK
<1>3. AtTheEnd => AtTheEnd'
  BY <1>1, <1>2 DEF AtTheEnd, IndexAfter, TypeOK
<1>4. b \notin Released /\ b \notin gone /\ UNCHANGED Released
  BY <1>1 DEF Callable, Released, ToldDead, TypeOK
<1>5. CASE currentIndex[b] < Size
  <2>1. IndexAfter(next) \in (currentIndex[b] + 1)..Size
    BY <1>2, <1>5, SizeAssumption DEF IndexAfter
  <2>2. Contract!Give(b)
    BY <1>1, <1>4, <1>5, <2>1 DEF Contract!Give, Released
  <2> QED BY <1>3, <2>2 DEF Contract!Next
<1>6. CASE currentIndex[b] = Size
  <2>1. UNCHANGED currentIndex
    BY <1>1, <1>2, <1>6 DEF IndexAfter, TypeOK
  <2> QED BY <1>1, <1>3, <1>4, <2>1 DEF Contract!contractVars, Released
<1> QED BY <1>2, <1>5, <1>6, SizeAssumption

LEMMA LeaveContract ==
  ASSUME TypeOK, NEW b \in Browsers, Leave(b)
  PROVE  [Contract!Next]_(Contract!contractVars)
<1>1. UNCHANGED currentIndex /\ b \in Released
  BY DEF Leave, Released, tableVars
<1>2. CASE gone' = gone \union {b} /\ pc' = [pc EXCEPT ![b] = "left"]
  <2>1. UNCHANGED Released
    BY <1>1, <1>2 DEF Released, ToldDead, TypeOK
  <2>2. CASE b \in gone
    <3>1. UNCHANGED gone
      BY <1>2, <2>2
    <3> QED BY <1>1, <2>1, <3>1 DEF Contract!contractVars, Released
  <2>3. CASE b \notin gone
    <3>1. Contract!Take(b)
      BY <1>1, <1>2, <2>1, <2>3 DEF Contract!Take, Released
    <3> QED BY <3>1 DEF Contract!Next
  <2> QED BY <2>2, <2>3
<1>3. CASE b \notin gone /\ pc' = [pc EXCEPT ![b] = "idle"] /\ UNCHANGED gone
  <2>1. Released' = Released \ {b}
    BY <1>3 DEF Released, ToldDead, TypeOK
  <2>2. Contract!AskAgain(b)
    BY <1>1, <1>3, <2>1 DEF Contract!AskAgain, Released
  <2> QED BY <2>2 DEF Contract!Next
<1> QED BY <1>2, <1>3 DEF Leave

\* ResultTable implements TableContract: in every task the kisses go to each
\* browser in list order, as long as no other task has it, and no browser is
\* told "dead" before its list is used up.
THEOREM ContractKept == Safety => ImplementsContract
<1>1. Init => AtTheEnd /\ Contract!Init
  BY DEF Init, AtTheEnd, ToldDead, Contract!Init
<1>2. TypeOK /\ AtTheEnd /\ [Next]_vars
        => AtTheEnd' /\ [Contract!Next]_(Contract!contractVars)
  <2> SUFFICES ASSUME TypeOK, AtTheEnd, [Next]_vars
               PROVE  AtTheEnd' /\ [Contract!Next]_(Contract!contractVars)
    OBVIOUS
  <2>1. ASSUME NEW b \in Browsers, Notice(b)
        PROVE  AtTheEnd' /\ [Contract!Next]_(Contract!contractVars)
    BY <2>1, AdvanceContract DEF Notice, Poll, Store
  <2>2. ASSUME NEW b \in Browsers, FirstLook(b) \/ Report(b)
        PROVE  AtTheEnd' /\ [Contract!Next]_(Contract!contractVars)
    <3>1. /\ UNCHANGED <<currentIndex, gone>> /\ pc[b] # "idle"
          /\ pc[b] \in {"exhausted", "reporting"}
          /\ \E now \in {"reporting", "reported", "looking"} :
               pc' = [pc EXCEPT ![b] = now]
      BY <2>2 DEF FirstLook, Report, tableVars
    <3>2. UNCHANGED Released
      BY <3>1 DEF Released, ToldDead, TypeOK
    <3> QED BY <3>1, <3>2 DEF AtTheEnd, TypeOK, Contract!contractVars, Released
  <2>3. ASSUME NEW b \in Browsers, SecondLook(b)
        PROVE  AtTheEnd' /\ [Contract!Next]_(Contract!contractVars)
    <3>1. /\ UNCHANGED <<currentIndex, gone>> /\ currentIndex[b] = Size
          /\ pc[b] \in {"looking", "reported"}
          /\ \/ ~ isDeadLine /\ pc' = [pc EXCEPT ![b] = "idle"]
             \/ \E now \in {"leaving", "unreported"} : pc' = [pc EXCEPT ![b] = now]
      BY <2>3 DEF SecondLook, tableVars, AtTheEnd, TypeOK
    <3>2. AtTheEnd'
      BY <3>1 DEF AtTheEnd, TypeOK
    <3>3. ASSUME NEW now \in {"leaving", "unreported"}, pc' = [pc EXCEPT ![b] = now]
          PROVE  [Contract!Next]_(Contract!contractVars)
      <4>1. Released' = Released \union {b}
        BY <3>3 DEF Released, ToldDead, TypeOK
      <4>2. Contract!Release(b)
        BY <3>1, <4>1 DEF Contract!Release, Released
      <4> QED BY <4>2 DEF Contract!Next
    <3>4. CASE pc' = [pc EXCEPT ![b] = "idle"]
      <4>1. UNCHANGED Released
        BY <3>1, <3>4 DEF Released, ToldDead, TypeOK
      <4>2. UNCHANGED Contract!contractVars
        BY <3>1, <4>1 DEF Contract!contractVars, Released
      <4> QED BY <3>2, <4>2
    <3> QED BY <3>1, <3>2, <3>3, <3>4
  <2>4. ASSUME NEW b \in Browsers, Leave(b)
        PROVE  AtTheEnd' /\ [Contract!Next]_(Contract!contractVars)
    <3>1. AtTheEnd'
      <4>1. UNCHANGED currentIndex /\ currentIndex[b] = Size
        BY <2>4 DEF Leave, ToldDead, tableVars, AtTheEnd
      <4> QED BY <2>4, <4>1 DEF Leave, AtTheEnd, TypeOK
    <3> QED BY <2>4, <3>1, LeaveContract
  <2>5. ASSUME NEW b \in Browsers, Overtake(b)
        PROVE  AtTheEnd' /\ [Contract!Next]_(Contract!contractVars)
    <3>1. UNCHANGED <<currentIndex, pc>>
      BY <2>5 DEF Overtake, tableVars
    <3>2. Contract!Take(b)
      BY <2>5, <3>1 DEF Overtake, ToldDead, Contract!Take
    <3> QED BY <3>1, <3>2 DEF AtTheEnd, Contract!Next
  <2>6. ASSUME UNCHANGED <<currentIndex, pc, gone>>
        PROVE  AtTheEnd' /\ [Contract!Next]_(Contract!contractVars)
    BY <2>6 DEF AtTheEnd, ToldDead, Contract!contractVars
  <2> QED BY <2>1, <2>2, <2>3, <2>4, <2>5, <2>6
          DEF Next, HolderStep, Tick, EditCase, tableVars, vars
<1> QED BY <1>1, <1>2, TypeCorrect, PTL
        DEF Safety, ImplementsContract, Contract!Safety
=============================================================================
