------------------------- MODULE CoverageTableProofs -------------------------
(***************************************************************************)
(* Theorems about CoverageTable, for any browsers, coverages and bounds.   *)
(***************************************************************************)
EXTENDS CoverageTable, ResultTableProofs, TLAPS

-----------------------------------------------------------------------------
(* Types.  The lines of a coverage are left open. *)

Raws == UNION {{scenario[i] : i \in DOMAIN scenario} : scenario \in Scenarios}

Gifts == [by : Browsers, raw : Raws]

HasCounts(c) == c.of \in [Sources -> Nat]

Typed ==
  /\ pc \in [Browsers -> {"idle", "exhausted", "reporting", "reported",
                          "looking", "leaving", "unreported", "left"}]
  /\ step \in [Browsers -> {"none", "failed", "reading", "writing"}]
  /\ covMap = [b \in Browsers |-> covMap[b]]
  /\ seen = [b \in Browsers |-> seen[b]]
  /\ HasCounts(totalCov)
  /\ \A b \in Browsers : HasCounts(covMap[b]) /\ HasCounts(seen[b])
  /\ given \in Seq(Gifts) /\ coming \in Seq(Raws)
  /\ Len(given) + Len(coming) <= MaxReports
  /\ merged \subseteq Browsers \X (0..Len(given))
  /\ failed \subseteq 0..Len(given)

\* Where the call of isDead is in the table while it deals with coverage.
Placed ==
  /\ gone \subseteq Browsers
  /\ \A b \in Browsers :
       /\ step[b] = "failed" => pc[b] \in {"idle", "exhausted"}
       /\ step[b] \in {"reading", "writing"} => pc[b] = "reported"
       /\ pc[b] = "left" => b \in gone

LEMMA NoCoverageFacts ==
  /\ NoCoverage.of = [s \in Sources |-> 0] /\ HasCounts(NoCoverage)
  /\ \A s \in Sources : NoCoverage.of[s] = 0
  /\ DOMAIN NoCoverage.lines = {}
BY DEF NoCoverage, Coverage, HasCounts

\* What has gone into a sum is what had gone into its parts.
LEMMA AddFacts ==
  ASSUME NEW old, NEW new, HasCounts(old), HasCounts(new)
  PROVE  /\ HasCounts(AddTo(old, new))
         /\ \A s \in Sources : AddTo(old, new).of[s] = old.of[s] + new.of[s]
<1>1. CASE old = NoCoverage
  BY <1>1, NoCoverageFacts DEF AddTo, HasCounts
<1>2. CASE old # NoCoverage
  <2>1. AddTo(old, new).of = [s \in Sources |-> old.of[s] + new.of[s]]
    BY <1>2 DEF AddTo, Merge, Coverage
  <2> QED BY <2>1 DEF HasCounts
<1> QED BY <1>1, <1>2

LEMMA GivenFacts ==
  ASSUME NEW raw, NEW source
  PROVE  /\ HasCounts(Given(raw, source))
         /\ \A s \in Sources :
              Given(raw, source).of[s] = IF s = source THEN 1 ELSE 0
         /\ Given(raw, source).lines = Parsed(raw)
BY DEF Given, Coverage, HasCounts

\* A notice goes on at the place it leaves its holder at.
LEMMA NoticePc ==
  ASSUME NEW b \in Browsers, Notice(b)
  PROVE  /\ \E v \in {"idle", "exhausted"} : pc' = [pc EXCEPT ![b] = v]
         /\ Callable(b) /\ gone' = gone
BY DEF Notice, Poll, Store, Advance

\* What store makes of a result with coverage.
LEMMA GiftFacts ==
  ASSUME Typed, NEW b \in Browsers, CoverNotice(b)
  PROVE  /\ given' \in Seq(Gifts) /\ coming' \in Seq(Raws)
         /\ Len(given') = Len(given) + 1
         /\ Len(given') + Len(coming') <= MaxReports
         /\ \A n \in AllGiven : given'[n] = given[n]
         /\ given'[Len(given) + 1] = [by |-> b, raw |-> Head(coming)]
         /\ AllGiven' = AllGiven \union {Len(given) + 1}
         /\ Len(given) + 1 \in Sources /\ Len(given) \in Nat
<1>1. /\ given \in Seq(Gifts) /\ coming \in Seq(Raws) /\ coming # <<>>
      /\ given' = Append(given, [by |-> b, raw |-> Head(coming)])
      /\ coming' = Tail(coming) /\ MaxReports \in Nat
      /\ Len(given) + Len(coming) <= MaxReports
  BY BoundsAssumption DEF CoverNotice, Typed
<1>2. Head(coming) \in Raws /\ coming' \in Seq(Raws)
      /\ Len(coming') = Len(coming) - 1 /\ Len(coming) \in Nat \ {0}
  BY <1>1
<1>3. [by |-> b, raw |-> Head(coming)] \in Gifts
  BY <1>2 DEF Gifts
<1>4. /\ given' \in Seq(Gifts) /\ Len(given') = Len(given) + 1 /\ Len(given) \in Nat
      /\ \A n \in AllGiven : given'[n] = given[n]
      /\ given'[Len(given) + 1] = [by |-> b, raw |-> Head(coming)]
  BY <1>1, <1>3 DEF AllGiven
<1> QED BY <1>1, <1>2, <1>4 DEF AllGiven, Sources

\* Steps that move a holder on and deal with no coverage.
Moves(b) == \/ PlainNotice(b) \/ Again(b) \/ CoverFirstLook(b) \/ CoverReport(b)
            \/ CoverSecondLook(b) \/ CoverLeave(b)

contents == <<covMap, totalCov, seen, coming, given, failed, merged, overlapped>>

LEMMA MoveFacts ==
  ASSUME NEW b \in Browsers, Moves(b)
  PROVE  UNCHANGED contents /\ again \subseteq again' /\ gone \subseteq gone'
<1>1. UNCHANGED contents /\ again \subseteq again'
  BY DEF Moves, PlainNotice, Again, CoverFirstLook, CoverReport, CoverSecondLook, CoverLeave,
         KeepsAfterMerge, coverVars, coverHistory, contents
<1>2. gone \subseteq gone'
  BY NoticePc DEF Moves, PlainNotice, Again, CoverFirstLook, FirstLook, CoverReport, Report,
                  CoverSecondLook, SecondLook, CoverLeave, Leave
<1> QED BY <1>1, <1>2

\* Where a move takes its own call to; the others stay where they are.
LEMMA MoveSteps ==
  ASSUME Typed, Placed, NEW b \in Browsers, Moves(b)
  PROVE  /\ \A c \in Browsers : c # b => step'[c] = step[c] /\ pc'[c] = pc[c]
         /\ step[b] # "writing"
         /\ \/ step'[b] = "reading" \/ pc'[b] \notin {"reported", "leaving"}
            \/ step'[b] = "none" /\ pc'[b] = "reported" /\ covMap[b] = NoCoverage
            \/ step[b] = "none" /\ pc[b] = "reported" /\ pc'[b] = "leaving"
         /\ step'[b] \in {"none", "reading"}
<1>1. CASE PlainNotice(b)
  BY <1>1, NoticePc DEF PlainNotice, Asks, coverVars, Typed
<1>2. CASE CoverFirstLook(b)
  BY <1>2 DEF CoverFirstLook, FirstLook, Asks, coverVars, Typed
<1>3. CASE Again(b)
  BY <1>3 DEF Again, Typed
<1>4. CASE CoverReport(b)
  BY <1>4 DEF CoverReport, Report, Typed, Placed
<1>5. CASE CoverSecondLook(b)
  BY <1>5 DEF CoverSecondLook, SecondLook, coverVars, Typed
<1>6. CASE CoverLeave(b)
  BY <1>6 DEF CoverLeave, Leave, ToldDead, coverVars, Typed, Placed
<1> QED BY <1>1, <1>2, <1>3, <1>4, <1>5, <1>6 DEF Moves

LEMMA MoveTypes ==
  ASSUME Typed, Placed, NEW b \in Browsers, Moves(b)
  PROVE  Typed' /\ Placed'
<1>1. UNCHANGED contents
  BY MoveFacts
<1>2. /\ pc' \in [Browsers -> {"idle", "exhausted", "reporting", "reported",
                               "looking", "leaving", "unreported", "left"}]
      /\ step' \in [Browsers -> {"none", "failed", "reading", "writing"}]
      /\ Placed'
  <2>1. CASE PlainNotice(b)
    BY <2>1, NoticePc DEF PlainNotice, Asks, coverVars, Typed, Placed
  <2>2. CASE CoverFirstLook(b)
    BY <2>2 DEF CoverFirstLook, FirstLook, Asks, coverVars, Typed, Placed
  <2>3. CASE Again(b)
    BY <2>3 DEF Again, Typed, Placed
  <2>4. CASE CoverReport(b)
    BY <2>4 DEF CoverReport, Report, Typed, Placed
  <2>5. CASE CoverSecondLook(b)
    BY <2>5 DEF CoverSecondLook, SecondLook, coverVars, Typed, Placed
  <2>6. CASE CoverLeave(b)
    BY <2>6 DEF CoverLeave, Leave, ToldDead, coverVars, Typed, Placed
  <2> QED BY <2>1, <2>2, <2>3, <2>4, <2>5, <2>6 DEF Moves
<1> QED BY <1>1, <1>2 DEF Typed, contents

LEMMA NextTypes == Typed /\ Placed /\ [CoverNext]_allVars => Typed' /\ Placed'
<1> SUFFICES ASSUME Typed, Placed, [CoverNext]_allVars PROVE Typed' /\ Placed'
  OBVIOUS
<1>1. ASSUME NEW b \in Browsers, CoverNotice(b) PROVE Typed' /\ Placed'
  <2>1. PICK name \in Names : Store(b, name)
    BY <1>1 DEF CoverNotice
  <2>2. /\ \E v \in {"idle", "exhausted"} : pc' = [pc EXCEPT ![b] = v]
        /\ step[b] = "none" /\ gone' = gone
    BY <1>1, <2>1, NoticePc DEF Notice, CoverNotice, Asks
  <2>3. /\ pc' \in [Browsers -> {"idle", "exhausted", "reporting", "reported",
                                 "looking", "leaving", "unreported", "left"}]
        /\ step' \in [Browsers -> {"none", "failed", "reading", "writing"}]
        /\ Placed'
    BY <1>1, <2>2 DEF CoverNotice, Typed, Placed
  <2>4. /\ covMap' = [c \in Browsers |-> covMap'[c]]
        /\ \A c \in Browsers : HasCounts(covMap'[c])
    <3>1. CASE covMap' = covMap
      BY <3>1 DEF Typed
    <3>2. CASE covMap' = [covMap EXCEPT ![b] =
                  AddTo(@, Given(Head(coming), Len(given) + 1))]
      <4> DEFINE new == Given(Head(coming), Len(given) + 1)
                 sum == AddTo(covMap[b], new)
      <4>1. HasCounts(sum)
        BY GivenFacts, AddFacts DEF Typed
      <4>2. covMap' = [covMap EXCEPT ![b] = sum]
        BY <3>2
      <4> HIDE DEF sum
      <4> QED BY <4>1, <4>2 DEF Typed
    <3> QED BY <1>1, <3>1, <3>2 DEF CoverNotice
  <2>5. UNCHANGED <<totalCov, seen, merged>>
    BY <1>1 DEF CoverNotice
  <2>6. /\ HasCounts(totalCov') /\ seen' = [c \in Browsers |-> seen'[c]]
        /\ \A c \in Browsers : HasCounts(seen'[c])
    BY <2>5 DEF Typed
  <2>7. merged' \subseteq Browsers \X (0..Len(given'))
    <3>1. 0..Len(given) \subseteq 0..Len(given')
      <4>1. Len(given') = Len(given) + 1 /\ Len(given) \in Nat
        BY <1>1, GiftFacts
      <4> QED BY <4>1
    <3>2. merged \subseteq Browsers \X (0..Len(given)) /\ merged' = merged
      BY <2>5 DEF Typed
    <3> QED BY <3>1, <3>2
  <2>8. /\ given' \in Seq(Gifts) /\ coming' \in Seq(Raws)
        /\ Len(given') + Len(coming') <= MaxReports
    BY <1>1, GiftFacts
  <2>9. failed' \subseteq 0..Len(given')
    <3>1. /\ Len(given') = Len(given) + 1 /\ Len(given) \in Nat
          /\ failed' \subseteq failed \union {Len(given')}
      BY <1>1, GiftFacts DEF CoverNotice
    <3>2. failed \subseteq 0..Len(given)
      BY DEF Typed
    <3> QED BY <3>1, <3>2
  <2> QED BY <2>3, <2>4, <2>6, <2>7, <2>8, <2>9 DEF Typed
<1>2. ASSUME NEW b \in Browsers, ReadTotal(b) PROVE Typed' /\ Placed'
  BY <1>2 DEF ReadTotal, vars, Typed, Placed
<1>3. ASSUME NEW b \in Browsers, WriteTotal(b) PROVE Typed' /\ Placed'
  <2>1. HasCounts(totalCov')
    BY <1>3, AddFacts DEF WriteTotal, TotalWith, Typed
  <2>2. merged' \subseteq Browsers \X (0..Len(given))
    <3>1. Len(given) \in 0..Len(given)
      BY DEF Typed
    <3> QED BY <1>3, <3>1 DEF WriteTotal, Typed
  <2>3. /\ pc' \in [Browsers -> {"idle", "exhausted", "reporting", "reported",
                                 "looking", "leaving", "unreported", "left"}]
        /\ step' \in [Browsers -> {"none", "failed", "reading", "writing"}]
        /\ Placed'
    BY <1>3 DEF WriteTotal, Typed, Placed
  <2>4. /\ seen' = [c \in Browsers |-> seen'[c]]
        /\ \A c \in Browsers : HasCounts(seen'[c])
    BY <1>3, NoCoverageFacts DEF WriteTotal, Typed
  <2> QED BY <1>3, <2>1, <2>2, <2>3, <2>4 DEF WriteTotal, Typed
<1>4. CASE UNCHANGED <<pc, coverVars, coverHistory>> /\ gone' \in SUBSET Browsers
           /\ gone \subseteq gone'
  BY <1>4 DEF coverVars, coverHistory, Typed, Placed
<1>6. CASE Tick /\ UNCHANGED <<coverVars, coverHistory>>
  BY <1>4, <1>6 DEF Tick, Placed
<1>7. ASSUME NEW b \in Browsers, Overtake(b), UNCHANGED <<coverVars, coverHistory>>
      PROVE  Typed' /\ Placed'
  BY <1>4, <1>7 DEF Overtake, Placed
<1>5. CASE UNCHANGED allVars
  BY <1>5 DEF allVars, vars, coverVars, coverHistory, Typed, Placed
<1> QED BY <1>1, <1>2, <1>3, <1>5, <1>6, <1>7, MoveTypes DEF CoverNext, CoverStep, Moves

LEMMA InitTypes == CoverInit => Typed /\ Placed
<1> SUFFICES ASSUME CoverInit PROVE Typed /\ Placed
  OBVIOUS
<1>1. coming \in Scenarios /\ given = <<>> /\ merged = {}
  BY DEF CoverInit
<1>2. coming \in Seq({coming[i] : i \in DOMAIN coming}) /\ Len(coming) <= MaxReports
  BY <1>1, BoundsAssumption
<1>3. {coming[i] : i \in DOMAIN coming} \subseteq Raws
  BY <1>1 DEF Raws
<1>4. coming \in Seq(Raws)
  BY <1>2, <1>3
<1>5. given \in Seq(Gifts) /\ Len(given) + Len(coming) <= MaxReports
  BY <1>1, <1>2, <1>4
<1> QED BY <1>1, <1>4, <1>5, NoCoverageFacts DEF CoverInit, Init, Typed, Placed

-----------------------------------------------------------------------------
(***************************************************************************)
(* Lines.  The lines of a file in any sum are those of that file in a      *)
(* result that came.  So if the lines of a new one are not among them, two *)
(* results differ in their lines.                                          *)
(***************************************************************************)
LinesKnown(c) ==
  \A file \in DOMAIN c.lines : \E n \in AllGiven :
    file \in DOMAIN LinesOf(n) /\ DOMAIN c.lines[file] = DOMAIN LinesOf(n)[file]

TwoSets ==
  \E m, n \in AllGiven : \E file \in DOMAIN LinesOf(m) \intersect DOMAIN LinesOf(n) :
    DOMAIN LinesOf(m)[file] # DOMAIN LinesOf(n)[file]

LinesInv == /\ \A b \in Browsers : LinesKnown(covMap[b]) /\ LinesKnown(seen[b])
            /\ LinesKnown(totalCov)
            /\ failed # {} => TwoSets

LEMMA AddLines ==
  ASSUME NEW old, NEW new, NEW file \in DOMAIN AddTo(old, new).lines
  PROVE  \/ /\ file \in DOMAIN new.lines
            /\ DOMAIN AddTo(old, new).lines[file] = DOMAIN new.lines[file]
         \/ /\ file \in DOMAIN old.lines
            /\ DOMAIN AddTo(old, new).lines[file] = DOMAIN old.lines[file]
<1>1. CASE old = NoCoverage
  BY <1>1 DEF AddTo
<1>2. CASE old # NoCoverage
  <2>1. AddTo(old, new).lines =
          [f \in DOMAIN old.lines \union DOMAIN new.lines |->
             IF f \notin DOMAIN old.lines THEN new.lines[f]
             ELSE IF f \notin DOMAIN new.lines THEN old.lines[f]
             ELSE [l \in DOMAIN new.lines[f] |->
                     SumOfCounts(old.lines[f][l], new.lines[f][l])]]
    BY <1>2 DEF AddTo, Merge, Coverage, FilesOfBoth
  <2>2. file \in DOMAIN old.lines \union DOMAIN new.lines
    BY <2>1
  <2> QED BY <2>1, <2>2
<1> QED BY <1>1, <1>2

LEMMA SumKnown ==
  ASSUME NEW old, NEW new, LinesKnown(old), LinesKnown(new)
  PROVE  LinesKnown(AddTo(old, new))
BY AddLines DEF LinesKnown

\* A merge fails over a file that two results have with other lines.
LEMMA FailKnown ==
  ASSUME NEW old, NEW new, LinesKnown(old), LinesKnown(new), ~ CanMerge(old, new)
  PROVE  TwoSets
<1>1. PICK file \in DOMAIN old.lines \intersect DOMAIN new.lines :
        DOMAIN old.lines[file] # DOMAIN new.lines[file]
  BY DEF CanMerge
<1>2. PICK m \in AllGiven : /\ file \in DOMAIN LinesOf(m)
                            /\ DOMAIN old.lines[file] = DOMAIN LinesOf(m)[file]
  BY <1>1 DEF LinesKnown
<1>3. PICK n \in AllGiven : /\ file \in DOMAIN LinesOf(n)
                            /\ DOMAIN new.lines[file] = DOMAIN LinesOf(n)[file]
  BY <1>1 DEF LinesKnown
<1> QED BY <1>1, <1>2, <1>3 DEF TwoSets

\* What is known of a sum stays known when results come.
LEMMA MoreGiven ==
  ASSUME AllGiven \subseteq AllGiven', \A n \in AllGiven : given'[n] = given[n]
  PROVE  /\ \A n \in AllGiven : LinesOf(n)' = LinesOf(n)
         /\ TwoSets => TwoSets'
<1>1. \A n \in AllGiven : LinesOf(n)' = LinesOf(n)
  BY DEF LinesOf
<1> QED BY <1>1 DEF TwoSets

LEMMA SameGiven ==
  ASSUME given' = given
  PROVE  /\ AllGiven' = AllGiven /\ (TwoSets => TwoSets')
         /\ \A c : LinesKnown(c) =>
              \A file \in DOMAIN c.lines : \E n \in AllGiven' :
                /\ file \in DOMAIN LinesOf(n)'
                /\ DOMAIN c.lines[file] = DOMAIN (LinesOf(n)')[file]
<1>1. AllGiven' = AllGiven /\ \A n : LinesOf(n)' = LinesOf(n)
  BY DEF AllGiven, LinesOf
<1> QED BY <1>1 DEF TwoSets, LinesKnown

LEMMA LinesNext ==
  Typed /\ Placed /\ LinesInv /\ [CoverNext]_allVars => LinesInv'
<1> SUFFICES ASSUME Typed, Placed, LinesInv, [CoverNext]_allVars PROVE LinesInv'
  OBVIOUS
<1>1. ASSUME NEW b \in Browsers, CoverNotice(b) PROVE LinesInv'
  <2>0. PICK last \in Sources : last = Len(given) + 1
    BY <1>1, GiftFacts
  <2> DEFINE new == Given(Head(coming), last)
             sum == AddTo(covMap[b], new)
  <2>1. /\ AllGiven \subseteq AllGiven' /\ \A n \in AllGiven : given'[n] = given[n]
        /\ given'[last].raw = Head(coming) /\ last \in AllGiven'
    <3>1. given'[last] = [by |-> b, raw |-> Head(coming)]
      BY <1>1, <2>0, GiftFacts
    <3>2. AllGiven' = AllGiven \union {last}
      BY <1>1, <2>0, GiftFacts
    <3>3. \A n \in AllGiven : given'[n] = given[n]
      BY <1>1, GiftFacts
    <3> QED BY <3>1, <3>2, <3>3
  <2>2. (\A n \in AllGiven : LinesOf(n)' = LinesOf(n)) /\ (TwoSets => TwoSets')
    BY <2>1, MoreGiven
  <2>3. LinesOf(last)' = new.lines
    <3>1. LinesOf(last)' = Parsed(Head(coming))
      BY <2>1 DEF LinesOf
    <3> QED BY <3>1, GivenFacts
  <2>4. ASSUME NEW c, LinesKnown(c)
        PROVE  \A file \in DOMAIN c.lines : \E n \in AllGiven' :
                 /\ file \in DOMAIN LinesOf(n)'
                 /\ DOMAIN c.lines[file] = DOMAIN (LinesOf(n)')[file]
    BY <2>1, <2>2, <2>4 DEF LinesKnown
  <2>5. UNCHANGED <<totalCov, seen>>
    BY <1>1 DEF CoverNotice
  <2>6. LinesKnown(totalCov)' /\ \A c \in Browsers : LinesKnown(seen[c])'
    BY <2>4, <2>5 DEF LinesInv, LinesKnown
  <2>7. CASE CanMerge(covMap[b], new)
    <3>1. covMap' = [covMap EXCEPT ![b] = sum] /\ failed' = failed
      BY <1>1, <2>0, <2>7 DEF CoverNotice
    <3>2. \A file \in DOMAIN sum.lines : \E n \in AllGiven' :
            /\ file \in DOMAIN LinesOf(n)'
            /\ DOMAIN sum.lines[file] = DOMAIN (LinesOf(n)')[file]
      <4> SUFFICES ASSUME NEW file \in DOMAIN sum.lines
                   PROVE  \E n \in AllGiven' :
                            /\ file \in DOMAIN LinesOf(n)'
                            /\ DOMAIN sum.lines[file] = DOMAIN (LinesOf(n)')[file]
        OBVIOUS
      <4>1. CASE /\ file \in DOMAIN new.lines
                 /\ DOMAIN sum.lines[file] = DOMAIN new.lines[file]
        BY <2>1, <2>3, <4>1
      <4>2. CASE /\ file \in DOMAIN covMap[b].lines
                 /\ DOMAIN sum.lines[file] = DOMAIN covMap[b].lines[file]
        BY <2>4, <4>2 DEF LinesInv
      <4> QED BY <4>1, <4>2, AddLines
    <3>3. \A c \in Browsers : LinesKnown(covMap[c])'
      <4> HIDE DEF sum
      <4>1. covMap'[b] = sum /\ \A c \in Browsers : c # b => covMap'[c] = covMap[c]
        BY <3>1 DEF Typed
      <4>2. \A c \in Browsers : LinesKnown(covMap[c])
        BY DEF LinesInv
      <4> QED BY <2>4, <3>2, <4>1, <4>2 DEF LinesKnown
    <3> QED BY <2>2, <2>6, <3>1, <3>3 DEF LinesInv
  <2>8. CASE ~ CanMerge(covMap[b], new)
    <3>1. covMap' = covMap
      BY <1>1, <2>0, <2>8 DEF CoverNotice
    <3>2. \A c \in Browsers : LinesKnown(covMap[c])'
      BY <2>4, <3>1 DEF LinesInv, LinesKnown
    <3>3. PICK file \in DOMAIN covMap[b].lines \intersect DOMAIN new.lines :
            DOMAIN covMap[b].lines[file] # DOMAIN new.lines[file]
      BY <2>8 DEF CanMerge
    <3>4. PICK n \in AllGiven' :
            /\ file \in DOMAIN LinesOf(n)'
            /\ DOMAIN covMap[b].lines[file] = DOMAIN (LinesOf(n)')[file]
      BY <2>4, <3>3 DEF LinesInv
    <3>5. TwoSets'
      <4>1. /\ file \in DOMAIN LinesOf(n)' \intersect DOMAIN LinesOf(last)'
            /\ DOMAIN (LinesOf(n)')[file] # DOMAIN (LinesOf(last)')[file]
        BY <2>3, <3>3, <3>4
      <4> QED BY <2>1, <3>4, <4>1 DEF TwoSets
    <3> QED BY <2>6, <3>2, <3>5 DEF LinesInv
  <2> QED BY <2>7, <2>8
<1>2. ASSUME NEW b \in Browsers, ReadTotal(b) PROVE LinesInv'
  <2>1. /\ UNCHANGED <<covMap, totalCov, given, failed>>
        /\ \A c \in Browsers : seen'[c] \in {seen[c], totalCov}
    BY <1>2 DEF ReadTotal, Typed
  <2>2. LinesKnown(totalCov)'
    BY <2>1, SameGiven DEF LinesInv, LinesKnown
  <2>3. \A c \in Browsers : LinesKnown(covMap[c])' /\ LinesKnown(seen[c])'
    BY <2>1, SameGiven DEF LinesInv, LinesKnown
  <2>4. failed' # {} => TwoSets'
    BY <2>1, SameGiven DEF LinesInv
  <2> QED BY <2>2, <2>3, <2>4 DEF LinesInv
<1>3. ASSUME NEW b \in Browsers, WriteTotal(b) PROVE LinesInv'
  <2>1. /\ UNCHANGED <<covMap, given>>
        /\ \A c \in Browsers : seen'[c] \in {seen[c], NoCoverage}
        /\ \/ totalCov' = totalCov
           \/ totalCov' = AddTo(seen[b], covMap[b])
        /\ failed' = failed \/ ~ CanMerge(seen[b], covMap[b])
    BY <1>3 DEF WriteTotal, TotalWith, Typed
  <2>2. LinesKnown(AddTo(seen[b], covMap[b])) /\ LinesKnown(NoCoverage)
    BY SumKnown, NoCoverageFacts DEF LinesInv, LinesKnown
  <2>3. ~ CanMerge(seen[b], covMap[b]) => TwoSets
    BY FailKnown DEF LinesInv
  <2>4. \A c : LinesKnown(c) =>
          \A file \in DOMAIN c.lines : \E n \in AllGiven' :
            /\ file \in DOMAIN LinesOf(n)'
            /\ DOMAIN c.lines[file] = DOMAIN (LinesOf(n)')[file]
    BY <2>1, SameGiven
  <2>5. LinesKnown(totalCov)'
    BY <2>1, <2>2, <2>4 DEF LinesInv, LinesKnown
  <2>6. \A c \in Browsers : LinesKnown(covMap[c])' /\ LinesKnown(seen[c])'
    BY <2>1, <2>2, <2>4 DEF LinesInv, LinesKnown
  <2>7. failed' # {} => TwoSets'
    BY <2>1, <2>3, SameGiven DEF LinesInv
  <2> QED BY <2>5, <2>6, <2>7 DEF LinesInv
<1>4. CASE UNCHANGED contents
  <2>1. UNCHANGED <<covMap, totalCov, seen, given, failed>>
    BY <1>4 DEF contents
  <2>2. LinesKnown(totalCov)'
    BY <2>1, SameGiven DEF LinesInv, LinesKnown
  <2>3. \A c \in Browsers : LinesKnown(covMap[c])' /\ LinesKnown(seen[c])'
    BY <2>1, SameGiven DEF LinesInv, LinesKnown
  <2>4. failed' # {} => TwoSets'
    BY <2>1, SameGiven DEF LinesInv
  <2> QED BY <2>2, <2>3, <2>4 DEF LinesInv
<1>5. UNCHANGED allVars \/ UNCHANGED <<coverVars, coverHistory>>
        => UNCHANGED contents
  BY DEF allVars, vars, coverVars, coverHistory, contents
<1> QED BY <1>1, <1>2, <1>3, <1>4, <1>5, MoveFacts DEF CoverNext, CoverStep, Moves

LEMMA LinesInit == CoverInit => LinesInv
BY NoCoverageFacts DEF CoverInit, LinesInv, LinesKnown

\* CoverageResultTableImpl.store, isDead and Coverage.covMerge: a merge fails
\* only if two results have the same file with other lines.
THEOREM FailsCorrect == CoverSpec => []FailsOnlyByLines
<1>1. LinesInv => FailsOnlyByLines
  BY DEF LinesInv, FailsOnlyByLines, TwoSets
<1> QED BY <1>1, InitTypes, NextTypes, LinesInit, LinesNext, PTL DEF CoverSpec

-----------------------------------------------------------------------------
(***************************************************************************)
(* What is in a sum how often.  A result is in the coverage of its browser *)
(* once.  A browser goes into the total in one call of isDead; it does so  *)
(* again only if its holder stays with the table, for after that call it   *)
(* is told that the table is dead and gets another one.                    *)
(***************************************************************************)
Own(b, n) == n \in AllGiven /\ given[n].by = b /\ n \notin failed

EachInv == \A b \in Browsers, n \in Sources :
             covMap[b].of[n] = IF Own(b, n) THEN 1 ELSE 0

\* How often a result may be in a total.
Bounded(c) ==
  \A n \in Sources :
    /\ n \notin AllGiven => c.of[n] = 0
    /\ n \in AllGiven /\ given[n].by \notin again
         => c.of[n] <= (IF IsMerged(given[n].by) THEN 1 ELSE 0)

\* A browser in the total is on its way to another table.
OnItsWay(b) == step[b] = "none" /\ pc[b] \in {"reported", "leaving", "left"}

TwiceInv == /\ Bounded(totalCov) /\ \A b \in Browsers : Bounded(seen[b])
            /\ \A b \in Browsers : IsMerged(b) => b \in again \/ OnItsWay(b)

LEMMA EachNext == Typed /\ Placed /\ EachInv /\ [CoverNext]_allVars => EachInv'
<1> SUFFICES ASSUME Typed, Placed, EachInv, [CoverNext]_allVars PROVE EachInv'
  OBVIOUS
<1>1. ASSUME NEW b \in Browsers, CoverNotice(b) PROVE EachInv'
  <2>0. PICK last \in Sources : last = Len(given) + 1 /\ last \notin AllGiven
    <3>1. Len(given) + 1 \in Sources /\ Len(given) \in Nat
      BY <1>1, GiftFacts
    <3> QED BY <3>1 DEF AllGiven
  <2> DEFINE new == Given(Head(coming), last)
             sum == AddTo(covMap[b], new)
  <2>1. /\ AllGiven' = AllGiven \union {last} /\ given'[last].by = b
        /\ \A n \in AllGiven : given'[n] = given[n]
    <3>1. given'[last] = [by |-> b, raw |-> Head(coming)]
      BY <1>1, <2>0, GiftFacts
    <3>2. AllGiven' = AllGiven \union {last}
      BY <1>1, <2>0, GiftFacts
    <3>3. \A n \in AllGiven : given'[n] = given[n]
      BY <1>1, GiftFacts
    <3> QED BY <3>1, <3>2, <3>3
  <2>2. CASE CanMerge(covMap[b], new)
    <3>1. covMap' = [covMap EXCEPT ![b] = sum] /\ failed' = failed
      BY <1>1, <2>0, <2>2 DEF CoverNotice
    <3>2. \A n \in Sources :
            sum.of[n] = covMap[b].of[n] + (IF n = last THEN 1 ELSE 0)
      BY AddFacts, GivenFacts DEF Typed
    <3>3. covMap'[b] = sum /\ \A c \in Browsers : c # b => covMap'[c] = covMap[c]
      <4> HIDE DEF sum
      <4> QED BY <3>1 DEF Typed
    <3>4. last \notin failed
      BY <2>0 DEF Typed, AllGiven
    <3> HIDE DEF sum
    <3>5. ASSUME NEW c \in Browsers, NEW n \in Sources
          PROVE  covMap'[c].of[n] = IF Own(c, n)' THEN 1 ELSE 0
      <4>1. covMap[c].of[n] = IF Own(c, n) THEN 1 ELSE 0
        BY DEF EachInv
      <4>2. CASE n = last
        <5>1. Own(c, n)' <=> c = b
          BY <2>1, <3>1, <3>4, <4>2 DEF Own
        <5>2. covMap[c].of[n] = 0
          BY <2>0, <4>1, <4>2 DEF Own
        <5> QED BY <3>2, <3>3, <4>2, <5>1, <5>2
      <4>3. CASE n # last
        <5>1. Own(c, n)' <=> Own(c, n)
          BY <2>1, <3>1, <4>3 DEF Own
        <5> QED BY <3>2, <3>3, <4>1, <4>3, <5>1
      <4> QED BY <4>2, <4>3
    <3> QED BY <3>5 DEF EachInv
  <2>3. CASE ~ CanMerge(covMap[b], new)
    <3>1. covMap' = covMap /\ failed' = failed \union {last}
      <4>1. covMap' = covMap /\ failed' = failed \union {Len(given')}
        BY <1>1, <2>0, <2>3 DEF CoverNotice
      <4> QED BY <1>1, <2>0, <4>1, GiftFacts
    <3>2. \A c \in Browsers, n \in Sources : Own(c, n)' <=> Own(c, n)
      BY <2>0, <2>1, <3>1 DEF Own
    <3> QED BY <3>1, <3>2 DEF EachInv
  <2> QED BY <2>2, <2>3
<1>2. ASSUME NEW b \in Browsers, WriteTotal(b) PROVE EachInv'
  <2>1. /\ UNCHANGED <<covMap, given>>
        /\ failed' = failed \/ failed' = failed \union {0}
    BY <1>2 DEF WriteTotal
  <2>2. \A c \in Browsers, n \in Sources : Own(c, n)' <=> Own(c, n)
    BY <2>1 DEF Own, AllGiven, Sources
  <2> QED BY <2>1, <2>2 DEF EachInv
<1>3. CASE UNCHANGED <<covMap, given, failed>>
  BY <1>3 DEF EachInv, Own, AllGiven
<1>4. UNCHANGED allVars \/ UNCHANGED <<coverVars, coverHistory>>
        \/ UNCHANGED contents \/ (\E b \in Browsers : ReadTotal(b))
      => UNCHANGED <<covMap, given, failed>>
  BY DEF allVars, vars, coverVars, coverHistory, contents, ReadTotal
<1> QED BY <1>1, <1>2, <1>3, <1>4, MoveFacts DEF CoverNext, CoverStep, Moves

LEMMA EachInit == CoverInit => EachInv
BY NoCoverageFacts DEF CoverInit, EachInv, Own, AllGiven

\* What is bounded stays so when browsers are merged or kept.
LEMMA BoundedStays ==
  ASSUME given' = given, again \subseteq again', merged \subseteq merged'
  PROVE  /\ \A c \in Browsers : IsMerged(c) => IsMerged(c)'
         /\ \A c : HasCounts(c) /\ Bounded(c) =>
              \A n \in Sources :
                /\ n \notin AllGiven' => c.of[n] = 0
                /\ n \in AllGiven' /\ given'[n].by \notin again'
                     => c.of[n] <= (IF IsMerged(given[n].by)' THEN 1 ELSE 0)
<1>1. AllGiven' = AllGiven
  BY DEF AllGiven
<1>2. \A c : IsMerged(c) => IsMerged(c)'
  BY DEF IsMerged
<1>3. ASSUME NEW c, HasCounts(c), Bounded(c), NEW n \in Sources,
             n \in AllGiven', given'[n].by \notin again'
      PROVE  c.of[n] <= (IF IsMerged(given[n].by)' THEN 1 ELSE 0)
  <2>1. c.of[n] <= (IF IsMerged(given[n].by) THEN 1 ELSE 0) /\ c.of[n] \in Nat
    BY <1>1, <1>3 DEF Bounded, HasCounts
  <2> QED BY <1>2, <2>1
<1> QED BY <1>1, <1>2, <1>3 DEF Bounded

LEMMA MoveTwice ==
  ASSUME Typed, Placed, TwiceInv, NEW b \in Browsers, Moves(b)
  PROVE  TwiceInv'
<1>1. UNCHANGED contents /\ again \subseteq again'
  BY MoveFacts
<1>2. Bounded(totalCov)' /\ \A c \in Browsers : Bounded(seen[c])'
  BY <1>1 DEF contents, TwiceInv, Bounded, IsMerged, AllGiven
<1>3. ASSUME NEW c \in Browsers, IsMerged(c)' PROVE c \in again' \/ OnItsWay(c)'
  <2>1. c \in again \/ OnItsWay(c)
    BY <1>1, <1>3 DEF contents, TwiceInv, IsMerged
  <2>2. IsMerged(c)
    BY <1>1, <1>3 DEF contents, IsMerged
  <2>3. CASE c # b
    <3>1. step'[c] = step[c] /\ pc'[c] = pc[c]
      BY <2>3, MoveSteps
    <3> QED BY <1>1, <2>1, <3>1 DEF OnItsWay
  <2>4. CASE c = b /\ OnItsWay(b)
    <3>1. CASE CoverSecondLook(b)
      BY <2>2, <2>4, <3>1
         DEF CoverSecondLook, SecondLook, KeepsAfterMerge, coverVars, OnItsWay, Typed
    <3>2. CASE CoverLeave(b)
      BY <2>2, <2>4, <3>2
         DEF CoverLeave, Leave, ToldDead, KeepsAfterMerge, coverVars, OnItsWay, Typed
    <3>3. CASE PlainNotice(b) \/ CoverFirstLook(b) \/ Again(b)
      BY <2>4, <3>3, NoticePc
         DEF PlainNotice, CoverFirstLook, FirstLook, Again, Callable, OnItsWay
    <3>4. CASE CoverReport(b)
      BY <2>4, <3>4 DEF CoverReport, Report, OnItsWay
    <3> QED BY <3>1, <3>2, <3>3, <3>4 DEF Moves
  <2> QED BY <1>1, <2>1, <2>3, <2>4
<1> QED BY <1>2, <1>3 DEF TwiceInv

\* A browser that is added and was not kept is not in the total.
LEMMA WriteTwice ==
  ASSUME Typed, Placed, EachInv, TwiceInv, NEW b \in Browsers, WriteTotal(b)
  PROVE  TwiceInv'
<1>1. /\ given' = given /\ again' = again /\ merged \subseteq merged'
      /\ step[b] = "writing"
      /\ \A c \in Browsers : c # b => step'[c] = step[c] /\ pc'[c] = pc[c]
      /\ \A c \in Browsers : seen'[c] \in {seen[c], NoCoverage}
  BY DEF WriteTotal, Typed
<1>2. IsMerged(b) => b \in again
  BY <1>1 DEF TwiceInv, OnItsWay
<1>3. Bounded(NoCoverage)
  BY NoCoverageFacts DEF Bounded
<1>4. \A c \in Browsers : Bounded(seen[c])'
  <2>1. \A c \in Browsers : HasCounts(seen'[c]) /\ Bounded(seen'[c])
    BY <1>1, <1>3, NoCoverageFacts DEF Typed, TwiceInv
  <2>2. given' = given /\ again' = again
    BY <1>1
  <2> QED BY <1>1, <2>1, <2>2, BoundedStays DEF Bounded
<1>5. CASE CanMerge(seen[b], covMap[b])
  <2> DEFINE sum == AddTo(seen[b], covMap[b])
  <2>1. totalCov' = sum /\ merged' = merged \union {<<b, Len(given)>>}
        /\ step'[b] = "none" /\ pc'[b] = "reported"
    BY <1>5 DEF WriteTotal, TotalWith, Typed, Placed
  <2>2. IsMerged(b)'
    <3>1. Len(given) \in 0..MaxReports
      BY BoundsAssumption DEF Typed
    <3> QED BY <2>1, <3>1 DEF IsMerged
  <2>3. \A n \in Sources : sum.of[n] = seen[b].of[n] + covMap[b].of[n]
    BY AddFacts DEF Typed
  <2>4. AllGiven' = AllGiven /\ \A c : IsMerged(c) => IsMerged(c)'
    BY <1>1 DEF AllGiven, IsMerged
  <2>5. Bounded(totalCov)'
    <3> SUFFICES ASSUME NEW n \in Sources
                 PROVE  /\ n \notin AllGiven => sum.of[n] = 0
                        /\ n \in AllGiven /\ given[n].by \notin again
                             => sum.of[n] <= (IF IsMerged(given[n].by)' THEN 1 ELSE 0)
      BY <1>1, <2>1, <2>4 DEF Bounded
    <3>1. /\ seen[b].of[n] \in Nat
          /\ covMap[b].of[n] = IF Own(b, n) THEN 1 ELSE 0
      BY DEF Typed, HasCounts, EachInv
    <3>2. CASE n \notin AllGiven
      BY <2>3, <3>1, <3>2 DEF Own, TwiceInv, Bounded
    <3>3. CASE n \in AllGiven /\ given[n].by \notin again
      <4>1. seen[b].of[n] <= (IF IsMerged(given[n].by) THEN 1 ELSE 0)
        BY <3>3 DEF TwiceInv, Bounded
      <4>2. CASE given[n].by = b
        <5>1. ~ IsMerged(given[n].by) /\ IsMerged(given[n].by)'
          BY <1>1, <1>2, <2>2, <3>3, <4>2
        <5> QED BY <2>3, <3>1, <3>3, <4>1, <5>1
      <4>3. CASE given[n].by # b
        <5>1. covMap[b].of[n] = 0
          BY <3>1, <4>3 DEF Own
        <5>2. IsMerged(given[n].by) => IsMerged(given[n].by)'
          BY <1>1, <2>4
        <5> QED BY <2>3, <3>1, <3>3, <4>1, <5>1, <5>2
      <4> QED BY <4>2, <4>3
    <3> QED BY <3>2, <3>3
  <2>6. ASSUME NEW c \in Browsers, IsMerged(c)' PROVE c \in again' \/ OnItsWay(c)'
    <3>1. CASE c = b
      BY <2>1, <3>1 DEF OnItsWay
    <3>2. CASE c # b
      <4>1. IsMerged(c)
        BY <2>1, <2>6, <3>2 DEF IsMerged
      <4> QED BY <1>1, <3>2, <4>1 DEF TwiceInv, OnItsWay
    <3> QED BY <3>1, <3>2
  <2> QED BY <1>4, <2>5, <2>6 DEF TwiceInv
<1>6. CASE ~ CanMerge(seen[b], covMap[b])
  <2>1. totalCov' = totalCov /\ merged' = merged
    BY <1>6 DEF WriteTotal
  <2>2. Bounded(totalCov)'
    BY <1>1, <2>1 DEF TwiceInv, Bounded, AllGiven, IsMerged
  <2>3. \A c \in Browsers : IsMerged(c)' => c \in again' \/ OnItsWay(c)'
    BY <1>1, <1>2, <2>1 DEF TwiceInv, OnItsWay, IsMerged
  <2> QED BY <1>4, <2>2, <2>3 DEF TwiceInv
<1> QED BY <1>5, <1>6

LEMMA TwiceNext ==
  Typed /\ Placed /\ EachInv /\ TwiceInv /\ [CoverNext]_allVars => TwiceInv'
<1> SUFFICES ASSUME Typed, Placed, EachInv, TwiceInv, [CoverNext]_allVars
             PROVE  TwiceInv'
  OBVIOUS
<1>1. ASSUME NEW b \in Browsers, CoverNotice(b) PROVE TwiceInv'
  <2>1. /\ UNCHANGED <<totalCov, seen, again, merged>>
        /\ step[b] = "none" /\ pc[b] = "idle"
    BY <1>1 DEF CoverNotice, Asks, Store, Callable
  <2>2. \A c \in Browsers : c # b => step'[c] = step[c] /\ pc'[c] = pc[c]
    <3>1. PICK name \in Names : Store(b, name)
      BY <1>1 DEF CoverNotice
    <3>2. \E v \in {"idle", "exhausted"} : pc' = [pc EXCEPT ![b] = v]
      BY <3>1, NoticePc DEF Notice
    <3> QED BY <1>1, <3>2 DEF CoverNotice, Typed
  <2>3. /\ \A n \in AllGiven : given'[n] = given[n]
        /\ AllGiven \subseteq AllGiven'
    BY <1>1, GiftFacts
  <2>4. \A c : IsMerged(c)' <=> IsMerged(c)
    BY <2>1 DEF IsMerged
  <2>5. ASSUME NEW c, HasCounts(c), Bounded(c), NEW n \in Sources
        PROVE  /\ n \notin AllGiven' => c.of[n] = 0
               /\ n \in AllGiven' /\ given'[n].by \notin again
                    => c.of[n] <= (IF IsMerged(given'[n].by) THEN 1 ELSE 0)
    <3>1. CASE n \in AllGiven
      BY <2>3, <2>5, <3>1 DEF Bounded
    <3>2. CASE n \notin AllGiven
      BY <2>3, <2>5, <3>2 DEF Bounded
    <3> QED BY <3>1, <3>2
  <2>6. Bounded(totalCov)' /\ \A c \in Browsers : Bounded(seen[c])'
    BY <2>1, <2>4, <2>5 DEF TwiceInv, Bounded, Typed
  <2>7. \A c \in Browsers : IsMerged(c)' => c \in again' \/ OnItsWay(c)'
    BY <2>1, <2>2, <2>4 DEF TwiceInv, OnItsWay
  <2> QED BY <2>6, <2>7 DEF TwiceInv
<1>2. ASSUME NEW b \in Browsers, ReadTotal(b) PROVE TwiceInv'
  <2>1. /\ UNCHANGED <<pc, totalCov, given, merged, again>>
        /\ step[b] = "reading"
        /\ \A c \in Browsers : c # b => step'[c] = step[c]
        /\ \A c \in Browsers : seen'[c] \in {seen[c], totalCov}
    BY <1>2 DEF ReadTotal, vars, Typed
  <2>2. Bounded(totalCov)' /\ \A c \in Browsers : Bounded(seen[c])'
    BY <2>1 DEF TwiceInv, Bounded, AllGiven, IsMerged
  <2>3. \A c \in Browsers : IsMerged(c)' => c \in again' \/ OnItsWay(c)'
    BY <2>1 DEF TwiceInv, OnItsWay, IsMerged
  <2> QED BY <2>2, <2>3 DEF TwiceInv
<1>3. CASE UNCHANGED <<pc, step, again, totalCov, seen, given, merged>>
  BY <1>3 DEF TwiceInv, Bounded, AllGiven, IsMerged, OnItsWay
<1>4. UNCHANGED allVars
        \/ ((Tick \/ \E b \in Browsers : Overtake(b)) /\ UNCHANGED <<coverVars, coverHistory>>)
      => UNCHANGED <<pc, step, again, totalCov, seen, given, merged>>
  BY DEF allVars, vars, coverVars, coverHistory, Tick, Overtake
<1> QED BY <1>1, <1>2, <1>3, <1>4, MoveTwice, WriteTwice
        DEF CoverNext, CoverStep, Moves

LEMMA TwiceInit == CoverInit => TwiceInv
BY NoCoverageFacts DEF CoverInit, TwiceInv, Bounded, AllGiven, IsMerged

-----------------------------------------------------------------------------
(***************************************************************************)
(* What has gone into the total stays there, unless a call that read the   *)
(* total before overwrites it, which is a call that overlapped: nobody is  *)
(* between reading and writing while a call that overlaps no other writes. *)
(***************************************************************************)
Latest(b) == \E n \in AllGiven : /\ <<b, n>> \in merged
                                 /\ \A i \in AllGiven : given[i].by = b => i <= n

\* A holder that has dealt with coverage has added all that came.
Done == \A b \in Browsers :
  /\ AllGiven = {} => covMap[b] = NoCoverage
  /\ step[b] = "none" /\ pc[b] \in {"reported", "leaving"}
       => covMap[b] = NoCoverage \/ Latest(b)

Overlaps == \A b, c \in Adding : b # c => b \in overlapped /\ c \in overlapped

StillIn(m) ==
  \A n \in Sources : n <= m[2] /\ Own(m[1], n)
    => totalCov.of[n] >= 1 /\ \A c \in Adding : seen[c].of[n] >= 1

HasInv == /\ Done /\ Overlaps
          /\ \A m \in merged : m[1] \in overlapped \/ StillIn(m)

LEMMA MoveHas ==
  ASSUME Typed, Placed, HasInv, NEW b \in Browsers, Moves(b)
  PROVE  HasInv'
<1>1. UNCHANGED contents
  BY MoveFacts
<1>2. /\ AllGiven' = AllGiven /\ \A c : Latest(c)' <=> Latest(c)
      /\ \A c, n : Own(c, n)' <=> Own(c, n)
  BY <1>1 DEF contents, AllGiven, Latest, Own
<1>3. step'[b] # "writing"
  BY MoveSteps
<1>4. Adding' = Adding
  BY <1>3, MoveSteps DEF Adding
<1>5. Done'
  <2>1. CASE step'[b] = "reading" \/ pc'[b] \notin {"reported", "leaving"}
    BY <1>1, <1>2, <2>1, MoveSteps DEF contents, HasInv, Done
  <2>2. CASE step'[b] = "none" /\ pc'[b] = "reported" /\ covMap[b] = NoCoverage
    BY <1>1, <1>2, <2>2, MoveSteps DEF contents, HasInv, Done
  <2>3. CASE step[b] = "none" /\ pc[b] = "reported" /\ pc'[b] = "leaving"
    BY <1>1, <1>2, <2>3, MoveSteps DEF contents, HasInv, Done
  <2> QED BY <2>1, <2>2, <2>3, MoveSteps
<1>6. Overlaps' /\ \A m \in merged' : m[1] \in overlapped' \/ StillIn(m)'
  BY <1>1, <1>2, <1>4 DEF contents, HasInv, Overlaps, StillIn
<1> QED BY <1>5, <1>6 DEF HasInv

\* A result adds to its browser, which is not in isDead.
LEMMA GiftHas ==
  ASSUME Typed, Placed, HasInv, NEW b \in Browsers, CoverNotice(b)
  PROVE  HasInv'
<1>0. PICK last \in Sources : last = Len(given) + 1
  BY GiftFacts
<1>1. /\ UNCHANGED <<totalCov, seen, merged, overlapped>>
      /\ step[b] = "none" /\ failed \subseteq failed'
      /\ step'[b] \in {"none", "failed"}
      /\ \A c \in Browsers : c # b => step'[c] = step[c] /\ covMap'[c] = covMap[c]
  BY DEF CoverNotice, Asks, Typed
<1>10. /\ pc'[b] \in {"idle", "exhausted"}
       /\ \A c \in Browsers : c # b => pc'[c] = pc[c]
  <2>1. PICK name \in Names : Store(b, name)
    BY DEF CoverNotice
  <2>2. \E v \in {"idle", "exhausted"} : pc' = [pc EXCEPT ![b] = v]
    BY <2>1, NoticePc DEF Notice
  <2> QED BY <2>2 DEF Typed
<1>2. AllGiven' = AllGiven \union {last}
  BY <1>0, GiftFacts
<1>3. given'[last].by = b
  <2>1. given'[last] = [by |-> b, raw |-> Head(coming)]
    BY <1>0, GiftFacts
  <2> QED BY <2>1
<1>4. \A n \in AllGiven : given'[n] = given[n]
  BY GiftFacts
<1>5. Adding' = Adding
  BY <1>1 DEF Adding
<1>6. \A c \in Browsers : c # b /\ Latest(c) => Latest(c)'
  BY <1>1, <1>2, <1>3, <1>4 DEF Latest
<1>7. Done'
  BY <1>1, <1>2, <1>6, <1>10 DEF HasInv, Done
<1>8. ASSUME NEW m \in merged, NEW n \in Sources, n <= m[2], Own(m[1], n)'
      PROVE  Own(m[1], n)
  <2>1. m[2] \in 0..Len(given) /\ Len(given) \in Nat
    BY DEF Typed
  <2>2. n \in AllGiven
    BY <1>8, <2>1 DEF AllGiven, Sources
  <2> QED BY <1>1, <1>4, <1>8, <2>2 DEF Own
<1>9. \A m \in merged : StillIn(m) => StillIn(m)'
  BY <1>1, <1>5, <1>8 DEF StillIn
<1> QED BY <1>1, <1>5, <1>7, <1>9 DEF HasInv, Overlaps

LEMMA ReadHas ==
  ASSUME Typed, HasInv, NEW b \in Browsers, ReadTotal(b)
  PROVE  HasInv'
<1>1. /\ UNCHANGED <<covMap, totalCov, given, failed, merged, pc>>
      /\ step'[b] = "writing" /\ seen'[b] = totalCov
      /\ \A c \in Browsers : c # b => step'[c] = step[c] /\ seen'[c] = seen[c]
      /\ overlapped' = overlapped \union
           (IF Adding = {} THEN {} ELSE {b} \union Adding)
  BY DEF ReadTotal, vars, Typed
<1>2. /\ AllGiven' = AllGiven /\ \A c : Latest(c)' <=> Latest(c)
      /\ \A c, n : Own(c, n)' <=> Own(c, n)
  BY <1>1 DEF AllGiven, Latest, Own
<1>3. Adding' = Adding \union {b}
  BY <1>1 DEF Adding
<1>4. Done'
  BY <1>1, <1>2 DEF HasInv, Done
<1>5. Overlaps'
  BY <1>1, <1>3 DEF HasInv, Overlaps
<1>6. ASSUME NEW m \in merged, StillIn(m) PROVE StillIn(m)'
  <2>1. \A c \in Adding' : seen'[c] = totalCov \/ (c \in Adding /\ seen'[c] = seen[c])
    BY <1>1, <1>3 DEF Adding
  <2> QED BY <1>1, <1>2, <1>6, <2>1 DEF StillIn
<1> QED BY <1>1, <1>4, <1>5, <1>6 DEF HasInv

LEMMA WriteHas ==
  ASSUME Typed, EachInv, HasInv, NEW b \in Browsers, WriteTotal(b)
  PROVE  HasInv'
<1>1. /\ UNCHANGED <<covMap, given, overlapped>>
      /\ \A c \in Browsers : c # b => pc'[c] = pc[c]
      /\ failed \subseteq failed' /\ failed' \subseteq failed \union {0}
      /\ step[b] = "writing"
      /\ \A c \in Browsers : c # b => step'[c] = step[c] /\ seen'[c] = seen[c]
  BY DEF WriteTotal, Typed
<1>2. /\ AllGiven' = AllGiven
      /\ \A c, n : n \in Sources => (Own(c, n)' <=> Own(c, n))
  BY <1>1 DEF AllGiven, Own, Sources
<1>3. Adding \subseteq Browsers /\ b \in Adding
  BY <1>1 DEF Adding
<1>4. CASE CanMerge(seen[b], covMap[b])
  <2> DEFINE sum == AddTo(seen[b], covMap[b])
  <2>1. /\ totalCov' = sum /\ step'[b] = "none"
        /\ merged' = merged \union {<<b, Len(given)>>}
    BY <1>4 DEF WriteTotal, TotalWith, Typed
  <2>2. \A n \in Sources : /\ sum.of[n] = seen[b].of[n] + covMap[b].of[n]
                           /\ seen[b].of[n] \in Nat
                           /\ covMap[b].of[n] = IF Own(b, n) THEN 1 ELSE 0
    <3>1. \A n \in Sources : sum.of[n] = seen[b].of[n] + covMap[b].of[n]
      BY AddFacts DEF Typed
    <3>2. \A n \in Sources : seen[b].of[n] \in Nat
      BY DEF Typed, HasCounts
    <3> HIDE DEF sum
    <3> QED BY <3>1, <3>2 DEF EachInv
  <2> HIDE DEF sum
  <2>3. Adding' = Adding \ {b}
    BY <1>1, <2>1 DEF Adding
  <2>4. \A c \in Browsers : Latest(c) => Latest(c)'
    BY <1>1, <1>2, <2>1 DEF Latest
  <2>5. AllGiven = {} \/ Latest(b)'
    <3>1. Len(given) \in Nat
      BY DEF Typed
    <3>2. AllGiven = {} \/ Len(given) \in AllGiven
      BY <3>1 DEF AllGiven
    <3>3. \A i \in AllGiven : i <= Len(given)
      BY <3>1 DEF AllGiven
    <3> QED BY <1>1, <1>2, <2>1, <3>2, <3>3 DEF Latest
  <2>6. Done'
    BY <1>1, <1>2, <2>1, <2>4, <2>5 DEF HasInv, Done
  <2>7. Overlaps'
    BY <1>1, <2>3 DEF HasInv, Overlaps
  <2>8. ASSUME NEW m \in merged, StillIn(m) PROVE StillIn(m)'
    <3> SUFFICES ASSUME NEW n \in Sources, n <= m[2], Own(m[1], n)
                 PROVE  sum.of[n] >= 1 /\ \A c \in Adding' : seen'[c].of[n] >= 1
      BY <1>2, <2>1 DEF StillIn
    <3>1. \A c \in Adding : seen[c].of[n] >= 1
      BY <2>8 DEF StillIn
    <3>2. sum.of[n] >= 1
      BY <1>3, <2>2, <3>1
    <3>3. \A c \in Adding' : seen'[c].of[n] >= 1
      BY <1>1, <1>3, <2>3, <3>1
    <3> QED BY <3>2, <3>3
  <2>9. b \in overlapped \/ StillIn(<<b, Len(given)>>)'
    <3> SUFFICES ASSUME b \notin overlapped, NEW n \in Sources, Own(b, n)
                 PROVE  sum.of[n] >= 1 /\ Adding' = {}
      BY <1>2, <2>1 DEF StillIn
    <3>1. Adding' = {}
      BY <1>3, <2>3 DEF HasInv, Overlaps
    <3> QED BY <2>2, <3>1
  <2> QED BY <1>1, <2>1, <2>6, <2>7, <2>8, <2>9 DEF HasInv
<1>5. CASE ~ CanMerge(seen[b], covMap[b])
  <2>1. UNCHANGED <<totalCov, merged>> /\ step'[b] = "none" /\ pc'[b] = "idle"
    BY <1>5 DEF WriteTotal, Typed
  <2>2. Adding' = Adding \ {b}
    BY <1>1, <2>1 DEF Adding
  <2>3. \A c \in Browsers : Latest(c) => Latest(c)'
    BY <1>1, <1>2, <2>1 DEF Latest
  <2>4. Done' /\ Overlaps'
    BY <1>1, <1>2, <2>1, <2>2, <2>3 DEF HasInv, Done, Overlaps
  <2>5. \A m \in merged : StillIn(m) => StillIn(m)'
    BY <1>1, <1>2, <1>3, <2>1, <2>2 DEF StillIn
  <2> QED BY <1>1, <2>1, <2>4, <2>5 DEF HasInv
<1> QED BY <1>4, <1>5

LEMMA HasNext ==
  Typed /\ Placed /\ EachInv /\ HasInv /\ [CoverNext]_allVars => HasInv'
<1> SUFFICES ASSUME Typed, Placed, EachInv, HasInv, [CoverNext]_allVars
             PROVE  HasInv'
  OBVIOUS
<1>1. CASE UNCHANGED <<contents, step, pc>>
  BY <1>1 DEF contents, HasInv, Done, Overlaps, StillIn, Latest, Own, AllGiven, Adding
<1>2. UNCHANGED allVars
        \/ ((Tick \/ \E b \in Browsers : Overtake(b)) /\ UNCHANGED <<coverVars, coverHistory>>)
      => UNCHANGED <<contents, step, pc>>
  BY DEF allVars, vars, coverVars, coverHistory, contents, Tick, Overtake
<1> QED BY <1>1, <1>2, MoveHas, GiftHas, ReadHas, WriteHas
        DEF CoverNext, CoverStep, Moves

LEMMA HasInit == CoverInit => HasInv
BY NoCoverageFacts DEF CoverInit, HasInv, Done, Overlaps, Adding

\* CoverageResultTableImpl.isDead: the coverage of each browser is in the total
\* once its holder leaves, for good and only once, but for the gaps between its
\* steps that "unreported", `overlapped` and `again` tell of.
THEOREM TotalCorrect == CoverSpec => []TotalRight
<1>1. Typed /\ Placed /\ TwiceInv /\ HasInv => TotalRight
  <2> SUFFICES ASSUME Typed, Placed, TwiceInv, HasInv PROVE TotalRight
    OBVIOUS
  <2>1. /\ Len(given) \in Nat /\ AllGiven \subseteq Sources
        /\ \A m \in merged : m[1] \in Browsers /\ m[2] \in 0..Len(given)
    <3>1. Len(given) \in Nat /\ Len(coming) \in Nat /\ MaxReports \in Nat
      BY BoundsAssumption DEF Typed
    <3> QED BY <3>1 DEF Typed, AllGiven, Sources
  <2>2. TwiceOnlyIfKept
    <3> SUFFICES ASSUME NEW n \in AllGiven, totalCov.of[n] > 1,
                        given[n].by \notin again
                 PROVE  FALSE
      BY DEF TwiceOnlyIfKept
    <3>1. totalCov.of[n] <= (IF IsMerged(given[n].by) THEN 1 ELSE 0)
          /\ totalCov.of[n] \in Nat
      BY <2>1 DEF TwiceInv, Bounded, Typed, HasCounts
    <3> QED BY <3>1
  <2>3. ASSUME NEW b \in Browsers, pc[b] = "leaving", covMap[b] # NoCoverage
        PROVE  Latest(b)
    BY <2>3 DEF HasInv, Done, Typed, Placed
  <2>4. ASSUME NEW m \in merged, m[1] \notin overlapped, NEW n \in 1..m[2],
               given[n].by = m[1], n \notin failed
        PROVE  totalCov.of[n] >= 1
    <3>1. n \in AllGiven /\ n <= m[2]
      BY <2>1 DEF AllGiven
    <3>2. Own(m[1], n) /\ n \in Sources
      BY <2>1, <2>4, <3>1 DEF Own
    <3> QED BY <2>4, <3>1, <3>2 DEF HasInv, StillIn
  <2> QED BY <2>2, <2>3, <2>4 DEF TotalRight, TotalHasAll, Latest
<1> QED BY <1>1, InitTypes, NextTypes, EachInit, EachNext, TwiceInit, TwiceNext,
           HasInit, HasNext, PTL DEF CoverSpec

LEMMA EachOnceRight == ASSUME Typed, EachInv PROVE EachOnce
<1>1. Len(given) \in Nat /\ Len(coming) \in Nat /\ MaxReports \in Nat
  BY BoundsAssumption DEF Typed
<1>2. AllGiven \subseteq Sources
  BY <1>1 DEF Typed, AllGiven, Sources
<1> QED BY <1>2 DEF EachInv, EachOnce, Own

\* CoverageResultTableImpl.store: a result is in the coverage of its browser
\* exactly once, and in no other's, unless its merge failed.
THEOREM EachOnceCorrect == CoverSpec => []EachOnce
BY EachOnceRight, InitTypes, NextTypes, EachInit, EachNext, PTL DEF CoverSpec

-----------------------------------------------------------------------------
(***************************************************************************)
(* Sums over sets of results.  MapThenSumSet folds a set along an order    *)
(* that CHOOSE gives.  Adds says of a function from subsets to numbers     *)
(* that it is a sum in any order: there is one, for the sources are        *)
(* numbers and it can be built up to each of them, and a fold is one too.  *)
(***************************************************************************)
\* Induction over a set of numbers.
LEMMA NatSet ==
  ASSUME NEW T, 0 \in T, \A n \in Nat : n \in T => n + 1 \in T
  PROVE  Nat \subseteq T
<1> SUFFICES ASSUME Nat \ T # {} PROVE FALSE
  OBVIOUS
<1>1. PICK least \in Nat \ T : \A n \in Nat \ T : ~ (<<n, least>> \in LessThan)
  <2> DEFINE U == Nat \ T
  <2>1. U \subseteq Nat /\ U # {}
    OBVIOUS
  <2> HIDE DEF U
  <2>2. PICK least \in U : \A n \in U : ~ (<<n, least>> \in LessThan)
    BY LessThanWellFounded, <2>1, WFMin
  <2> QED BY <2>2 DEF U
<1>2. least - 1 \in Nat /\ <<least - 1, least>> \in LessThan
  BY DEF LessThan
<1>3. least - 1 \in T
  BY <1>1, <1>2
<1> QED BY <1>2, <1>3

Adds(w, S, g) ==
  /\ g \in [SUBSET S -> Int] /\ g[{}] = 0
  /\ \A s \in SUBSET S : \A x \in S \ s : g[s \union {x}] = w[x] + g[s]

LEMMA AddsExists ==
  ASSUME NEW M \in Nat, NEW w \in [1..M -> Int]
  PROVE  \E g : Adds(w, 1..M, g)
<1> DEFINE T == {n \in Nat : n <= M => \E g : Adds(w, 1..n, g)}
<1>1. 0 \in T
  <2> DEFINE g == [s \in SUBSET (1..0) |-> 0]
  <2>1. 1..0 = {}
    OBVIOUS
  <2>2. Adds(w, 1..0, g)
    BY <2>1 DEF Adds
  <2> QED BY <2>2
<1>2. ASSUME NEW n \in Nat, n \in T PROVE n + 1 \in T
  <2> SUFFICES ASSUME n + 1 <= M PROVE \E g : Adds(w, 1..(n + 1), g)
    OBVIOUS
  <2>1. PICK g : Adds(w, 1..n, g)
    BY <1>2
  <2> DEFINE z == n + 1
             h == [s \in SUBSET (1..z) |->
                     IF z \in s THEN w[z] + g[s \ {z}] ELSE g[s]]
  <2>2. 1..z = (1..n) \union {z} /\ z \notin 1..n /\ w[z] \in Int
    OBVIOUS
  <2> HIDE DEF z
  <2>3. \A s \in SUBSET (1..z) : s \ {z} \in SUBSET (1..n)
                                /\ (z \notin s => s \in SUBSET (1..n))
    BY <2>2
  <2>4. \A s \in SUBSET (1..n) : g[s] \in Int
    BY <2>1 DEF Adds
  <2>5. h \in [SUBSET (1..z) -> Int]
    BY <2>2, <2>3, <2>4
  <2>6. h[{}] = 0
    BY <2>1 DEF Adds
  <2>7. ASSUME NEW s \in SUBSET (1..z), NEW x \in (1..z) \ s
        PROVE  h[s \union {x}] = w[x] + h[s]
    <3>0. s \union {x} \in SUBSET (1..z)
      OBVIOUS
    <3>1. CASE x = z
      <4>1. (s \union {x}) \ {z} = s /\ s \in SUBSET (1..n)
        BY <2>2, <2>7, <3>1
      <4> QED BY <3>0, <3>1, <4>1
    <3>2. CASE x # z /\ z \in s
      <4> DEFINE r == s \ {z}
      <4>1. (s \union {x}) \ {z} = r \union {x} /\ r \in SUBSET (1..n)
            /\ x \in (1..n) \ r
        BY <2>2, <2>7, <3>2
      <4> HIDE DEF r
      <4>2. g[r \union {x}] = w[x] + g[r] /\ g[r] \in Int
        BY <2>1, <2>4, <4>1 DEF Adds
      <4>3. h[s \union {x}] = w[z] + g[r \union {x}] /\ h[s] = w[z] + g[r]
        BY <3>0, <3>2, <4>1 DEF r
      <4>4. w[x] \in Int /\ w[z] \in Int
        BY <2>2, <4>1, <2>7
      <4> HIDE DEF h
      <4> QED BY <4>2, <4>3, <4>4
    <3>3. CASE x # z /\ z \notin s
      <4>1. s \in SUBSET (1..n) /\ x \in (1..n) \ s /\ z \notin s \union {x}
        BY <2>2, <2>7, <3>3
      <4>2. g[s \union {x}] = w[x] + g[s]
        BY <2>1, <4>1 DEF Adds
      <4> QED BY <3>0, <3>3, <4>1, <4>2
    <3> QED BY <3>1, <3>2, <3>3
  <2> HIDE DEF h
  <2>8. Adds(w, 1..z, h)
    BY <2>5, <2>6, <2>7 DEF Adds
  <2> QED BY <2>8 DEF z
<1> HIDE DEF T
<1>3. M \in T
  BY <1>1, <1>2, NatSet
<1> QED BY <1>3 DEF T

\* A function that takes one element out, whichever, is the sum.
Folds(w, S, h) ==
  /\ h[{}] = 0
  /\ \A s \in SUBSET S : s # {} => \E x \in s : h[s] = w[x] + h[s \ {x}]

LEMMA AddsUnique ==
  ASSUME NEW S, IsFiniteSet(S), NEW w, NEW g, Adds(w, S, g), NEW h, Folds(w, S, h)
  PROVE  \A s \in SUBSET S : h[s] = g[s]
<1> DEFINE T == {n \in Nat : \A s \in SUBSET S : Cardinality(s) = n => h[s] = g[s]}
<1>0. \A s \in SUBSET S : IsFiniteSet(s) /\ Cardinality(s) \in Nat
  BY FS_Subset, FS_CardinalityType
<1>1. 0 \in T
  BY <1>0, FS_EmptySet DEF Adds, Folds
<1>2. ASSUME NEW n \in Nat, n \in T PROVE n + 1 \in T
  <2> SUFFICES ASSUME NEW s \in SUBSET S, Cardinality(s) = n + 1 PROVE h[s] = g[s]
    OBVIOUS
  <2>1. s # {}
    BY FS_EmptySet
  <2>2. PICK x \in s : h[s] = w[x] + h[s \ {x}]
    BY <2>1 DEF Folds
  <2>3. Cardinality(s \ {x}) = n
    BY <1>0, FS_RemoveElement
  <2>4. h[s \ {x}] = g[s \ {x}]
    BY <1>2, <2>3
  <2>5. g[(s \ {x}) \union {x}] = w[x] + g[s \ {x}]
    BY DEF Adds
  <2>6. (s \ {x}) \union {x} = s
    OBVIOUS
  <2> QED BY <2>2, <2>4, <2>5, <2>6
<1> HIDE DEF T
<1>3. Nat \subseteq T
  BY <1>1, <1>2, NatSet
<1> QED BY <1>0, <1>3 DEF T

LEMMA AddsFolds ==
  ASSUME NEW S, NEW w, NEW g, Adds(w, S, g)
  PROVE  Folds(w, S, g)
<1> SUFFICES ASSUME NEW s \in SUBSET S, NEW x \in s PROVE g[s] = w[x] + g[s \ {x}]
  BY DEF Folds, Adds
<1>1. (s \ {x}) \union {x} = s
  OBVIOUS
<1> QED BY <1>1 DEF Adds

-----------------------------------------------------------------------------
(* The sum of a weight for each source. *)

Sums(w) == CHOOSE g : Adds(w, Sources, g)

LEMMA SourcesFinite == IsFiniteSet(Sources)
BY BoundsAssumption, FS_Interval DEF Sources

LEMMA SumsFacts ==
  ASSUME NEW w \in [Sources -> Int]
  PROVE  Adds(w, Sources, Sums(w))
BY BoundsAssumption, AddsExists DEF Sources, Sums

\* Sums add up.
LEMMA SumOfSums ==
  ASSUME NEW u \in [Sources -> Int], NEW v \in [Sources -> Int],
         NEW w \in [Sources -> Int], \A n \in Sources : w[n] = u[n] + v[n]
  PROVE  Sums(w)[Sources] = Sums(u)[Sources] + Sums(v)[Sources]
<1> DEFINE g == [s \in SUBSET Sources |-> Sums(u)[s] + Sums(v)[s]]
<1>1. Adds(u, Sources, Sums(u)) /\ Adds(v, Sources, Sums(v))
  BY SumsFacts
<1>2. Adds(w, Sources, g)
  <2>1. g \in [SUBSET Sources -> Int] /\ g[{}] = 0
    BY <1>1 DEF Adds
  <2>2. ASSUME NEW s \in SUBSET Sources, NEW x \in Sources \ s
        PROVE  g[s \union {x}] = w[x] + g[s]
    <3>1. /\ Sums(u)[s \union {x}] = u[x] + Sums(u)[s] /\ Sums(u)[s] \in Int
          /\ Sums(v)[s \union {x}] = v[x] + Sums(v)[s] /\ Sums(v)[s] \in Int
      BY <1>1 DEF Adds
    <3>2. s \union {x} \in SUBSET Sources
      OBVIOUS
    <3>3. g[s \union {x}] = Sums(u)[s \union {x}] + Sums(v)[s \union {x}]
          /\ g[s] = Sums(u)[s] + Sums(v)[s]
      BY <3>2
    <3>4. u[x] \in Int /\ v[x] \in Int /\ w[x] = u[x] + v[x]
      OBVIOUS
    <3> HIDE DEF g
    <3> QED BY <3>1, <3>3, <3>4
  <2> HIDE DEF g
  <2> QED BY <2>1, <2>2 DEF Adds
<1>3. \A s \in SUBSET Sources : Sums(w)[s] = g[s]
  <2> HIDE DEF g
  <2> QED BY <1>2, SumsFacts, AddsFolds, AddsUnique, SourcesFinite
<1> QED BY <1>3

\* What weighs nothing does not matter.
LEMMA SumOfPart ==
  ASSUME NEW w \in [Sources -> Int], NEW t \in SUBSET Sources,
         \A n \in Sources \ t : w[n] = 0
  PROVE  Sums(w)[Sources] = Sums(w)[t]
<1> DEFINE g == Sums(w)
           h == [s \in SUBSET Sources |-> g[s \intersect t]]
<1>1. Adds(w, Sources, g)
  BY SumsFacts
<1> HIDE DEF g
<1>2. Adds(w, Sources, h)
  <2>1. h \in [SUBSET Sources -> Int] /\ h[{}] = 0
    <3>1. \A s \in SUBSET Sources : s \intersect t \in SUBSET Sources
      OBVIOUS
    <3>2. {} \intersect t = {}
      OBVIOUS
    <3> QED BY <1>1, <3>1, <3>2 DEF Adds
  <2>2. ASSUME NEW s \in SUBSET Sources, NEW x \in Sources \ s
        PROVE  h[s \union {x}] = w[x] + h[s]
    <3> DEFINE r == s \intersect t
    <3>0. r \in SUBSET Sources /\ s \union {x} \in SUBSET Sources /\ x \notin r
      OBVIOUS
    <3>1. h[s] = g[r] /\ h[s \union {x}] = g[(s \union {x}) \intersect t]
      BY <3>0
    <3>2. CASE x \in t
      <4>1. (s \union {x}) \intersect t = r \union {x}
        BY <3>2
      <4>2. g[r \union {x}] = w[x] + g[r]
        <5> HIDE DEF r
        <5> QED BY <1>1, <3>0 DEF Adds
      <4> QED BY <3>1, <4>1, <4>2
    <3>3. CASE x \notin t
      <4>1. (s \union {x}) \intersect t = r /\ w[x] = 0
        BY <3>3
      <4>2. g[r] \in Int
        BY <1>1, <3>0 DEF Adds
      <4> HIDE DEF r, h
      <4> QED BY <3>1, <4>1, <4>2
    <3> QED BY <3>2, <3>3
  <2> HIDE DEF h
  <2> QED BY <2>1, <2>2 DEF Adds
<1>3. h[Sources] = g[Sources]
  <2> HIDE DEF h
  <2> QED BY <1>1, <1>2, AddsFolds, AddsUnique, SourcesFinite
<1>4. Sources \intersect t = t
  OBVIOUS
<1> QED BY <1>3, <1>4 DEF g

LEMMA SumOfOne ==
  ASSUME NEW w \in [Sources -> Int], NEW one \in Sources,
         \A n \in Sources \ {one} : w[n] = 0
  PROVE  Sums(w)[Sources] = w[one]
<1>1. Sums(w)[{} \union {one}] = w[one] + Sums(w)[{}] /\ Sums(w)[{}] = 0
  BY SumsFacts DEF Adds
<1>2. {} \union {one} = {one}
  OBVIOUS
<1> QED BY <1>1, <1>2, SumOfPart

-----------------------------------------------------------------------------
(* The sums of CountsAreSums. *)

\* The recursion that MapThenSumSet defines.
Folded(c, file, l, S) ==
  CHOOSE f : f = [s \in SUBSET S |->
                    IF s = {} THEN 0
                    ELSE LET x == CHOOSE x \in s : TRUE
                         IN c.of[x] * LinesOf(x)[file][l] + f[s \ {x}]]

LEMMA FoldIsSum ==
  ASSUME NEW c, NEW file, NEW l, NEW S \in SUBSET Sources,
         NEW w \in [Sources -> Int],
         \A n \in S : w[n] = c.of[n] * LinesOf(n)[file][l]
  PROVE  Folded(c, file, l, S)[S] = Sums(w)[S]
<1> DEFINE f == Folded(c, file, l, S)
           g == [s \in SUBSET S |-> Sums(w)[s]]
<1>1. Adds(w, Sources, Sums(w))
  BY SumsFacts
<1>2. Adds(w, S, g)
  <2>1. g \in [SUBSET S -> Int] /\ g[{}] = 0
    BY <1>1 DEF Adds
  <2>2. ASSUME NEW s \in SUBSET S, NEW x \in S \ s PROVE g[s \union {x}] = w[x] + g[s]
    BY <1>1 DEF Adds
  <2> HIDE DEF g
  <2> QED BY <2>1, <2>2 DEF Adds
<1>3. g = [s \in SUBSET S |->
             IF s = {} THEN 0
             ELSE LET x == CHOOSE x \in s : TRUE
                  IN c.of[x] * LinesOf(x)[file][l] + g[s \ {x}]]
  <2>1. ASSUME NEW s \in SUBSET S, s # {}, NEW x \in s
        PROVE  g[s] = c.of[x] * LinesOf(x)[file][l] + g[s \ {x}]
    <3>1. (s \ {x}) \union {x} = s
      BY <2>1
    <3>2. g[(s \ {x}) \union {x}] = w[x] + g[s \ {x}]
      BY <1>2 DEF Adds
    <3> QED BY <3>1, <3>2
  <2>2. g[{}] = 0 /\ g = [s \in SUBSET S |-> g[s]]
    BY <1>2 DEF Adds
  <2>3. \A s \in SUBSET S : s # {} => (CHOOSE x \in s : TRUE) \in s
    OBVIOUS
  <2> HIDE DEF g
  <2> QED BY <2>1, <2>2, <2>3
<1>4. f = [s \in SUBSET S |->
             IF s = {} THEN 0
             ELSE LET x == CHOOSE x \in s : TRUE
                  IN c.of[x] * LinesOf(x)[file][l] + f[s \ {x}]]
  <2> HIDE DEF g
  <2>1. \E h : h = [s \in SUBSET S |->
                      IF s = {} THEN 0
                      ELSE LET x == CHOOSE x \in s : TRUE
                           IN c.of[x] * LinesOf(x)[file][l] + h[s \ {x}]]
    BY <1>3
  <2> QED BY <2>1, Zenon DEF Folded
<1>5. Folds(w, S, f)
  <2>1. f[{}] = 0
    BY <1>4
  <2>2. ASSUME NEW s \in SUBSET S, s # {}
        PROVE  \E x \in s : f[s] = w[x] + f[s \ {x}]
    <3> DEFINE x == CHOOSE x \in s : TRUE
    <3>1. x \in s
      BY <2>2
    <3>2. f[s] = c.of[x] * LinesOf(x)[file][l] + f[s \ {x}]
      BY <1>4, <2>2
    <3> QED BY <3>1, <3>2
  <2> QED BY <2>1, <2>2 DEF Folds
<1>6. f[S] = g[S]
  <2>1. IsFiniteSet(S)
    BY SourcesFinite, FS_Subset
  <2> HIDE DEF f, g
  <2> QED BY <1>2, <1>5, <2>1, AddsUnique
<1> QED BY <1>6

-----------------------------------------------------------------------------
(***************************************************************************)
(* A coverage is right for the results g that came: its files are those of *)
(* the results in it, the lines of a file those that all of them have, and *)
(* its counts their sums.                                                  *)
(***************************************************************************)
Read(g, n) == Parsed(g[n].raw)

Within(c, g, file) == {n \in 1..Len(g) : c.of[n] > 0 /\ file \in DOMAIN Read(g, n)}

Number(g, n, file, l) ==
  IF n \in 1..Len(g) /\ file \in DOMAIN Read(g, n) /\ l \in DOMAIN Read(g, n)[file]
  THEN Read(g, n)[file][l] ELSE 0

Share(c, g, file, l) == [n \in Sources |-> c.of[n] * Number(g, n, file, l)]

Right(c, g) ==
  /\ HasCounts(c)
  /\ \A n \in Sources : c.of[n] > 0 => n \in 1..Len(g)
  /\ \A n \in 1..Len(g) : c.of[n] > 0 => DOMAIN Read(g, n) \subseteq DOMAIN c.lines
  /\ \A file \in DOMAIN c.lines : Within(c, g, file) # {}
  /\ \A file \in DOMAIN c.lines : \A m \in Within(c, g, file) :
       DOMAIN c.lines[file] = {l \in DOMAIN Read(g, m)[file] :
                                \A n \in Within(c, g, file) : l \in DOMAIN Read(g, n)[file]}
  /\ \A file \in DOMAIN c.lines : \A l \in DOMAIN c.lines[file] :
       c.lines[file][l] = Sums(Share(c, g, file, l))[Sources]

Came(g) == g \in Seq(Gifts) /\ Len(g) <= MaxReports

LEMMA NumberType ==
  ASSUME NEW g, Came(g), NEW n, NEW file, NEW l
  PROVE  Number(g, n, file, l) \in Nat
<1> SUFFICES ASSUME n \in 1..Len(g), file \in DOMAIN Read(g, n),
                    l \in DOMAIN Read(g, n)[file]
             PROVE  Read(g, n)[file][l] \in Nat
  BY DEF Number
<1>1. g[n] \in Gifts
  BY DEF Came
<1>2. PICK scenario \in Scenarios : \E i \in DOMAIN scenario : g[n].raw = scenario[i]
  <2>1. g[n].raw \in Raws
    BY <1>1 DEF Gifts
  <2> QED BY <2>1 DEF Raws
<1>3. PICK i \in DOMAIN scenario : Read(g, n) = Parsed(scenario[i])
  BY <1>2 DEF Read
<1>4. /\ file \in DOMAIN scenario[i] /\ l \in DOMAIN scenario[i][file]
      /\ scenario[i][file][l] >= 0 /\ Read(g, n)[file][l] = scenario[i][file][l]
  BY <1>3 DEF Parsed
<1>5. scenario[i][file][l] \in Int
  BY <1>4, BoundsAssumption
<1> QED BY <1>4, <1>5

LEMMA ShareType ==
  ASSUME NEW g, Came(g), NEW c, HasCounts(c), NEW file, NEW l
  PROVE  Share(c, g, file, l) \in [Sources -> Int]
<1>1. \A n \in Sources : c.of[n] \in Nat /\ Number(g, n, file, l) \in Nat
  BY NumberType DEF HasCounts
<1>2. \A x, y \in Nat : x * y \in Int
  OBVIOUS
<1> QED BY <1>1, <1>2 DEF Share

LEMMA RightNone == ASSUME NEW g, Came(g) PROVE Right(NoCoverage, g)
<1>1. Len(g) \in Nat /\ 1..Len(g) \subseteq Sources
  BY BoundsAssumption DEF Came, Sources
<1> QED BY <1>1, NoCoverageFacts DEF Right

\* What was right stays right when another result comes.
LEMMA RightMore ==
  ASSUME NEW g, NEW e, Came(g), Came(Append(g, e)), NEW c, Right(c, g)
  PROVE  Right(c, Append(g, e))
<1> DEFINE h == Append(g, e)
           last == Len(g) + 1
<1>1. /\ Len(g) \in Nat /\ 1..Len(h) = (1..Len(g)) \union {last}
      /\ last \in Sources /\ last \notin 1..Len(g)
      /\ \A n \in 1..Len(g) : h[n] = g[n]
  BY BoundsAssumption DEF Came, Sources
<1>2. c.of[last] = 0 /\ HasCounts(c)
  BY <1>1 DEF Right, HasCounts
<1> HIDE DEF h, last
<1>3. \A n \in 1..Len(g) : Read(h, n) = Read(g, n)
  BY <1>1 DEF Read
<1>4. \A file : Within(c, h, file) = Within(c, g, file)
  BY <1>1, <1>2, <1>3 DEF Within
<1>5. ASSUME NEW file, NEW l
      PROVE  Share(c, h, file, l) = Share(c, g, file, l)
  <2>1. \A n \in 1..Len(g) : Number(h, n, file, l) = Number(g, n, file, l)
    BY <1>1, <1>3 DEF Number
  <2>2. \A n \in Sources \ (1..Len(g)) : c.of[n] = 0
    BY DEF Right, HasCounts
  <2>3. \A n : Number(h, n, file, l) \in Nat /\ Number(g, n, file, l) \in Nat
    BY NumberType DEF h
  <2>4. \A n \in Sources : c.of[n] * Number(h, n, file, l) = c.of[n] * Number(g, n, file, l)
    BY <2>1, <2>2, <2>3
  <2> QED BY <2>4 DEF Share
<1>6. \A n \in Sources : c.of[n] > 0 => n \in 1..Len(h)
  BY <1>1 DEF Right
<1>7. \A n \in 1..Len(h) : c.of[n] > 0 => DOMAIN Read(h, n) \subseteq DOMAIN c.lines
  BY <1>1, <1>2, <1>3 DEF Right
<1>8. \A file \in DOMAIN c.lines : \A m \in Within(c, h, file) :
       DOMAIN c.lines[file] = {l \in DOMAIN Read(h, m)[file] :
                                \A n \in Within(c, h, file) : l \in DOMAIN Read(h, n)[file]}
  <2>1. \A file : \A m \in Within(c, g, file) : Read(h, m) = Read(g, m)
    BY <1>3 DEF Within
  <2> QED BY <1>4, <2>1 DEF Right
<1> QED BY <1>2, <1>4, <1>5, <1>6, <1>7, <1>8 DEF Right, h

\* What a result says is right.
LEMMA RightGiven ==
  ASSUME NEW g, NEW e, Came(g), Came(Append(g, e))
  PROVE  Right(Given(e.raw, Len(g) + 1), Append(g, e))
<1> DEFINE h == Append(g, e)
           last == Len(g) + 1
           c == Given(e.raw, last)
<1>1. /\ Len(g) \in Nat /\ 1..Len(h) = (1..Len(g)) \union {last}
      /\ last \in Sources /\ h[last] = e
  BY BoundsAssumption DEF Came, Sources
<1>2. /\ HasCounts(c) /\ c.lines = Read(h, last)
      /\ \A s \in Sources : c.of[s] = IF s = last THEN 1 ELSE 0
  BY <1>1, GivenFacts DEF Read
<1>3. Came(h)
  OBVIOUS
<1> HIDE DEF h, last, c
<1>4. 1..Len(h) \subseteq Sources
  BY <1>3, BoundsAssumption DEF Came, Sources
<1>5. \A file : Within(c, h, file) = IF file \in DOMAIN c.lines THEN {last} ELSE {}
  BY <1>1, <1>2, <1>4 DEF Within
<1>6. ASSUME NEW file \in DOMAIN c.lines, NEW l \in DOMAIN c.lines[file]
      PROVE  c.lines[file][l] = Sums(Share(c, h, file, l))[Sources]
  <2> DEFINE w == Share(c, h, file, l)
  <2>1. w \in [Sources -> Int]
    BY <1>2, <1>3, ShareType
  <2>2. \A n \in Sources : Number(h, n, file, l) \in Nat
    BY <1>3, NumberType
  <2>3. \A n \in Sources \ {last} : w[n] = 0
    BY <1>2, <2>2 DEF Share
  <2>4. w[last] = c.lines[file][l]
    <3>1. Number(h, last, file, l) = c.lines[file][l]
      BY <1>1, <1>2, <1>6 DEF Number
    <3>2. w[last] = 1 * Number(h, last, file, l)
      BY <1>1, <1>2 DEF Share
    <3> QED BY <1>1, <2>2, <3>1, <3>2
  <2> HIDE DEF w
  <2>5. Sums(w)[Sources] = w[last]
    BY <1>1, <2>1, <2>3, SumOfOne
  <2> QED BY <2>4, <2>5 DEF w
<1>7. \A n \in Sources : c.of[n] > 0 => n \in 1..Len(h)
  BY <1>1, <1>2
<1>8. \A n \in 1..Len(h) : c.of[n] > 0 => DOMAIN Read(h, n) \subseteq DOMAIN c.lines
  BY <1>2, <1>4
<1> HIDE DEF c
<1>9. Right(c, h)
  BY <1>2, <1>5, <1>6, <1>7, <1>8 DEF Right
<1> QED BY <1>9 DEF c, h, last

\* A merge that does not fail is right.
LEMMA RightAdd ==
  ASSUME NEW g, Came(g), NEW old, NEW new, Right(old, g), Right(new, g),
         CanMerge(old, new)
  PROVE  Right(AddTo(old, new), g)
<1> DEFINE sum == AddTo(old, new)
<1>1. CASE old = NoCoverage
  BY <1>1 DEF AddTo
<1>2. CASE old # NoCoverage
  <2>1. sum.lines =
          [f \in DOMAIN old.lines \union DOMAIN new.lines |->
             IF f \notin DOMAIN old.lines THEN new.lines[f]
             ELSE IF f \notin DOMAIN new.lines THEN old.lines[f]
             ELSE [l \in DOMAIN new.lines[f] |-> old.lines[f][l] + new.lines[f][l]]]
    BY <1>2 DEF AddTo, Merge, Coverage, FilesOfBoth, SumOfCounts
  <2>2. /\ HasCounts(sum) /\ HasCounts(old) /\ HasCounts(new)
        /\ \A n \in Sources : sum.of[n] = old.of[n] + new.of[n]
    BY AddFacts DEF Right
  <2>3. \A n \in Sources : old.of[n] \in Nat /\ new.of[n] \in Nat
    BY <2>2 DEF HasCounts
  <2>4. 1..Len(g) \subseteq Sources
    BY BoundsAssumption DEF Came, Sources
  <2> HIDE DEF sum
  <2>5. \A n \in Sources : sum.of[n] > 0 <=> old.of[n] > 0 \/ new.of[n] > 0
    BY <2>2, <2>3
  <2>6. \A file : Within(sum, g, file) = Within(old, g, file) \union Within(new, g, file)
    BY <2>4, <2>5 DEF Within
  <2>7. DOMAIN sum.lines = DOMAIN old.lines \union DOMAIN new.lines
    BY <2>1
  <2>8. \A n \in Sources : sum.of[n] > 0 => n \in 1..Len(g)
    BY <2>5 DEF Right
  <2>9. \A n \in 1..Len(g) : sum.of[n] > 0 => DOMAIN Read(g, n) \subseteq DOMAIN sum.lines
    BY <2>4, <2>5, <2>7 DEF Right
  <2>10. \A file \in DOMAIN sum.lines : Within(sum, g, file) # {}
    BY <2>6, <2>7 DEF Right
  \* A file that a coverage has not is in none of its results.
  <2>11. ASSUME NEW c, Right(c, g), NEW file, file \notin DOMAIN c.lines
         PROVE  /\ Within(c, g, file) = {}
                /\ \A l : \A n \in Sources : c.of[n] * Number(g, n, file, l) = 0
    <3>1. Within(c, g, file) = {}
      BY <2>11 DEF Right, Within
    <3>2. \A n \in Sources : c.of[n] \in Nat
      BY <2>11 DEF Right, HasCounts
    <3>3. \A l : \A n \in Sources : c.of[n] = 0 \/ Number(g, n, file, l) = 0
      BY <2>4, <3>1, <3>2 DEF Within, Number
    <3>4. \A l : \A n \in Sources : Number(g, n, file, l) \in Nat
      BY NumberType
    <3> QED BY <3>1, <3>2, <3>3, <3>4
  <2>12. ASSUME NEW file, NEW l, NEW n \in Sources
         PROVE  sum.of[n] * Number(g, n, file, l) =
                  old.of[n] * Number(g, n, file, l) + new.of[n] * Number(g, n, file, l)
    <3>1. \A x, y, z \in Nat : (x + y) * z = x * z + y * z
      OBVIOUS
    <3> QED BY <2>2, <2>3, <3>1, NumberType
  <2>13. ASSUME NEW file \in DOMAIN sum.lines
         PROVE  /\ \A m \in Within(sum, g, file) :
                     DOMAIN sum.lines[file] =
                       {l \in DOMAIN Read(g, m)[file] :
                          \A n \in Within(sum, g, file) : l \in DOMAIN Read(g, n)[file]}
                /\ \A l \in DOMAIN sum.lines[file] :
                     sum.lines[file][l] = Sums(Share(sum, g, file, l))[Sources]
    <3>1. CASE file \notin DOMAIN old.lines
      <4>1. sum.lines[file] = new.lines[file] /\ file \in DOMAIN new.lines
        BY <2>1, <2>7, <3>1, <2>13
      <4>2. Within(sum, g, file) = Within(new, g, file)
        BY <2>6, <2>11, <3>1
      <4>3. \A l : Share(sum, g, file, l) = Share(new, g, file, l)
        <5>1. \A l : \A n \in Sources : new.of[n] * Number(g, n, file, l) \in Int
          BY <2>3, NumberType
        <5>2. \A l : \A n \in Sources :
                sum.of[n] * Number(g, n, file, l) = new.of[n] * Number(g, n, file, l)
          BY <2>11, <2>12, <3>1, <5>1
        <5> QED BY <5>2 DEF Share
      <4> QED BY <4>1, <4>2, <4>3 DEF Right
    <3>2. CASE file \notin DOMAIN new.lines
      <4>1. sum.lines[file] = old.lines[file] /\ file \in DOMAIN old.lines
        BY <2>1, <2>7, <3>2, <2>13
      <4>2. Within(sum, g, file) = Within(old, g, file)
        BY <2>6, <2>11, <3>2
      <4>3. \A l : Share(sum, g, file, l) = Share(old, g, file, l)
        <5>1. \A l : \A n \in Sources : old.of[n] * Number(g, n, file, l) \in Int
          BY <2>3, NumberType
        <5>2. \A l : \A n \in Sources :
                sum.of[n] * Number(g, n, file, l) = old.of[n] * Number(g, n, file, l)
          BY <2>11, <2>12, <3>2, <5>1
        <5> QED BY <5>2 DEF Share
      <4> QED BY <4>1, <4>2, <4>3 DEF Right
    <3>3. CASE file \in DOMAIN old.lines /\ file \in DOMAIN new.lines
      <4>1. sum.lines[file] = [l \in DOMAIN new.lines[file] |->
                                 old.lines[file][l] + new.lines[file][l]]
        BY <2>1, <3>3
      <4>2. DOMAIN sum.lines[file] = DOMAIN new.lines[file]
            /\ DOMAIN new.lines[file] \subseteq DOMAIN old.lines[file]
        BY <3>3, <4>1 DEF CanMerge
      <4>3. ASSUME NEW m \in Within(sum, g, file)
            PROVE  DOMAIN sum.lines[file] =
                     {l \in DOMAIN Read(g, m)[file] :
                        \A n \in Within(sum, g, file) : l \in DOMAIN Read(g, n)[file]}
        <5>1. PICK p \in Within(new, g, file) : TRUE
          BY <3>3 DEF Right
        <5>2. \A q \in Within(new, g, file) :
                DOMAIN new.lines[file] = {l \in DOMAIN Read(g, q)[file] :
                  \A n \in Within(new, g, file) : l \in DOMAIN Read(g, n)[file]}
          BY <3>3 DEF Right
        <5>3. \A q \in Within(old, g, file) :
                DOMAIN old.lines[file] = {l \in DOMAIN Read(g, q)[file] :
                  \A n \in Within(old, g, file) : l \in DOMAIN Read(g, n)[file]}
          BY <3>3 DEF Right
        <5>4. \A l \in DOMAIN new.lines[file], n \in Within(sum, g, file) :
                l \in DOMAIN Read(g, n)[file]
          BY <2>6, <4>2, <5>2, <5>3
        <5>5. ASSUME NEW l, \A n \in Within(sum, g, file) : l \in DOMAIN Read(g, n)[file]
              PROVE  l \in DOMAIN new.lines[file]
          BY <2>6, <5>1, <5>2, <5>5
        <5> QED BY <4>2, <5>4, <5>5
      <4>4. ASSUME NEW l \in DOMAIN sum.lines[file]
            PROVE  sum.lines[file][l] = Sums(Share(sum, g, file, l))[Sources]
        <5>1. sum.lines[file][l] = old.lines[file][l] + new.lines[file][l]
              /\ l \in DOMAIN new.lines[file] /\ l \in DOMAIN old.lines[file]
          BY <4>1, <4>2
        <5>2. /\ old.lines[file][l] = Sums(Share(old, g, file, l))[Sources]
              /\ new.lines[file][l] = Sums(Share(new, g, file, l))[Sources]
          BY <3>3, <5>1 DEF Right
        <5>3. /\ Share(old, g, file, l) \in [Sources -> Int]
              /\ Share(new, g, file, l) \in [Sources -> Int]
              /\ Share(sum, g, file, l) \in [Sources -> Int]
          BY <2>2, ShareType
        <5>4. \A n \in Sources : Share(sum, g, file, l)[n] =
                                  Share(old, g, file, l)[n] + Share(new, g, file, l)[n]
          BY <2>12 DEF Share
        <5> QED BY <5>1, <5>2, <5>3, <5>4, SumOfSums
      <4> QED BY <4>3, <4>4
    <3> QED BY <3>1, <3>2, <3>3
  <2>14. Right(sum, g)
    BY <2>2, <2>8, <2>9, <2>10, <2>13 DEF Right
  <2> QED BY <2>14 DEF sum
<1> QED BY <1>1, <1>2

SumsInv == /\ Right(totalCov, given)
           /\ \A b \in Browsers : Right(covMap[b], given) /\ Right(seen[b], given)

LEMMA CameNow == ASSUME Typed PROVE Came(given)
<1>1. Len(given) \in Nat /\ Len(coming) \in Nat /\ MaxReports \in Nat
  BY BoundsAssumption DEF Typed
<1> QED BY <1>1 DEF Typed, Came

LEMMA SumsInit == CoverInit => SumsInv
<1>1. CoverInit => Came(given)
  BY InitTypes, CameNow
<1> QED BY <1>1, RightNone DEF CoverInit, SumsInv

LEMMA SumsNext ==
  Typed /\ Placed /\ SumsInv /\ [CoverNext]_allVars => SumsInv'
<1> SUFFICES ASSUME Typed, Placed, SumsInv, [CoverNext]_allVars PROVE SumsInv'
  OBVIOUS
<1>0. Came(given)
  BY CameNow
<1>1. ASSUME NEW b \in Browsers, CoverNotice(b) PROVE SumsInv'
  <2> DEFINE e == [by |-> b, raw |-> Head(coming)]
             new == Given(Head(coming), Len(given) + 1)
  <2>1. given' = Append(given, e) /\ UNCHANGED <<totalCov, seen>>
    BY <1>1 DEF CoverNotice
  <2>2. Came(given')
    <3>1. /\ given' \in Seq(Gifts) /\ Len(given') + Len(coming') <= MaxReports
          /\ coming' \in Seq(Raws)
      BY <1>1, GiftFacts
    <3>2. Len(given') \in Nat /\ Len(coming') \in Nat /\ MaxReports \in Nat
      BY <3>1, BoundsAssumption
    <3> QED BY <3>1, <3>2 DEF Came
  <2>3. \A c : Right(c, given) => Right(c, given')
    BY <1>0, <2>1, <2>2, RightMore
  <2>4. Right(new, given')
    <3>1. Right(Given(e.raw, Len(given) + 1), Append(given, e))
      BY <1>0, <2>1, <2>2, RightGiven
    <3> QED BY <2>1, <3>1
  <2>5. ASSUME NEW c \in Browsers PROVE Right(covMap'[c], given')
    <3>1. CASE covMap' = covMap
      BY <2>3, <3>1 DEF SumsInv
    <3>2. CASE CanMerge(covMap[b], new) /\ covMap' = [covMap EXCEPT ![b] = AddTo(@, new)]
      <4> DEFINE sum == AddTo(covMap[b], new)
      <4>1. Right(sum, given')
        BY <2>2, <2>3, <2>4, <3>2, RightAdd DEF SumsInv
      <4>2. covMap' = [covMap EXCEPT ![b] = sum]
        BY <3>2
      <4> HIDE DEF sum
      <4>3. covMap'[c] = sum \/ covMap'[c] = covMap[c]
        BY <4>2 DEF Typed
      <4> QED BY <2>3, <4>1, <4>3 DEF SumsInv
    <3> QED BY <1>1, <3>1, <3>2 DEF CoverNotice
  <2> QED BY <2>1, <2>3, <2>5 DEF SumsInv
<1>2. ASSUME NEW b \in Browsers, ReadTotal(b) PROVE SumsInv'
  <2>1. /\ UNCHANGED <<covMap, totalCov, given>>
        /\ \A c \in Browsers : seen'[c] \in {seen[c], totalCov}
    BY <1>2 DEF ReadTotal, Typed
  <2> QED BY <2>1 DEF SumsInv
<1>3. ASSUME NEW b \in Browsers, WriteTotal(b) PROVE SumsInv'
  <2>1. /\ UNCHANGED <<covMap, given>>
        /\ \A c \in Browsers : seen'[c] \in {seen[c], NoCoverage}
        /\ \/ totalCov' = totalCov
           \/ CanMerge(seen[b], covMap[b]) /\ totalCov' = AddTo(seen[b], covMap[b])
    BY <1>3 DEF WriteTotal, TotalWith, Typed
  <2>2. CanMerge(seen[b], covMap[b]) => Right(AddTo(seen[b], covMap[b]), given)
    BY <1>0, RightAdd DEF SumsInv
  <2> QED BY <1>0, <2>1, <2>2, RightNone DEF SumsInv
<1>4. CASE UNCHANGED contents
  BY <1>4 DEF contents, SumsInv
<1>5. UNCHANGED allVars \/ UNCHANGED <<coverVars, coverHistory>>
        => UNCHANGED contents
  BY DEF allVars, vars, coverVars, coverHistory, contents
<1> QED BY <1>1, <1>2, <1>3, <1>4, <1>5, MoveFacts DEF CoverNext, CoverStep, Moves

\* What a right coverage says in the terms of the property.
LEMMA RightTells ==
  ASSUME Typed, NEW c, Right(c, given)
  PROVE  /\ AllGiven \subseteq Sources
         /\ \A file : InWith(c, file) = Within(c, given, file)
         /\ \A n : LinesOf(n) = Read(given, n)
<1>1. 1..Len(given) \subseteq Sources
  BY CameNow, BoundsAssumption DEF Came, Sources
<1> QED BY <1>1 DEF AllGiven, InWith, In, Within, LinesOf, Read

LEMMA SumsRight == ASSUME Typed, SumsInv PROVE CountsAreSums
<1> SUFFICES ASSUME NEW c \in Coverages, NEW file \in DOMAIN c.lines,
                    NEW l \in DOMAIN c.lines[file]
             PROVE  c.lines[file][l] =
                      MapThenSumSet(LAMBDA n : c.of[n] * LinesOf(n)[file][l],
                                    InWith(c, file))
  BY DEF CountsAreSums
<1> DEFINE S == InWith(c, file)
           w == Share(c, given, file, l)
<1>1. Right(c, given)
  BY DEF SumsInv, Coverages
<1>2. /\ AllGiven \subseteq Sources /\ S = Within(c, given, file)
      /\ \A n : LinesOf(n) = Read(given, n)
  BY <1>1, RightTells
<1>3. S \subseteq AllGiven /\ S # {}
  BY <1>1, <1>2 DEF Right, InWith, In
<1>4. Came(given) /\ HasCounts(c)
  BY <1>1, CameNow DEF Right
<1>5. w \in [Sources -> Int]
  BY <1>4, ShareType
<1>6. \A n \in S : w[n] = c.of[n] * LinesOf(n)[file][l]
  <2> SUFFICES ASSUME NEW n \in S PROVE w[n] = c.of[n] * LinesOf(n)[file][l]
    OBVIOUS
  <2>1. l \in DOMAIN Read(given, n)[file] /\ file \in DOMAIN Read(given, n)
        /\ n \in 1..Len(given)
    BY <1>1, <1>2 DEF Right, Within
  <2> QED BY <1>2, <1>3, <2>1 DEF Number, Share
<1>7. \A n \in Sources \ S : w[n] = 0
  <2> SUFFICES ASSUME NEW n \in Sources \ S
               PROVE  c.of[n] * Number(given, n, file, l) = 0
    BY DEF Share
  <2>1. c.of[n] \in Nat /\ Number(given, n, file, l) \in Nat
    BY <1>4, NumberType DEF HasCounts
  <2>2. c.of[n] = 0 \/ Number(given, n, file, l) = 0
    BY <1>2, <2>1 DEF Within, Number
  <2> QED BY <2>1, <2>2
<1>8. c.lines[file][l] = Sums(w)[Sources]
  BY <1>1 DEF Right
<1> HIDE DEF w, S
<1>9. S \in SUBSET Sources
  BY <1>2, <1>3
<1>10. c.lines[file][l] = Sums(w)[S]
  BY <1>5, <1>7, <1>8, <1>9, SumOfPart
<1>11. Folded(c, file, l, S)[S] = Sums(w)[S]
  BY <1>5, <1>6, <1>9, FoldIsSum
<1>12. MapThenSumSet(LAMBDA n : c.of[n] * LinesOf(n)[file][l], S) = Folded(c, file, l, S)[S]
  BY DEF MapThenSumSet, MapThenFoldSet, Folded
<1> QED BY <1>10, <1>11, <1>12 DEF S

LEMMA LinesRight == ASSUME Typed, SumsInv PROVE NoLineLost
<1> SUFFICES ASSUME NEW c \in Coverages, NEW n \in In(c),
                    NEW file \in DOMAIN LinesOf(n), NEW l \in DOMAIN LinesOf(n)[file],
                    \A other \in InWith(c, file) : l \in DOMAIN LinesOf(other)[file]
             PROVE  file \in DOMAIN c.lines /\ l \in DOMAIN c.lines[file]
  BY DEF NoLineLost
<1>1. Right(c, given)
  BY DEF SumsInv, Coverages
<1>2. /\ InWith(c, file) = Within(c, given, file)
      /\ \A m : LinesOf(m) = Read(given, m)
  BY <1>1, RightTells
<1>3. n \in 1..Len(given) /\ c.of[n] > 0 /\ n \in Within(c, given, file)
  BY <1>2 DEF In, AllGiven, Within
<1>4. file \in DOMAIN c.lines
  BY <1>1, <1>2, <1>3 DEF Right
<1> QED BY <1>1, <1>2, <1>3, <1>4 DEF Right

\* Coverage.covMerge, and store and isDead that call it: each count is the sum of
\* what the results that went into it say, each result of a browser is in its
\* coverage once, and no line is lost that all results of its file have.
THEOREM MergeCorrect == CoverSpec => []MergeRight
<1>1. Typed /\ EachInv /\ SumsInv => MergeRight
  BY SumsRight, LinesRight, EachOnceRight DEF MergeRight
<1> QED BY <1>1, InitTypes, NextTypes, EachInit, EachNext, SumsInit, SumsNext, PTL
        DEF CoverSpec

-----------------------------------------------------------------------------
(***************************************************************************)
(* The whole type invariant: that of the table, whose steps go through     *)
(* Advance as before, and that of the coverages.                           *)
(***************************************************************************)
LEMMA NoticeTable ==
  ASSUME TypeOK, NEW b \in Browsers, Notice(b)
  PROVE  TypeOK'
<1>1. CASE Poll(b)
  BY <1>1, PollStarts, AdvanceTypes DEF Poll
<1>2. ASSUME NEW name \in Names, Store(b, name) PROVE TypeOK'
  BY <1>2, StoreStarts, AdvanceTypes DEF Store
<1> QED BY <1>1, <1>2 DEF Notice

\* A step that is no notice leaves the table as it is, but for the clock.
LEMMA TableStep ==
  ASSUME [CoverNext]_allVars
  PROVE  \/ \E b \in Browsers : Notice(b)
         \/ Tick
         \/ UNCHANGED <<tableVars, missing>> /\ report' \in {report, TRUE}
<1>1. ASSUME NEW b \in Browsers, CoverNotice(b) PROVE Notice(b)
  BY <1>1 DEF CoverNotice, Notice
<1>2. ASSUME NEW b \in Browsers, PlainNotice(b) PROVE Notice(b)
  BY <1>2 DEF PlainNotice
<1>3. ASSUME NEW b \in Browsers,
             \/ Again(b) \/ CoverFirstLook(b) \/ CoverReport(b) \/ ReadTotal(b)
             \/ WriteTotal(b) \/ CoverSecondLook(b) \/ CoverLeave(b)
             \/ Overtake(b)
      PROVE  UNCHANGED <<tableVars, missing>> /\ report' \in {report, TRUE}
  BY <1>3 DEF Again, CoverFirstLook, FirstLook, CoverReport, Report, ReadTotal, WriteTotal,
              CoverSecondLook, SecondLook, CoverLeave, Leave, Overtake, vars, tableVars
<1>4. CASE UNCHANGED allVars
  BY <1>4 DEF allVars, vars, tableVars
<1> QED BY <1>1, <1>2, <1>3, <1>4 DEF CoverNext, CoverStep

LEMMA TableNext ==
  TypeOK /\ Typed /\ Placed /\ [CoverNext]_allVars => TypeOK'
<1> SUFFICES ASSUME TypeOK, Typed, Placed, [CoverNext]_allVars PROVE TypeOK'
  OBVIOUS
<1>1. /\ pc' \in [Browsers -> {"idle", "exhausted", "reporting", "reported",
                             "looking", "leaving", "unreported", "left"}]
      /\ gone' \subseteq Browsers /\ \A b \in Browsers : pc'[b] = "left" => b \in gone'
  BY NextTypes DEF Typed, Placed
<1>2. CASE Tick
  BY <1>2 DEF Tick, TypeOK
<1>3. CASE UNCHANGED <<tableVars, missing>> /\ report' \in {report, TRUE}
  BY <1>1, <1>3 DEF tableVars, TypeOK
<1> QED BY <1>2, <1>3, NoticeTable, TableStep

LEMMA TableInit == CoverInit => TypeOK
BY InitTypeOK DEF CoverInit

NumbersIn(c) == \A file \in DOMAIN c.lines : \A l \in DOMAIN c.lines[file] :
                  c.lines[file][l] \in Nat

LEMMA GivenNumbers ==
  ASSUME NEW raw \in Raws, NEW source
  PROVE  NumbersIn(Given(raw, source))
<1>1. PICK scenario \in Scenarios : \E i \in DOMAIN scenario : raw = scenario[i]
  BY DEF Raws
<1>2. \A file \in DOMAIN raw : \A l \in DOMAIN raw[file] : raw[file][l] \in Int
  BY <1>1, BoundsAssumption
<1>3. \A file \in DOMAIN Parsed(raw) : file \in DOMAIN raw /\
        \A l \in DOMAIN Parsed(raw)[file] :
          /\ l \in DOMAIN raw[file] /\ raw[file][l] >= 0
          /\ Parsed(raw)[file][l] = raw[file][l]
  BY DEF Parsed
<1> QED BY <1>2, <1>3, GivenFacts DEF NumbersIn

LEMMA AddNumbers ==
  ASSUME NEW old, NEW new, NumbersIn(old), NumbersIn(new), CanMerge(old, new)
  PROVE  NumbersIn(AddTo(old, new))
<1>1. CASE old = NoCoverage
  BY <1>1 DEF AddTo
<1>2. CASE old # NoCoverage
  <2> DEFINE sum == AddTo(old, new)
  <2>1. sum.lines =
          [f \in DOMAIN old.lines \union DOMAIN new.lines |->
             IF f \notin DOMAIN old.lines THEN new.lines[f]
             ELSE IF f \notin DOMAIN new.lines THEN old.lines[f]
             ELSE [l \in DOMAIN new.lines[f] |-> old.lines[f][l] + new.lines[f][l]]]
    BY <1>2 DEF AddTo, Merge, Coverage, FilesOfBoth, SumOfCounts
  <2> HIDE DEF sum
  <2>2. ASSUME NEW f \in DOMAIN sum.lines, NEW l \in DOMAIN sum.lines[f]
        PROVE  sum.lines[f][l] \in Nat
    <3>1. f \in DOMAIN old.lines \union DOMAIN new.lines
      BY <2>1
    <3>2. CASE f \notin DOMAIN old.lines \/ f \notin DOMAIN new.lines
      BY <2>1, <2>2, <3>1, <3>2 DEF NumbersIn
    <3>3. CASE f \in DOMAIN old.lines /\ f \in DOMAIN new.lines
      <4>1. /\ sum.lines[f] = [k \in DOMAIN new.lines[f] |-> old.lines[f][k] + new.lines[f][k]]
            /\ DOMAIN new.lines[f] \subseteq DOMAIN old.lines[f]
        BY <2>1, <3>3 DEF CanMerge
      <4>2. l \in DOMAIN new.lines[f] /\ l \in DOMAIN old.lines[f]
        BY <4>1
      <4>3. old.lines[f][l] \in Nat /\ new.lines[f][l] \in Nat
        BY <3>3, <4>2 DEF NumbersIn
      <4> QED BY <4>1, <4>2, <4>3
    <3> QED BY <3>2, <3>3
  <2> QED BY <2>2 DEF NumbersIn, sum
<1> QED BY <1>1, <1>2

Past == [n \in AllGiven |-> given[n].raw]

CoverFacts ==
  /\ NumbersIn(totalCov)
  /\ \A b \in Browsers : NumbersIn(covMap[b]) /\ NumbersIn(seen[b])
  /\ \A b \in Browsers : seen[b] # NoCoverage => step[b] = "writing"
  /\ overlapped \subseteq Browsers /\ again \subseteq Browsers
  /\ \E scenario \in Scenarios : Past \o coming = scenario

LEMMA CoverInitFacts == CoverInit => CoverFacts
<1> SUFFICES ASSUME CoverInit PROVE CoverFacts
  OBVIOUS
<1>1. NumbersIn(NoCoverage)
  BY NoCoverageFacts DEF NumbersIn
<1>2. Past \o coming = coming
  <2>1. Past = <<>>
    BY DEF CoverInit, Past, AllGiven
  <2>2. coming \in Seq({coming[i] : i \in DOMAIN coming})
    BY BoundsAssumption DEF CoverInit
  <2> QED BY <2>1, <2>2
<1> QED BY <1>1, <1>2 DEF CoverInit, CoverFacts

\* A coverage that came goes from the end of what is to come to what has come.
LEMMA PastGrows ==
  ASSUME Typed, NEW b \in Browsers, CoverNotice(b)
  PROVE  Past' \o coming' = Past \o coming
<1>1. /\ coming \in Seq(Raws) /\ coming # <<>> /\ coming' = Tail(coming)
  BY DEF CoverNotice, Typed
<1>2. /\ AllGiven' = AllGiven \union {Len(given) + 1} /\ AllGiven = 1..Len(given)
      /\ \A n \in AllGiven : given'[n] = given[n]
      /\ given'[Len(given) + 1].raw = Head(coming) /\ Len(given) \in Nat
  <2>1. /\ given'[Len(given) + 1] = [by |-> b, raw |-> Head(coming)]
        /\ AllGiven' = AllGiven \union {Len(given) + 1} /\ Len(given) \in Nat
        /\ \A n \in AllGiven : given'[n] = given[n]
    BY GiftFacts
  <2>2. AllGiven = 1..Len(given)
    BY DEF AllGiven
  <2> QED BY <2>1, <2>2
<1>3. Past \in Seq(Raws) /\ Len(Past) = Len(given)
  <2>1. \A n \in AllGiven : given[n].raw \in Raws
    <3>1. given \in Seq(Gifts)
      BY DEF Typed
    <3>2. \A n \in AllGiven : given[n] \in Gifts
      BY <3>1 DEF AllGiven
    <3> QED BY <3>2 DEF Gifts
  <2> QED BY <1>2, <2>1 DEF Past
<1>4. Past' = Append(Past, Head(coming))
  <2>1. Past' = [n \in AllGiven' |-> given'[n].raw]
    BY DEF Past
  <2>2. Past' = [n \in 1..(Len(given) + 1) |->
                   IF n = Len(given) + 1 THEN Head(coming) ELSE Past[n]]
    BY <1>2, <2>1 DEF Past
  <2> HIDE DEF Past
  <2>3. Head(coming) \in Raws
    BY <1>1
  <2> QED BY <1>2, <1>3, <2>2, <2>3
<1> HIDE DEF Past
<1>5. Append(Past, Head(coming)) \o Tail(coming) = Past \o coming
  BY <1>1, <1>3
<1> QED BY <1>1, <1>4, <1>5

LEMMA CoverNextFacts ==
  Typed /\ Placed /\ CoverFacts /\ [CoverNext]_allVars => CoverFacts'
<1> SUFFICES ASSUME Typed, Placed, CoverFacts, [CoverNext]_allVars PROVE CoverFacts'
  OBVIOUS
<1>0. NumbersIn(NoCoverage)
  BY NoCoverageFacts DEF NumbersIn
<1>1. ASSUME NEW b \in Browsers, CoverNotice(b) PROVE CoverFacts'
  <2> DEFINE new == Given(Head(coming), Len(given) + 1)
  <2>1. /\ UNCHANGED <<totalCov, seen, overlapped, again>>
        /\ step[b] = "none" /\ \A c \in Browsers : c # b => step'[c] = step[c]
    BY <1>1 DEF CoverNotice, Asks, Typed
  <2>2. NumbersIn(new)
    <3>1. Head(coming) \in Raws
      BY <1>1 DEF CoverNotice, Typed
    <3> QED BY <3>1, GivenNumbers
  <2>3. ASSUME NEW c \in Browsers PROVE NumbersIn(covMap'[c])
    <3>1. CASE covMap' = covMap
      BY <3>1 DEF CoverFacts
    <3>2. CASE CanMerge(covMap[b], new) /\ covMap' = [covMap EXCEPT ![b] = AddTo(@, new)]
      <4> DEFINE sum == AddTo(covMap[b], new)
      <4>1. NumbersIn(sum)
        BY <2>2, <3>2, AddNumbers DEF CoverFacts
      <4>2. covMap' = [covMap EXCEPT ![b] = sum]
        BY <3>2
      <4> HIDE DEF sum
      <4>3. covMap'[c] = sum \/ covMap'[c] = covMap[c]
        BY <4>2 DEF Typed
      <4> QED BY <4>1, <4>3 DEF CoverFacts
    <3> QED BY <1>1, <3>1, <3>2 DEF CoverNotice
  <2>4. \E scenario \in Scenarios : Past' \o coming' = scenario
    BY <1>1, PastGrows DEF CoverFacts
  <2> QED BY <2>1, <2>3, <2>4 DEF CoverFacts
<1>2. ASSUME NEW b \in Browsers, ReadTotal(b) PROVE CoverFacts'
  <2>1. /\ UNCHANGED <<covMap, totalCov, given, coming, again>>
        /\ step'[b] = "writing" /\ Adding \subseteq Browsers
        /\ overlapped' \subseteq overlapped \union {b} \union Adding
        /\ \A c \in Browsers : /\ seen'[c] \in {seen[c], totalCov}
                               /\ c # b => step'[c] = step[c] /\ seen'[c] = seen[c]
    BY <1>2 DEF ReadTotal, Adding, Typed
  <2> QED BY <2>1 DEF CoverFacts, Past, AllGiven
<1>3. ASSUME NEW b \in Browsers, WriteTotal(b) PROVE CoverFacts'
  <2>1. /\ UNCHANGED <<covMap, given, coming, overlapped, again>>
        /\ seen'[b] = NoCoverage
        /\ \A c \in Browsers : c # b => step'[c] = step[c] /\ seen'[c] = seen[c]
        /\ \/ totalCov' = totalCov
           \/ CanMerge(seen[b], covMap[b]) /\ totalCov' = AddTo(seen[b], covMap[b])
    BY <1>3 DEF WriteTotal, TotalWith, Typed
  <2>2. NumbersIn(totalCov')
    BY <2>1, AddNumbers DEF CoverFacts
  <2> QED BY <1>0, <2>1, <2>2 DEF CoverFacts, Past, AllGiven
<1>4. ASSUME NEW b \in Browsers, Moves(b) PROVE CoverFacts'
  <2>1. /\ UNCHANGED contents /\ step[b] # "writing"
        /\ \A c \in Browsers : c # b => step'[c] = step[c]
    BY <1>4, MoveFacts, MoveSteps
  <2>2. again' \subseteq Browsers
    BY <1>4 DEF Moves, PlainNotice, Again, CoverFirstLook, CoverReport, CoverSecondLook,
                CoverLeave, KeepsAfterMerge, coverVars, coverHistory, CoverFacts
  <2> QED BY <2>1, <2>2 DEF contents, CoverFacts, Past, AllGiven
<1>5. CASE UNCHANGED allVars \/ UNCHANGED <<coverVars, coverHistory>>
  <2>1. UNCHANGED <<covMap, totalCov, step, seen, coming, given, overlapped, again>>
    BY <1>5 DEF allVars, coverVars, coverHistory
  <2> QED BY <2>1 DEF CoverFacts, Past, AllGiven
<1> QED BY <1>1, <1>2, <1>3, <1>4, <1>5 DEF CoverNext, CoverStep, Moves

\* The variables of table and coverages keep their types; a call that deals with
\* coverage is at its place in isDead.
THEOREM CoverTypeCorrect == CoverSpec => []CoverTypeOK
<1>1. TypeOK /\ Typed /\ Placed /\ CoverFacts => CoverTypeOK
  <2> SUFFICES ASSUME TypeOK, Typed, Placed, CoverFacts PROVE CoverTypeOK
    OBVIOUS
  <2>1. \A c : HasCounts(c) /\ NumbersIn(c) => IsCoverage(c)
    BY DEF HasCounts, NumbersIn, IsCoverage
  <2>2. \A n \in AllGiven : given[n].by \in Browsers
    <3>1. given \in Seq(Gifts)
      BY DEF Typed
    <3>2. \A n \in AllGiven : given[n] \in Gifts
      BY <3>1 DEF AllGiven
    <3> QED BY <3>2 DEF Gifts
  <2> QED BY <2>1, <2>2 DEF CoverTypeOK, Typed, Placed, CoverFacts, Past
<1> QED BY <1>1, InitTypes, NextTypes, TableInit, TableNext, CoverInitFacts, CoverNextFacts,
           PTL DEF CoverSpec

\* A table with coverage keeps what a plain one promises: its deadline follows the
\* slowest browser, its cursors hand out each kiss once, and what is in it was
\* counted, though calls fail in store and in isDead.
THEOREM TableCorrect == CoverSpec => [](DeadlineFollows /\ CursorRight /\ FilledAreCounted)
<1> DEFINE Inv == DeadlineInv /\ CursorInv /\ FilledAreCounted
<1>1. CoverInit => Inv
  <2> SUFFICES ASSUME CoverInit PROVE Inv
    OBVIOUS
  <2>1. IsLeast(count, successCount)
    BY BrowsersAssumption DEF CoverInit, Init, IsLeast
  <2>2. remaining <= Allowance(count)
    BY AllowanceType, SizeAssumption DEF CoverInit, Init
  <2>3. CursorInv
    BY SizeAssumption
       DEF CoverInit, Init, CursorInv, HandedAtMostOnce, Untouched, NoKissSkipped, Pos
  <2>4. FilledAreCounted
    BY FS_EmptySet DEF CoverInit, Init, FilledAreCounted
  <2> QED BY <2>1, <2>2, <2>3, <2>4 DEF DeadlineInv, CountIsLeast, DeadlineBounded
<1>2. TypeOK /\ Inv /\ [CoverNext]_allVars => Inv'
  <2> SUFFICES ASSUME TypeOK, Inv, [CoverNext]_allVars PROVE Inv'
    OBVIOUS
  <2>1. ASSUME NEW b \in Browsers, Notice(b) PROVE Inv'
    <3>1. Poll(b) => DeadlineInv' /\ CursorInv'
      BY PollStarts, AdvanceDeadline, AdvanceCursor DEF Poll
    <3>2. ASSUME NEW name \in Names, Store(b, name) PROVE DeadlineInv' /\ CursorInv'
      BY <3>2, StoreStarts, AdvanceDeadline, AdvanceCursor DEF Store
    <3> QED BY <2>1, <3>1, <3>2, NoticeCounts DEF Notice
  <2>2. CASE Tick
    <3>1. /\ remaining' = remaining - 1
          /\ UNCHANGED <<count, successCount, results, currentIndex, handed>>
      BY <2>2 DEF Tick
    <3>2. Allowance(count) \in Int /\ remaining \in Int
      BY AllowanceType DEF TypeOK
    <3>3. DeadlineInv'
      BY <3>1, <3>2 DEF DeadlineInv, CountIsLeast, DeadlineBounded, IsLeast, Allowance
    <3> QED BY <3>1, <3>3
            DEF CursorInv, HandedAtMostOnce, Untouched, NoKissSkipped, FilledAreCounted
  <2>3. CASE UNCHANGED <<tableVars, missing>>
    BY <2>3 DEF tableVars, DeadlineInv, CountIsLeast, DeadlineBounded, IsLeast, Allowance,
                CursorInv, HandedAtMostOnce, Untouched, NoKissSkipped, FilledAreCounted
  <2> QED BY <2>1, <2>2, <2>3, TableStep
<1>3. Inv => DeadlineFollows /\ CursorRight /\ FilledAreCounted
  BY DEF DeadlineInv, DeadlineFollows, CursorInv, CursorRight
<1> QED BY <1>1, <1>2, <1>3, InitTypes, NextTypes, TableInit, TableNext, PTL DEF CoverSpec
=============================================================================
