---------------------------- MODULE CoverageTable ----------------------------
(***************************************************************************)
(* The result table of a coverage task (CoverageResultTableImpl): a result *)
(* table whose store also adds the coverage that came with the result to   *)
(* that of its browser, and whose isDead also adds the coverage of the     *)
(* browser to the total, which every coverage report is made from.  store  *)
(* is synchronized and isDead is not, though it reads the total, merges    *)
(* and writes it back.                                                     *)
(*                                                                         *)
(* A coverage is a function from source files ("cases" in the code) to the *)
(* counts of their lines.  Some results come with one, others (as those    *)
(* that the probe's timer sends) without.  A file may come with other      *)
(* lines than before: it was instrumented again while the task runs, or    *)
(* the count of a line is not a number.                                    *)
(***************************************************************************)
EXTENDS ResultTable, Sequences, FiniteSetsExt

CONSTANTS
  Scenarios,  \* the sequences of coverages that may come with results
  MaxReports, \* the length of the longest
  MaxMerges   \* how often one may go into the total, a bound

ASSUME BoundsAssumption ==
  /\ MaxReports \in Nat /\ MaxMerges \in Nat
  /\ \A scenario \in Scenarios :
       /\ scenario \in Seq({scenario[i] : i \in DOMAIN scenario})
       /\ Len(scenario) <= MaxReports
       /\ \A i \in DOMAIN scenario : \A file \in DOMAIN scenario[i] :
            \A l \in DOMAIN scenario[i][file] : scenario[i][file][l] \in Int

VARIABLES
  covMap,     \* the coverage of each browser, or NoCoverage for null
  totalCov,   \* the coverage of all browsers
  step,       \* where each call of isDead is in what it does for coverage
  seen,       \* the total that it has read
  coming,     \* the coverages that are still to come, from any browser
  given,      \* history: the coverages that came, and from whom
  failed,     \* history: those that could not be added
  merged,     \* history: <<browser, n>>, its of the first n are in the total
  overlapped, \* history: the browsers that did so while another one did
  again       \* history: those that kept the table after adding to the total

coverVars == <<covMap, totalCov, step, seen>>
coverHistory == <<coming, given, failed, merged, overlapped, again>>
allVars == <<vars, coverVars, coverHistory>>

-----------------------------------------------------------------------------
(* Coverage.covMerge.  `of` is history: how often each coverage given has gone
   into this one. *)

Sources == 1..MaxReports

Coverage(lines, of) == [lines |-> lines, of |-> of]

NoCoverage == Coverage([file \in {} |-> <<>>], [s \in Sources |-> 0])

\* parseCovObject leaves out the lines whose count is not a number, which a
\* negative one stands for.
Parsed(raw) ==
  [file \in DOMAIN raw |-> [l \in {k \in DOMAIN raw[file] : raw[file][k] >= 0} |->
                             raw[file][l]]]

Given(raw, source) ==
  Coverage(Parsed(raw), [s \in Sources |-> IF s = source THEN 1 ELSE 0])

\* Mutant: a file that is in the new coverage only is looked up like the others.
CanMergeKnownFiles(old, new) ==
  old = NoCoverage \/ \A file \in DOMAIN new.lines :
    file \in DOMAIN old.lines /\ DOMAIN new.lines[file] \subseteq DOMAIN old.lines[file]

\* The old counts of a file are looked up by the new one's lines: the code
\* dereferences null if there is none.
CanMerge(old, new) ==
  \A file \in DOMAIN old.lines \intersect DOMAIN new.lines :
    DOMAIN new.lines[file] \subseteq DOMAIN old.lines[file]

\* Mutant: a file that is in the old coverage only is not copied.
FilesOfNew(old, new) == DOMAIN new

FilesOfBoth(old, new) == DOMAIN old \union DOMAIN new

\* Mutant: the newer count replaces the older.
NewCount(old, new) == new

SumOfCounts(old, new) == old + new

Merge(old, new) ==
  Coverage(
    [file \in FilesOfBoth(old.lines, new.lines) |->
       IF file \notin DOMAIN old.lines THEN new.lines[file]
       ELSE IF file \notin DOMAIN new.lines THEN old.lines[file]
       ELSE [l \in DOMAIN new.lines[file] |->
               SumOfCounts(old.lines[file][l], new.lines[file][l])]],
    [s \in Sources |-> old.of[s] + new.of[s]])

-----------------------------------------------------------------------------
(* store *)

\* Mutant: the coverage of a browser is that of its last result.
LastOnly(old, new) == new

\* Mutant: the first coverage is put in and then added all the same.
AddAlways(old, new) == Merge(IF old = NoCoverage THEN new ELSE old, new)

AddTo(old, new) == IF old = NoCoverage THEN new ELSE Merge(old, new)

\* Mutant: the request goes on though the merge in store has failed.
AsksThoughFailed(b) == step[b] \in {"none", "failed"}

Asks(b) == step[b] = "none"

\* A poll, or a result without coverage.
PlainNotice(b) ==
  Asks(b) /\ Notice(b) /\ UNCHANGED <<coverVars, coverHistory>>

\* A result with coverage.  If it cannot be added, the result is stored and
\* counted all the same and the cursor has moved on, but the request fails, so
\* that the browser never hears of the next kiss or that there is none.
CoverNotice(b) ==
  /\ Asks(b) /\ coming # <<>>
  /\ coming' = Tail(coming)
  /\ \E name \in Names :
       LET new == Given(Head(coming), Len(given) + 1)
       IN /\ Store(b, name)
          /\ given' = Append(given, [by |-> b, raw |-> Head(coming)])
          /\ IF CanMerge(covMap[b], new)
             THEN /\ covMap' = [covMap EXCEPT ![b] = AddTo(@, new)]
                  /\ UNCHANGED <<failed, step>>
             ELSE /\ failed' = failed \union {Len(given')}
                  /\ step' = [step EXCEPT ![b] = "failed"]
                  /\ UNCHANGED covMap
  /\ UNCHANGED <<totalCov, seen, merged, overlapped, again>>

\* The next request after one that failed in store.
Again(b) ==
  /\ step[b] = "failed"
  /\ step' = [step EXCEPT ![b] = "none"]
  /\ pc' = [pc EXCEPT ![b] = "idle"]
  /\ UNCHANGED <<tableVars, missing, report, gone, covMap, totalCov, seen,
                 coverHistory>>

-----------------------------------------------------------------------------
(* isDead *)

CoverFirstLook(b) ==
  /\ Asks(b) /\ FirstLook(b)
  /\ \A n \in 1..Len(given) :
       given[n].by = b => totalCov.of[n] < MaxMerges
  /\ UNCHANGED <<coverVars, coverHistory>>

CoverReport(b) ==
  /\ Report(b)
  /\ step' = [step EXCEPT ![b] =
       IF covMap[b] = NoCoverage THEN "none" ELSE "reading"]
  /\ UNCHANGED <<covMap, totalCov, seen, coverHistory>>

Adding == {b \in Browsers : step[b] = "writing"}

ReadTotal(b) ==
  /\ step[b] = "reading"
  /\ step' = [step EXCEPT ![b] = "writing"]
  /\ seen' = [seen EXCEPT ![b] = totalCov]
  /\ overlapped' = overlapped \union
       (IF Adding = {} THEN {} ELSE {b} \union Adding)
  /\ UNCHANGED <<vars, covMap, totalCov, coming, given, failed, merged, again>>

\* Mutant: the total is that of the browser that comes last.
TotalOfLast(b) == covMap[b]

\* The first coverage becomes the total itself.
TotalWith(b) == AddTo(seen[b], covMap[b])

\* The total is written back and the coverage report generated from it.  A
\* failing merge ends the request, and the holder keeps its processor.
WriteTotal(b) ==
  /\ step[b] = "writing"
  /\ step' = [step EXCEPT ![b] = "none"]
  /\ seen' = [seen EXCEPT ![b] = NoCoverage]
  /\ IF CanMerge(seen[b], covMap[b])
     THEN /\ totalCov' = TotalWith(b)
          /\ merged' = merged \union {<<b, Len(given)>>}
          /\ UNCHANGED <<pc, failed>>
     ELSE /\ pc' = [pc EXCEPT ![b] = "idle"]
          /\ failed' = failed \union {0}
          /\ UNCHANGED <<totalCov, merged>>
  /\ UNCHANGED <<tableVars, missing, report, gone, covMap, coming, given,
                 overlapped, again>>

IsMerged(b) == \E n \in 0..MaxReports : <<b, n>> \in merged

\* A holder that keeps this table, as it was not dead after all or the next
\* task is for other browsers, asks it again later.
KeepsAfterMerge(b) ==
  again' = IF pc'[b] = "idle" /\ IsMerged(b) THEN again \union {b} ELSE again

CoverSecondLook(b) ==
  /\ step[b] = "none" /\ SecondLook(b)
  /\ KeepsAfterMerge(b)
  /\ UNCHANGED <<coverVars, coming, given, failed, merged, overlapped>>

CoverLeave(b) ==
  /\ Leave(b)
  /\ KeepsAfterMerge(b)
  /\ UNCHANGED <<coverVars, coming, given, failed, merged, overlapped>>

CoverInit ==
  /\ Init
  /\ covMap = [b \in Browsers |-> NoCoverage]
  /\ totalCov = NoCoverage
  /\ step = [b \in Browsers |-> "none"]
  /\ seen = [b \in Browsers |-> NoCoverage]
  /\ coming \in Scenarios /\ given = <<>>
  /\ failed = {} /\ merged = {} /\ overlapped = {} /\ again = {}

CoverStep(b) == \/ PlainNotice(b) \/ CoverNotice(b) \/ Again(b)
                \/ CoverFirstLook(b) \/ CoverReport(b)
                \/ ReadTotal(b) \/ WriteTotal(b)
                \/ CoverSecondLook(b) \/ CoverLeave(b)

CoverNext ==
  \/ \E b \in Browsers : CoverStep(b)
  \/ \E b \in Browsers : Overtake(b) /\ UNCHANGED <<coverVars, coverHistory>>
  \/ Tick /\ UNCHANGED <<coverVars, coverHistory>>

CoverSpec == CoverInit /\ [][CoverNext]_allVars

-----------------------------------------------------------------------------
(* Properties *)

AllGiven == 1..Len(given)
LinesOf(n) == Parsed(given[n].raw)

IsCoverage(c) ==
  /\ c.of \in [Sources -> Nat]
  /\ \A file \in DOMAIN c.lines : \A l \in DOMAIN c.lines[file] :
       c.lines[file][l] \in Nat

CoverTypeOK ==
  /\ TypeOK
  /\ \A b \in Browsers : IsCoverage(covMap[b]) /\ IsCoverage(seen[b])
  /\ IsCoverage(totalCov)
  /\ step \in [Browsers -> {"none", "failed", "reading", "writing"}]
  /\ \A b \in Browsers :
       /\ step[b] = "failed" => pc[b] \in {"idle", "exhausted"}
       /\ step[b] \in {"reading", "writing"} => pc[b] = "reported"
       /\ seen[b] # NoCoverage => step[b] = "writing"
  /\ \E scenario \in Scenarios :
       [n \in AllGiven |-> given[n].raw] \o coming = scenario
  /\ \A n \in AllGiven : given[n].by \in Browsers
  /\ failed \subseteq 0..Len(given) /\ merged \subseteq Browsers \X (0..Len(given))
  /\ overlapped \union again \subseteq Browsers

Coverages == {covMap[b] : b \in Browsers} \union {totalCov}
In(c) == {n \in AllGiven : c.of[n] > 0}
InWith(c, file) == {n \in In(c) : file \in DOMAIN LinesOf(n)}

\* Every count, of a browser and in the total, is the sum of what the results
\* that went into it say of the line, however the merges were nested.
CountsAreSums ==
  \A c \in Coverages : \A file \in DOMAIN c.lines : \A l \in DOMAIN c.lines[file] :
    c.lines[file][l] =
      MapThenSumSet(LAMBDA n : c.of[n] * LinesOf(n)[file][l], InWith(c, file))

\* No line of a result is left out, unless another result has the same file
\* without that line (the lines of a merged file are those of the newer one).
NoLineLost ==
  \A c \in Coverages : \A n \in In(c) : \A file \in DOMAIN LinesOf(n) :
    \A l \in DOMAIN LinesOf(n)[file] :
      \/ file \in DOMAIN c.lines /\ l \in DOMAIN c.lines[file]
      \/ \E other \in InWith(c, file) : l \notin DOMAIN LinesOf(other)[file]

\* Each result of a browser is in its coverage once, unless its merge failed.
EachOnce ==
  \A n \in AllGiven \ failed : \A b \in Browsers :
    covMap[b].of[n] = IF given[n].by = b THEN 1 ELSE 0

\* Merging is right: the results of a browser are in its coverage once each,
\* with their lines, and counts are sums.
MergeRight == CountsAreSums /\ NoLineLost /\ EachOnce

\* A merge fails (and the browser is not told its next kiss, or its holder not
\* that the table is dead) only if a file came with two sets of lines.
FailsOnlyByLines ==
  failed # {} =>
    \E m, n \in AllGiven : \E file \in DOMAIN LinesOf(m) \intersect DOMAIN LinesOf(n) :
      DOMAIN LinesOf(m)[file] # DOMAIN LinesOf(n)[file]

\* A browser whose holder was told that the table is dead, and whose call
\* overlapped no other one's, has its coverage in the total for good, unless
\* the deadline passed between the two looks of isDead.
TotalHasAll ==
  /\ \A b \in Browsers :
       pc[b] = "leaving" /\ covMap[b] # NoCoverage
         => \E n \in AllGiven : <<b, n>> \in merged
                               /\ \A i \in AllGiven : given[i].by = b => i <= n
  /\ \A m \in merged : m[1] \notin overlapped
       => \A n \in 1..m[2] : given[n].by = m[1] /\ n \notin failed
                              => totalCov.of[n] >= 1

\* Nothing is counted twice in the total, unless the holder kept the table
\* after that: a result of another browser revived it between the two looks, or
\* the next task is not for this browser.
TwiceOnlyIfKept ==
  \A n \in AllGiven : totalCov.of[n] > 1 => given[n].by \in again

\* The total is right but for the two gaps of isDead: each browser that is done
\* is in it, and is in it once.
TotalRight == TotalHasAll /\ TwiceOnlyIfKept
=============================================================================
