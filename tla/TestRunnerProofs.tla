-------------------------- MODULE TestRunnerProofs --------------------------
(***************************************************************************)
(* Theorems about TestRunner, for pages of any length and number.          *)
(***************************************************************************)
EXTENDS TestRunner, FiniteSetTheorems, TLAPS

Items == {Module, Done} \union {First(t) : t \in Tests}
                        \union {Second(t) : t \in Tests}

LEMMA ItemFacts ==
  /\ Module # Done
  /\ \A t : /\ First(t) \notin {Module, Done}
            /\ Second(t) \notin {Module, Done}
  /\ \A t, u : /\ First(t) # Second(u)
               /\ First(t) = First(u) => t = u
               /\ Second(t) = Second(u) => t = u
BY DEF Module, Done, First, Second

-----------------------------------------------------------------------------
(* Scripts. *)

Ats == {"none", "stuck", "callback", "delay", "delayDefault", "list", "listTwice",
        "queue", "import", "frame", "css", "drag"}

Scripts == [at : Ats, left : Nat, nexts : Nat, running : Nat]

\* The script has still to make the assertion of its test.
Owes(s) ==
  \/ s.at \in {"callback", "delay", "delayDefault", "queue", "import", "css", "drag"}
  \/ s.at \in {"list", "listTwice", "frame"} /\ s.left > 0

\* A script that calls start() once, at its end.
Gentle(s) == s.at # "listTwice" /\ (s.at = "list" => s.nexts + s.running = 1)

LEMMA IdleFacts ==
  /\ Idle \in Scripts /\ Steps(Idle) = {} /\ ~ Owes(Idle) /\ Gentle(Idle)
  /\ Stuck \in Scripts /\ Steps(Stuck) = {} /\ ~ Owes(Stuck) /\ Gentle(Stuck)
  /\ Callback \in Scripts /\ Owes(Callback) /\ Gentle(Callback)
BY DEF Idle, Stuck, Callback, Script, Scripts, Ats, Steps, Owes, Gentle

\* What a step makes, what it releases, and the script that it leaves.
LEMMA StepFacts ==
  ASSUME NEW s \in Scripts, NEW o \in Steps(s)
  PROVE  /\ o.script \in Scripts /\ o.made \in {"none", "ok", "bad"}
         /\ o.released \in {0, 1}
         /\ o.made # "none" => Owes(s) /\ ~ Owes(o.script)
         /\ Owes(o.script) => Owes(s)
         /\ Gentle(s) => /\ Gentle(o.script)
                         /\ o.released = 1 => Steps(o.script) = {}
<1> USE IdleFacts
<1>1. CASE s.at = "callback"
  <2>1. o = Outcome(Idle, "ok", 1)
    BY <1>1 DEF Steps, CallbackRuns
  <2> QED BY <2>1, <1>1 DEF Outcome, Owes
<1>2. CASE s.at \in {"delay", "delayDefault"}
  <2>1. o \in {Outcome(Idle, "ok", 1), Outcome(Idle, "bad", 1),
               Outcome(Stuck, "none", 0)}
    BY <1>2 DEF Steps, DelaySucceeds, DelayFails
  <2> QED BY <2>1, <1>2 DEF Outcome, Owes
<1>3. CASE s.at \in {"list", "listTwice"} /\ o \in ListTimer(s)
  <2>1. s.nexts # 0
    BY <1>3 DEF ListTimer
  <2>2. CASE s.left = 0
    <3>1. CASE s.nexts + s.running = 1
      <4>1. o = Outcome(Idle, "none", 1)
        BY <2>1, <2>2, <3>1, <1>3 DEF ListTimer
      <4> QED BY <4>1 DEF Outcome
    <3>2. CASE s.nexts + s.running # 1
      <4>1. o = Outcome([s EXCEPT !.nexts = @ - 1], "none", 1)
        BY <2>1, <2>2, <3>2, <1>3 DEF ListTimer
      <4> QED BY <4>1, <2>1, <2>2, <3>2, <1>3 DEF Outcome, Owes, Gentle, Scripts
    <3> QED BY <3>1, <3>2
  <2>3. CASE s.left # 0
    <3>1. o = Outcome([s EXCEPT !.nexts = @ - 1, !.left = @ - 1,
                                !.running = @ + 1],
                      IF s.left = 1 THEN "ok" ELSE "none", 0)
      BY <2>1, <2>3, <1>3 DEF ListTimer
    <3>2. /\ o.script = [at |-> s.at, left |-> s.left - 1,
                         nexts |-> s.nexts - 1, running |-> s.running + 1]
          /\ o.made \in {"none", "ok"} /\ (o.made = "ok" => s.left = 1)
          /\ o.released = 0
      BY <3>1 DEF Outcome, Scripts
    <3> QED BY <3>2, <2>1, <2>3, <1>3 DEF Owes, Gentle, Scripts
  <2> QED BY <2>2, <2>3
<1>4. CASE s.at \in {"list", "listTwice"} /\ o \in ListNext(s)
  <2> DEFINE calls == IF s.at = "listTwice" /\ s.left = 1 THEN 2 ELSE 1
  <2>1. s.running # 0
    BY <1>4 DEF ListNext
  <2>2. o = Outcome([s EXCEPT !.running = @ - 1, !.nexts = @ + calls], "none", 0)
    BY <2>1, <1>4 DEF ListNext
  <2>3. calls \in {1, 2} /\ (s.at = "list" => calls = 1)
    OBVIOUS
  <2> HIDE DEF calls
  <2>4. /\ o.script = [at |-> s.at, left |-> s.left, nexts |-> s.nexts + calls,
                       running |-> s.running - 1]
        /\ o.made = "none" /\ o.released = 0
    BY <2>2 DEF Outcome, Scripts
  <2> QED BY <2>1, <2>3, <2>4, <1>4 DEF Owes, Gentle, Scripts
<1>5. CASE s.at = "queue"
  <2>1. CASE s.left > 1
    <3>1. o = Outcome([s EXCEPT !.left = @ - 1], "none", 0)
      BY <1>5, <2>1 DEF Steps, QueueTimer
    <3> QED BY <3>1, <1>5, <2>1 DEF Outcome, Owes, Gentle, Scripts
  <2>2. CASE ~ s.left > 1
    <3>1. o = Outcome(Idle, "ok", 1)
      BY <1>5, <2>2 DEF Steps, QueueTimer
    <3> QED BY <3>1, <1>5 DEF Outcome, Owes
  <2> QED BY <2>1, <2>2
<1>6. CASE s.at = "import"
  <2>1. o = Outcome(Idle, "ok", 1)
    BY <1>6 DEF Steps, ImportArrives
  <2> QED BY <2>1, <1>6 DEF Outcome, Owes
<1>7. CASE s.at \in {"frame", "css", "drag"}
  <2>1. CASE s.left > 0
    <3>1. o = Outcome([s EXCEPT !.left = @ - 1],
                      IF s.at = "frame" /\ s.left = 1 THEN "ok" ELSE "none", 0)
      BY <1>7, <2>1 DEF Steps, ChainStep
    <3> QED BY <3>1, <1>7, <2>1 DEF Outcome, Owes, Gentle, Scripts
  <2>2. CASE ~ s.left > 0
    <3>1. o = Outcome(Idle, IF s.at = "frame" THEN "none" ELSE "ok", 1)
      BY <1>7, <2>2 DEF Steps, ChainStep
    <3> QED BY <3>1, <1>7 DEF Outcome, Owes
  <2> QED BY <2>1, <2>2
<1> QED BY <1>1, <1>2, <1>3, <1>4, <1>5, <1>6, <1>7 DEF Steps

\* How the script of a test starts.
LEMMA StartFacts ==
  ASSUME NEW kind \in Kinds
  PROVE  /\ StartScript(kind) \in Scripts
         /\ kind \in SyncKinds => StartScript(kind) = Idle
         /\ kind \in StuckKinds => StartScript(kind) = Stuck
         /\ kind # "listTwice" => Gentle(StartScript(kind))
         /\ kind \in {"sync", "setupThrows"} => ~ Owes(StartScript(kind))
<1> USE IdleFacts
<1>1. CASE kind \in SyncKinds
  <2>1. StartScript(kind) = Idle
    BY <1>1 DEF StartScript, SyncKinds, CallbackKinds, StuckKinds
  <2> QED BY <2>1, <1>1 DEF SyncKinds, StuckKinds
<1>2. CASE kind \in CallbackKinds
  BY <1>2 DEF StartScript, SyncKinds, CallbackKinds, StuckKinds
<1>3. CASE kind \in StuckKinds
  BY <1>3 DEF StartScript, SyncKinds, CallbackKinds, StuckKinds
<1>4. CASE kind \in {"list", "listTwice"}
  <2>1. StartScript(kind) = Script(kind, 2, 1, 0)
    BY <1>4 DEF StartScript, SyncKinds, CallbackKinds, StuckKinds
  <2> QED BY <2>1, <1>4
          DEF Script, Scripts, Ats, Gentle, SyncKinds, StuckKinds
<1>5. CASE kind \in HelperKinds \ {"list", "listTwice"}
  <2>1. PICK left \in Nat : StartScript(kind) = Script(kind, left, 0, 0)
    BY <1>5 DEF StartScript, SyncKinds, CallbackKinds, StuckKinds, HelperKinds
  <2>2. kind \in Ats \ {"list", "listTwice"}
    BY <1>5 DEF HelperKinds, Ats
  <2> QED BY <2>1, <2>2, <1>5
          DEF Script, Scripts, Gentle, SyncKinds, StuckKinds, HelperKinds
<1> QED BY <1>1, <1>2, <1>3, <1>4, <1>5 DEF Kinds

\* What a body asserts itself: its test's assertion only if the script does not.
LEMMA BodyFacts ==
  ASSUME NEW t \in Tests, page[t] \in Kinds
  PROVE  /\ BodyAsserts(t) \subseteq {t} \X {"ok", "setup", "died"}
         /\ Owes(StartScript(page[t])) => <<t, "ok">> \notin BodyAsserts(t)
BY StartFacts DEF BodyAsserts

-----------------------------------------------------------------------------
(* Types. *)

Report == [bad : Nat, all : Nat, timedOut : BOOLEAN]

PageTyped ==
  /\ page \in (IF batch THEN BatchPages ELSE Pages) /\ batch \in BOOLEAN
  /\ page \in Seq(Kinds \union {"module"})

LoadTyped ==
  /\ defined \in 0..Len(page)
  /\ loaded \in BOOLEAN /\ library \in BOOLEAN /\ stranded \in BOOLEAN

QueueTyped ==
  /\ queue \in Seq(Items) /\ (busy => GoesOn(queue, blocking))
  /\ busy \in BOOLEAN /\ blocking \in BOOLEAN /\ autorun \in BOOLEAN

ClockTyped == /\ starts \in Nat /\ ahead \in Nat
              /\ doneTimer \in {"none", "due", "armed", "fired"}
              /\ doneTimer = "due" => busy

TimersTyped ==
  /\ waiting \in Nat /\ testTimer \in BOOLEAN
  /\ stopTimers \subseteq Tests /\ handle \in {0} \union Tests

TestsTyped ==
  /\ assertions \subseteq Assertions /\ expected \in {0, 1}
  /\ script \in [1..Len(page) -> Scripts]
  /\ \A t \in Tests : Active(t) => page[t] \notin SyncKinds
  /\ elements \subseteq Tests /\ te \subseteq Tests

ResultTyped ==
  flag \in BOOLEAN /\ stats \in [all : Nat, bad : Nat] /\ dones \in Seq(Report)

Typed == /\ PageTyped /\ LoadTyped /\ QueueTyped /\ ClockTyped /\ TimersTyped
         /\ TestsTyped /\ ResultTyped

LEMMA PageFacts ==
  ASSUME page \in Seq(Kinds \union {"module"})
  PROVE  /\ Len(page) \in Nat /\ Tests \subseteq 1..Len(page)
         /\ \A t \in Tests : t \in Nat /\ t # 0 /\ page[t] \in Kinds
         /\ \A i \in 1..Len(page) : i \in Tests \/ page[i] = "module"
         /\ IsFiniteSet(Assertions)
<1>1. /\ Len(page) \in Nat /\ Tests \subseteq 1..Len(page)
      /\ \A t \in Tests : t \in Nat /\ t # 0 /\ page[t] \in Kinds
      /\ \A i \in 1..Len(page) : i \in Tests \/ page[i] = "module"
  BY DEF Tests
<1>2. IsFiniteSet(Tests)
  <2>1. IsFiniteSet(1..Len(page))
    BY <1>1, FS_Interval
  <2> QED BY <1>1, <2>1, FS_Subset
<1>3. IsFiniteSet({"ok", "bad", "setup", "died", "timeout", "number"})
  <2>1. IsFiniteSet({"ok"})
    BY FS_Singleton
  <2>2. IsFiniteSet({"ok", "bad"})
    BY <2>1, FS_AddElement, {"ok", "bad"} = {"ok"} \union {"bad"}
  <2>3. IsFiniteSet({"ok", "bad", "setup"})
    BY <2>2, FS_AddElement, {"ok", "bad", "setup"} = {"ok", "bad"} \union {"setup"}
  <2>4. IsFiniteSet({"ok", "bad", "setup", "died"})
    BY <2>3, FS_AddElement,
       {"ok", "bad", "setup", "died"} = {"ok", "bad", "setup"} \union {"died"}
  <2>5. IsFiniteSet({"timeout"}) /\ {"timeout", "number"} = {"timeout"} \union {"number"}
    BY FS_Singleton
  <2>6. IsFiniteSet({"timeout", "number"})
    BY <2>5, FS_AddElement
  <2> QED BY <2>4, <2>6, FS_Union,
             {"ok", "bad", "setup", "died", "timeout", "number"}
               = {"ok", "bad", "setup", "died"} \union {"timeout", "number"}
<1> QED BY <1>1, <1>2, <1>3, FS_Product DEF Assertions

LEMMA TypesGive == ASSUME Typed PROVE TypeOK
BY DEF Typed, PageTyped, LoadTyped, QueueTyped, ClockTyped, TimersTyped,
       TestsTyped, ResultTyped, TypeOK, Active, Items

\* What no step changes.
LEMMA PageStays ==
  ASSUME [Next]_vars
  PROVE  /\ UNCHANGED pageVars
         /\ Tests' = Tests /\ Items' = Items /\ Assertions' = Assertions
<1>1. UNCHANGED pageVars
  BY DEF Next, vars, Define, Load, LibraryLoads, Process, RunModule, RunDone,
         RunFirst, RunSecond, DoneTimer, StartTimer, LibraryPoll, TestTimeout,
         StopTimer, ScriptStep
<1> QED BY <1>1 DEF pageVars, Tests, Items, Assertions

\* Types depend on their variables and on the page only.
LEMMA TypeFrames ==
  ASSUME Typed, [Next]_vars
  PROVE  /\ PageTyped'
         /\ UNCHANGED <<defined, loaded, library, stranded>> => LoadTyped'
         /\ UNCHANGED queueVars => QueueTyped'
         /\ UNCHANGED <<starts, doneClock, busy>> => ClockTyped'
         /\ UNCHANGED <<waiting, testTimer, stopTimers, handle>> => TimersTyped'
         /\ UNCHANGED testVars => TestsTyped'
         /\ UNCHANGED resultVars => ResultTyped'
<1> USE PageStays DEF Typed, pageVars
<1>1. PageTyped' /\ (UNCHANGED <<defined, loaded, library, stranded>> => LoadTyped')
  BY DEF PageTyped, LoadTyped
<1>2. UNCHANGED queueVars => QueueTyped'
  BY DEF queueVars, QueueTyped, GoesOn
<1>3. /\ UNCHANGED <<starts, doneClock, busy>> => ClockTyped'
      /\ UNCHANGED <<waiting, testTimer, stopTimers, handle>> => TimersTyped'
  BY DEF doneClock, ClockTyped, TimersTyped
<1>4. UNCHANGED testVars => TestsTyped'
  BY DEF testVars, TestsTyped, Active
<1>5. UNCHANGED resultVars => ResultTyped'
  BY DEF resultVars, ResultTyped
<1> QED BY <1>1, <1>2, <1>3, <1>4, <1>5

\* What the second function of a test counts.
LEMMA CountingFacts ==
  ASSUME Typed, NEW t \in Tests
  PROVE  /\ Counting(t) \subseteq Assertions /\ assertions \subseteq Counting(t)
         /\ Counting(t) \subseteq assertions \union {<<t, "number">>}
         /\ IsFiniteSet(Counting(t)) /\ Cardinality(Counting(t)) \in Nat
         /\ Cardinality({a \in Counting(t) : IsBad(a)}) \in Nat
<1>1. /\ Counting(t) \subseteq Assertions /\ assertions \subseteq Counting(t)
      /\ Counting(t) \subseteq assertions \union {<<t, "number">>}
  BY DEF Counting, Typed, TestsTyped, Assertions
<1>2. IsFiniteSet(Counting(t)) /\ IsFiniteSet({a \in Counting(t) : IsBad(a)})
  BY <1>1, PageFacts, FS_Subset DEF Typed, PageTyped
<1> QED BY <1>1, <1>2, FS_CardinalityType

LEMMA InitTypes == ASSUME Init PROVE Typed
<1>1. page \in (IF batch THEN BatchPages ELSE Pages) /\ batch \in BOOLEAN
  BY DEF Init
<1>2. PageTyped
  BY <1>1, PagesAssumption DEF PageTyped
<1>3. Tests \subseteq 1..Len(page) /\ Len(page) \in Nat
  BY <1>2, PageFacts DEF PageTyped
<1>4. script \in [1..Len(page) -> Scripts] /\ \A t \in Tests : ~ Active(t)
  BY <1>3, IdleFacts DEF Init, Active
<1>5. /\ <<>> \in Seq(Items) /\ <<>> \in Seq(Report)
      /\ [all |-> 0, bad |-> 0] \in [all : Nat, bad : Nat]
  OBVIOUS
<1>6. /\ QueueTyped /\ ResultTyped
      /\ LoadTyped /\ ClockTyped /\ TimersTyped
  <2>1. QueueTyped
    BY <1>5 DEF Init, QueueTyped
  <2>2. ResultTyped
    BY <1>5 DEF Init, ResultTyped
  <2>3. LoadTyped
    <3>1. 0 \in 0..Len(page)
      BY <1>3
    <3> QED BY <3>1 DEF Init, LoadTyped
  <2>4. ClockTyped /\ TimersTyped
    BY DEF Init, ClockTyped, TimersTyped
  <2> QED BY <2>1, <2>2, <2>3, <2>4
<1>7. TestsTyped
  BY <1>4 DEF Init, TestsTyped
<1> QED BY <1>2, <1>6, <1>7 DEF Typed

-----------------------------------------------------------------------------
LEMMA NextTypes == ASSUME Typed, [Next]_vars PROVE Typed'
<1> USE DEF pageVars, doneClock, queueVars, timerVars, testVars, resultVars,
            historyVars
<1>0. /\ UNCHANGED pageVars
      /\ Tests' = Tests /\ Items' = Items /\ Assertions' = Assertions
  BY PageStays
<1>1. /\ PageTyped'
      /\ UNCHANGED <<defined, loaded, library, stranded>> => LoadTyped'
      /\ UNCHANGED queueVars => QueueTyped'
      /\ UNCHANGED <<starts, doneClock, busy>> => ClockTyped'
      /\ UNCHANGED <<waiting, testTimer, stopTimers, handle>> => TimersTyped'
      /\ UNCHANGED testVars => TestsTyped'
      /\ UNCHANGED resultVars => ResultTyped'
  BY TypeFrames
<1>2. /\ page \in Seq(Kinds \union {"module"}) /\ defined \in 0..Len(page)
      /\ queue \in Seq(Items) /\ busy \in BOOLEAN /\ blocking \in BOOLEAN
      /\ autorun \in BOOLEAN /\ (busy => GoesOn(queue, blocking))
  BY DEF Typed, PageTyped, LoadTyped, QueueTyped
<1>17. /\ [bad |-> stats.bad, all |-> stats.all, timedOut |-> flag] \in Report
      /\ Append(dones, [bad |-> stats.bad, all |-> stats.all, timedOut |-> flag])
           \in Seq(Report)
  BY DEF Typed, ResultTyped, Report
<1>3. CASE Define
  <2>1. queue' = queue \o ItemsOf(defined + 1) /\ defined + 1 \in 1..Len(page)
    BY <1>0, <1>2, <1>3, PageFacts DEF Define, Synchronize
  <2>2. ItemsOf(defined + 1) \in Seq(Items) /\ ItemsOf(defined + 1) # <<>>
    <3>1. CASE page[defined + 1] = "module"
      <4>1. Module \in Items
        BY DEF Items
      <4> QED BY <3>1, <4>1 DEF ItemsOf
    <3>2. CASE defined + 1 \in Tests
      <4>1. First(defined + 1) \in Items /\ Second(defined + 1) \in Items
        BY <3>2 DEF Items
      <4> QED BY <3>2, <4>1 DEF ItemsOf, Tests
    <3> QED BY <3>1, <3>2, <2>1, <1>2, PageFacts
  <2>3. queue' \in Seq(Items) /\ queue' # <<>>
    BY <2>1, <2>2, <1>2
  <2>4. QueueTyped'
    BY <2>3, <1>0, <1>2, <1>3 DEF Define, Synchronize, QueueTyped, GoesOn
  <2>5. LoadTyped'
    BY <2>1, <1>0, <1>2, <1>3 DEF Define, LoadTyped, Typed, Resumes
  <2>6. ClockTyped'
    BY <1>0, <1>3 DEF Define, ArmDoneTimer, Typed, ClockTyped
  <2> QED BY <2>4, <2>5, <2>6, <1>1, <1>3 DEF Define, Typed
<1>4. CASE Load
  <2>1. QueueTyped'
    BY <1>0, <1>2, <1>4 DEF Load, QueueTyped
  <2>2. ClockTyped'
    BY <1>4 DEF Load, Typed, ClockTyped
  <2>3. LoadTyped'
    BY <1>0, <1>4 DEF Load, Typed, LoadTyped
  <2> QED BY <2>1, <2>2, <2>3, <1>1, <1>4 DEF Load, Typed
<1>5. CASE LibraryLoads
  <2>1. LoadTyped'
    BY <1>0, <1>5 DEF LibraryLoads, Typed, LoadTyped
  <2> QED BY <2>1, <1>1, <1>5 DEF LibraryLoads, Typed
<1>6. CASE LibraryPoll
  <2>1. ClockTyped' /\ TimersTyped'
    BY <1>0, <1>6 DEF LibraryPoll, Typed, ClockTyped, TimersTyped
  <2> QED BY <2>1, <1>1, <1>6 DEF LibraryPoll, Typed
<1>7. CASE RunModule
  <2>1. QueueTyped'
    <3>1. queue' \in Seq(Items)
      BY <1>2, <1>7 DEF RunModule, Calls, GoesOn
    <3> QED BY <3>1, <1>0, <1>2, <1>7 DEF RunModule, QueueTyped
  <2>2. TimersTyped'
    BY <1>0, <1>7 DEF RunModule, Typed, TimersTyped
  <2>3. ClockTyped'
    BY <1>7 DEF RunModule, TestReturns, ArmDoneTimer, Typed, ClockTyped
  <2> QED BY <2>1, <2>2, <2>3, <1>1, <1>7 DEF RunModule, Typed
<1>8. CASE RunDone
  <2>1. QueueTyped'
    <3>1. queue' \in Seq(Items)
      BY <1>2, <1>8 DEF RunDone, Calls, GoesOn
    <3>2. autorun' \in BOOLEAN
      BY <1>2, <1>8 DEF RunDone, Finish
    <3> QED BY <3>1, <3>2, <1>0, <1>2, <1>8 DEF RunDone, GoesOn, QueueTyped
  <2>2. ClockTyped'
    BY <1>8 DEF RunDone, Finish, ArmDoneTimer, Typed, ClockTyped
  <2>3. ResultTyped'
    BY <1>1, <1>8, <1>17 DEF RunDone, Finish, Typed, ResultTyped
  <2> QED BY <2>1, <2>2, <2>3, <1>1, <1>8 DEF RunDone, Typed
<1>9. ASSUME NEW t \in Tests, RunFirst(t) PROVE Typed'
  <2>1. page[t] \in Kinds /\ t \in 1..Len(page)
    BY <1>0, <1>2, PageFacts
  <2>2. QueueTyped'
    BY <1>0, <1>2, <1>9 DEF RunFirst, Calls, GoesOn, QueueTyped
  <2>3. ClockTyped'
    <3>1. starts' \in Nat
      BY <1>9 DEF RunFirst, Typed, ClockTyped, Restarts
    <3>2. TestReturns(starts')
      BY <1>9 DEF RunFirst
    <3> QED BY <3>1, <3>2 DEF TestReturns, ArmDoneTimer, Typed, ClockTyped
  <2>4. TimersTyped'
    BY <1>0, <1>9 DEF RunFirst, Typed, TimersTyped, PageTyped
  <2>5. TestsTyped'
    <3>1. assertions' \subseteq Assertions
      BY <1>0, <1>9, <2>1, BodyFacts DEF RunFirst, AssertionsAfterBody, Assertions
    <3>2. script' \in [1..Len(page) -> Scripts]
      BY <1>0, <1>9, <2>1, StartFacts DEF RunFirst, Typed, TestsTyped
    <3>3. \A u \in Tests : Active(u)' => page[u] \notin SyncKinds
      BY <1>0, <1>9, <2>1, StartFacts, IdleFacts
         DEF RunFirst, Typed, TestsTyped, Active, Idle
    <3>4. expected' \in {0, 1} /\ elements' \subseteq Tests /\ te' \subseteq Tests
      BY <1>9 DEF RunFirst, Typed, TestsTyped
    <3> QED BY <3>1, <3>2, <3>3, <3>4, <1>0 DEF TestsTyped
  <2> QED BY <2>2, <2>3, <2>4, <2>5, <1>1, <1>9 DEF RunFirst, Typed
<1>10. ASSUME NEW t \in Tests, RunSecond(t) PROVE Typed'
  <2>1. QueueTyped'
    BY <1>0, <1>2, <1>10 DEF RunSecond, Calls, GoesOn, QueueTyped
  <2>2. TimersTyped'
    BY <1>0, <1>10 DEF RunSecond, Typed, TimersTyped
  <2>3. TestsTyped'
    BY <1>0, <1>10, CountingFacts DEF RunSecond, TornDown, Typed, TestsTyped, Active
  <2>4. ResultTyped'
    <3>1. stats' \in [all : Nat, bad : Nat]
      BY <1>10, CountingFacts DEF RunSecond, Typed, ResultTyped
    <3> QED BY <3>1, <1>10 DEF RunSecond, Typed, ResultTyped
  <2>5. ClockTyped'
    BY <1>10 DEF RunSecond, TestReturns, ArmDoneTimer, Typed, ClockTyped
  <2> QED BY <2>1, <2>2, <2>3, <2>4, <2>5, <1>1, <1>10 DEF RunSecond, Typed
<1>11. CASE DoneTimer
  <2>1. CASE queue = <<>>
    <3>1. QueueTyped'
      BY <1>0, <1>2, <1>11, <2>1 DEF DoneTimer, Finish, Reports, QueueTyped
    <3>2. ClockTyped'
      BY <1>11, <2>1 DEF DoneTimer, Finish, Reports, Typed, ClockTyped
    <3>3. ResultTyped'
      BY <1>11, <2>1, <1>17 DEF DoneTimer, Finish, Reports, Typed, ResultTyped
    <3> QED BY <3>1, <3>2, <3>3, <1>1, <1>11 DEF DoneTimer, Typed
  <2>2. CASE queue # <<>>
    <3>1. Done \in Items
      BY DEF Items
    <3>2. queue' \in Seq(Items) /\ queue' # <<>>
      <4>1. queue' = queue \o <<Done>>
        BY <1>11, <2>2 DEF DoneTimer, Synchronize
      <4> QED BY <4>1, <3>1, <1>2
    <3>3. QueueTyped'
      BY <3>2, <1>0, <1>2, <1>11, <2>2
         DEF DoneTimer, Synchronize, GoesOn, QueueTyped
    <3>4. ClockTyped'
      BY <1>11, <2>2 DEF DoneTimer, Typed, ClockTyped
    <3> QED BY <3>3, <3>4, <1>1, <1>11, <2>2 DEF DoneTimer, Typed
  <2> QED BY <2>1, <2>2
<1>12. CASE StartTimer
  <2>1. QueueTyped'
    BY <1>0, <1>2, <1>12 DEF StartTimer, GoesOn, QueueTyped
  <2>2. ClockTyped'
    <3>1. /\ starts \in Nat /\ ahead \in Nat /\ ~ busy /\ doneTimer' = doneTimer
          /\ doneTimer \in {"none", "armed", "fired"}
      BY <1>12 DEF StartTimer, Typed, ClockTyped
    <3>2. starts' \in Nat /\ ahead' \in Nat
      BY <1>12, <3>1 DEF StartTimer
    <3> QED BY <3>1, <3>2 DEF ClockTyped
  <2>3. TimersTyped'
    BY <1>0, <1>12 DEF StartTimer, TimersAfterStart, Typed, TimersTyped
  <2> QED BY <2>1, <2>2, <2>3, <1>1, <1>12 DEF StartTimer, Typed
<1>13. CASE TestTimeout
  <2>1. QueueTyped'
    BY <1>0, <1>2, <1>13 DEF TestTimeout, GoesOn, QueueTyped
  <2>2. TimersTyped'
    BY <1>0, <1>13 DEF TestTimeout, Typed, TimersTyped
  <2>3. ResultTyped'
    BY <1>13 DEF TestTimeout, Typed, ResultTyped
  <2>4. ClockTyped'
    BY <1>13 DEF TestTimeout, Typed, ClockTyped
  <2> QED BY <2>1, <2>2, <2>3, <2>4, <1>1, <1>13 DEF TestTimeout, Typed
<1>14. ASSUME NEW t \in Tests, StopTimer(t) PROVE Typed'
  <2>1. ClockTyped' /\ TimersTyped'
    BY <1>0, <1>14 DEF StopTimer, Typed, ClockTyped, TimersTyped
  <2>2. TestsTyped'
    BY <1>0, <1>14 DEF StopTimer, Typed, TestsTyped, Assertions, Active
  <2> QED BY <2>1, <2>2, <1>1, <1>14 DEF StopTimer, Typed
<1>15. ASSUME NEW t \in Tests, ScriptStep(t) PROVE Typed'
  <2>1. t \in 1..Len(page) /\ script[t] \in Scripts
    BY <1>0, <1>2, PageFacts DEF Typed, TestsTyped
  <2>2. PICK o \in Steps(script[t]) :
          /\ script' = [script EXCEPT ![t] = o.script]
          /\ LET new == IF o.made = "none" THEN {} ELSE {<<t, o.made>>}
                 owner == {a[1] : a \in new}
             IN /\ assertions' = assertions \union new
                /\ elements' = elements \union owner
                /\ te' = te \union owner
          /\ starts' = starts + o.released
    BY <1>0, <1>15 DEF ScriptStep
  <2>3. /\ o.script \in Scripts /\ o.made \in {"none", "ok", "bad"}
        /\ o.released \in {0, 1}
    BY <2>1, StepFacts
  <2>4. /\ assertions' \subseteq Assertions /\ elements' \subseteq Tests
        /\ te' \subseteq Tests
    BY <1>0, <2>2, <2>3 DEF Typed, TestsTyped, Assertions
  <2>5. TestsTyped'
    <3>1. /\ script' \in [1..Len(page) -> Scripts]
          /\ \A u \in Tests : Active(u)' => Active(u)
      BY <2>1, <2>2, <2>3 DEF Typed, TestsTyped, Active
    <3> QED BY <1>0, <2>4, <3>1, <1>15 DEF ScriptStep, Typed, TestsTyped
  <2>6. ClockTyped'
    BY <1>0, <2>2, <2>3, <1>15 DEF ScriptStep, Typed, ClockTyped
  <2> QED BY <2>5, <2>6, <1>1, <1>15 DEF ScriptStep, Typed
<1>16. CASE UNCHANGED vars
  BY <1>1, <1>16 DEF vars, Typed
<1> QED BY <1>3, <1>4, <1>5, <1>6, <1>7, <1>8, <1>9, <1>10, <1>11, <1>12, <1>13,
           <1>14, <1>15, <1>16 DEF Next, Process

\* The variables have their types, and the loop of process() runs only as long as
\* it goes on.
THEOREM TypeCorrect == Safety => []TypeOK
<1>1. Typed => TypeOK
  BY TypesGive
<1> QED BY <1>1, InitTypes, NextTypes, PTL DEF Safety

-----------------------------------------------------------------------------
(***************************************************************************)
(* The queue: the first function of a test comes once, right before the    *)
(* second one, and only before the test has begun.                         *)
(***************************************************************************)
Paired ==
  \A i \in 1..Len(queue), t \in Tests :
    /\ queue[i] = First(t) => /\ t \notin begun
                              /\ i < Len(queue) /\ queue[i + 1] = Second(t)
    /\ queue[i] = Second(t) => IF i = 1 THEN t \in begun
                                        ELSE queue[i - 1] = First(t)

Single == \A t \in Tests : \A i, k \in 1..Len(queue) :
            queue[i] = First(t) /\ queue[k] = First(t) => i = k

DefinedOnly ==
  /\ \A i \in 1..Len(queue), t \in Tests : queue[i] = First(t) => t <= defined
  /\ begun \subseteq Tests /\ \A t \in begun : t <= defined

AllKept == \A t \in Tests : t <= defined => t \in begun \/ InQueue(First(t))

QueueInv == Paired /\ Single /\ DefinedOnly /\ AllKept

LEMMA InitQueue == ASSUME Init PROVE QueueInv
<1>1. queue = <<>> /\ 1..Len(queue) = {} /\ begun = {} /\ defined = 0
  BY DEF Init
<1>2. \A t \in Tests : ~ t <= 0
  BY InitTypes, PageFacts DEF Typed, PageTyped
<1> QED BY <1>1, <1>2 DEF QueueInv, Paired, Single, DefinedOnly, AllKept

\* What the types say of the queue and the page.
LEMMA QueueFacts ==
  ASSUME Typed
  PROVE  /\ queue \in Seq(Items) /\ Len(queue) \in Nat
         /\ defined \in Nat /\ defined <= Len(page) /\ Len(page) \in Nat
         /\ \A t \in Tests : t \in Nat /\ 1 <= t
         /\ busy => queue # <<>> /\ ~ blocking
         /\ \A i \in 1..Len(page) : i \in Tests \/ page[i] = "module"
BY PageFacts DEF Typed, PageTyped, LoadTyped, QueueTyped, GoesOn

LEMMA DefineQueue ==
  ASSUME Typed, QueueInv, Tests' = Tests, defined < Len(page),
         queue' = queue \o ItemsOf(defined + 1),
         defined' = defined + 1, UNCHANGED begun
  PROVE  QueueInv'
<1> DEFINE d == defined + 1
<1> USE QueueFacts, ItemFacts
<1>1. CASE page[d] = "module"
  <2>1. queue' = queue \o <<Module>> /\ d \notin Tests
    BY <1>1 DEF ItemsOf, Tests
  <2>2. /\ Len(queue') = Len(queue) + 1 /\ queue'[Len(queue) + 1] = Module
        /\ \A i \in 1..Len(queue) : queue'[i] = queue[i]
    BY <2>1
  <2>3. Paired'
    BY <2>2 DEF QueueInv, Paired
  <2>4. Single'
    BY <2>2 DEF QueueInv, Single
  <2>5. DefinedOnly'
    BY <2>2 DEF QueueInv, DefinedOnly
  <2>6. AllKept'
    BY <2>1, <2>2 DEF QueueInv, AllKept, InQueue
  <2> QED BY <2>3, <2>4, <2>5, <2>6 DEF QueueInv
<1>2. CASE d \in Tests
  <2>1. queue' = queue \o <<First(d), Second(d)>> /\ d \notin begun
    BY <1>2 DEF ItemsOf, Tests, QueueInv, DefinedOnly
  <2>2. /\ Len(queue') = Len(queue) + 2
        /\ queue'[Len(queue) + 1] = First(d) /\ queue'[Len(queue) + 2] = Second(d)
        /\ \A i \in 1..Len(queue) : queue'[i] = queue[i]
    BY <2>1
  <2>3. \A i \in 1..Len(queue) : queue[i] # First(d)
    BY <1>2 DEF QueueInv, DefinedOnly
  <2>4. Paired'
    <3> SUFFICES ASSUME NEW i \in 1..Len(queue'), NEW t \in Tests
                 PROVE  /\ queue'[i] = First(t) =>
                             /\ t \notin begun
                             /\ i < Len(queue') /\ queue'[i + 1] = Second(t)
                        /\ queue'[i] = Second(t) =>
                             IF i = 1 THEN t \in begun ELSE queue'[i - 1] = First(t)
      BY DEF Paired
    <3>1. CASE i \in 1..Len(queue)
      <4>1. queue'[i] = First(t) =>
              /\ t \notin begun /\ i + 1 \in 1..Len(queue) /\ queue[i + 1] = Second(t)
        BY <3>1, <2>2 DEF QueueInv, Paired
      <4>2. queue'[i] = Second(t) =>
              IF i = 1 THEN t \in begun
              ELSE i - 1 \in 1..Len(queue) /\ queue[i - 1] = First(t)
        BY <3>1, <2>2 DEF QueueInv, Paired
      <4> QED BY <4>1, <4>2, <3>1, <2>2
    <3>2. CASE i = Len(queue) + 1
      BY <3>2, <2>1, <2>2
    <3>3. CASE i = Len(queue) + 2
      <4>1. i # 1 /\ queue'[i - 1] = First(d)
        BY <3>3, <2>2
      <4> QED BY <4>1, <3>3, <2>2
    <3> QED BY <3>1, <3>2, <3>3, <2>2
  <2>5. Single'
    <3>1. \A i \in 1..Len(queue') :
            \/ i \in 1..Len(queue) /\ queue'[i] = queue[i]
            \/ i = Len(queue) + 1 /\ queue'[i] = First(d)
            \/ queue'[i] = Second(d)
      BY <2>2
    <3> SUFFICES ASSUME NEW t \in Tests, NEW i \in 1..Len(queue'),
                        NEW k \in 1..Len(queue'),
                        queue'[i] = First(t), queue'[k] = First(t)
                 PROVE  i = k
      BY DEF Single
    <3>2. CASE i \in 1..Len(queue) /\ k \in 1..Len(queue)
      BY <3>1, <3>2, <2>2 DEF QueueInv, Single
    <3>3. CASE i \notin 1..Len(queue) \/ k \notin 1..Len(queue)
      <4>1. t = d
        BY <3>1, <3>3
      <4> QED BY <4>1, <3>1, <2>2, <2>3
    <3> QED BY <3>2, <3>3
  <2>6. DefinedOnly'
    BY <2>2 DEF QueueInv, DefinedOnly
  <2>7. AllKept'
    <3> SUFFICES ASSUME NEW t \in Tests, t <= defined + 1, t \notin begun
                 PROVE  \E i \in 1..Len(queue') : queue'[i] = First(t)
      BY DEF AllKept, InQueue
    <3>1. CASE t = d
      BY <3>1, <2>2
    <3>2. CASE t <= defined
      <4>1. PICK i \in 1..Len(queue) : queue[i] = First(t)
        BY <3>2 DEF QueueInv, AllKept, InQueue
      <4> QED BY <4>1, <2>2
    <3> QED BY <3>1, <3>2
  <2> QED BY <2>4, <2>5, <2>6, <2>7 DEF QueueInv
<1> QED BY <1>1, <1>2

\* The head is called; if it is a first function, its test has begun.
LEMMA CallQueue ==
  ASSUME Typed, QueueInv, Tests' = Tests, UNCHANGED defined,
         queue # <<>>, queue' = Tail(queue),
         \/ UNCHANGED begun /\ \A t \in Tests : Head(queue) # First(t)
         \/ \E t \in Tests : Head(queue) = First(t) /\ begun' = begun \union {t}
  PROVE  QueueInv'
<1> USE QueueFacts, ItemFacts
<1>1. /\ Len(queue) >= 1 /\ Len(queue') = Len(queue) - 1
      /\ Head(queue) = queue[1]
      /\ \A i \in 1..Len(queue') : queue'[i] = queue[i + 1]
  OBVIOUS
<1>2. \A t \in Tests :
        t \in begun' <=> t \in begun \/ queue[1] = First(t)
  BY <1>1
<1>3. begun' \subseteq Tests
  BY DEF QueueInv, DefinedOnly
<1>4. Paired'
  <2> SUFFICES ASSUME NEW i \in 1..Len(queue'), NEW t \in Tests
               PROVE  /\ queue'[i] = First(t) =>
                           /\ t \notin begun'
                           /\ i < Len(queue') /\ queue'[i + 1] = Second(t)
                      /\ queue'[i] = Second(t) =>
                           IF i = 1 THEN t \in begun' ELSE queue'[i - 1] = First(t)
    BY DEF Paired
  <2>1. i \in Nat /\ 1 <= i /\ i + 1 \in 1..Len(queue) /\ queue'[i] = queue[i + 1]
        /\ 1 \in 1..Len(queue)
    BY <1>1
  <2>2. queue[i + 1] = First(t) =>
          /\ t \notin begun' /\ i + 1 < Len(queue) /\ queue[i + 2] = Second(t)
    <3>1. queue[i + 1] = First(t) => /\ t \notin begun /\ i + 1 < Len(queue)
                                     /\ queue[(i + 1) + 1] = Second(t)
      BY <2>1 DEF QueueInv, Paired
    <3>2. queue[i + 1] = First(t) => queue[1] # First(t)
      BY <2>1 DEF QueueInv, Single
    <3> QED BY <3>1, <3>2, <2>1, <1>2
  <2>3. queue[i + 1] = Second(t) => queue[i] = First(t)
    <3>1. queue[i + 1] = Second(t) => queue[(i + 1) - 1] = First(t)
      BY <2>1 DEF QueueInv, Paired
    <3> QED BY <3>1, <2>1
  <2> QED BY <2>1, <2>2, <2>3, <1>1, <1>2
<1>5. Single'
  <2> SUFFICES ASSUME NEW t \in Tests, NEW i \in 1..Len(queue'),
                      NEW k \in 1..Len(queue'),
                      queue'[i] = First(t), queue'[k] = First(t)
               PROVE  i = k
    BY DEF Single
  <2>1. /\ i + 1 \in 1..Len(queue) /\ queue[i + 1] = First(t)
        /\ k + 1 \in 1..Len(queue) /\ queue[k + 1] = First(t)
    BY <1>1
  <2>2. i + 1 = k + 1
    BY <2>1 DEF QueueInv, Single
  <2> QED BY <2>2
<1>6. DefinedOnly'
  <2>1. \A i \in 1..Len(queue'), t \in Tests : queue'[i] = First(t) => t <= defined
    BY <1>1 DEF QueueInv, DefinedOnly
  <2>2. \A t \in begun' : t <= defined
    BY <1>1, <1>2, <1>3 DEF QueueInv, DefinedOnly
  <2> QED BY <2>1, <2>2, <1>3 DEF DefinedOnly
<1>7. AllKept'
  <2> SUFFICES ASSUME NEW t \in Tests, t <= defined, t \notin begun'
               PROVE  \E i \in 1..Len(queue') : queue'[i] = First(t)
    BY DEF AllKept, InQueue
  <2>1. PICK i \in 1..Len(queue) : queue[i] = First(t)
    BY <1>2 DEF QueueInv, AllKept, InQueue
  <2>2. i # 1 /\ i - 1 \in 1..Len(queue')
    BY <2>1, <1>1, <1>2
  <2>3. queue'[i - 1] = First(t)
    BY <2>1, <2>2, <1>1
  <2> QED BY <2>2, <2>3
<1> QED BY <1>4, <1>5, <1>6, <1>7 DEF QueueInv

LEMMA NextQueue == ASSUME Typed, QueueInv, [Next]_vars PROVE QueueInv'
<1> USE PageStays, QueueFacts, ItemFacts
<1>0. Tests' = Tests
  OBVIOUS
<1>1. CASE Define
  BY <1>0, <1>1, DefineQueue DEF Define, Synchronize
<1>2. CASE RunModule \/ RunDone \/ \E t \in Tests : RunSecond(t)
  <2>1. /\ UNCHANGED <<defined, begun>> /\ queue # <<>> /\ queue' = Tail(queue)
        /\ \A t \in Tests : Head(queue) # First(t)
    BY <1>2 DEF RunModule, RunDone, RunSecond, Calls, historyVars
  <2> QED BY <2>1, <1>0, CallQueue
<1>3. CASE \E t \in Tests : RunFirst(t)
  <2>1. /\ UNCHANGED defined /\ queue # <<>> /\ queue' = Tail(queue)
        /\ \E t \in Tests : Head(queue) = First(t) /\ begun' = begun \union {t}
    BY <1>3 DEF RunFirst, Calls
  <2> QED BY <2>1, <1>0, CallQueue
<1>4. CASE DoneTimer /\ queue # <<>>
  <2>1. queue' = queue \o <<Done>> /\ UNCHANGED <<defined, begun>>
    BY <1>4 DEF DoneTimer, Synchronize, historyVars
  <2>2. /\ Len(queue') = Len(queue) + 1 /\ queue'[Len(queue) + 1] = Done
        /\ \A i \in 1..Len(queue) : queue'[i] = queue[i]
    BY <2>1
  <2>3. Paired'
    BY <1>0, <2>1, <2>2 DEF QueueInv, Paired
  <2>4. Single'
    BY <1>0, <2>2 DEF QueueInv, Single
  <2>5. DefinedOnly'
    BY <1>0, <2>1, <2>2 DEF QueueInv, DefinedOnly
  <2>6. AllKept'
    BY <1>0, <2>1, <2>2 DEF QueueInv, AllKept, InQueue
  <2> QED BY <2>3, <2>4, <2>5, <2>6 DEF QueueInv
<1>5. CASE \/ Load \/ LibraryLoads \/ StartTimer \/ LibraryPoll \/ TestTimeout
           \/ (DoneTimer /\ queue = <<>>) \/ UNCHANGED vars
           \/ \E t \in Tests : StopTimer(t) \/ ScriptStep(t)
  <2>1. UNCHANGED <<queue, defined, begun>>
    BY <1>5 DEF Load, LibraryLoads, StartTimer, LibraryPoll, TestTimeout, DoneTimer,
       StopTimer, ScriptStep, vars, queueVars, historyVars
  <2> QED BY <2>1, <1>0 DEF QueueInv, Paired, Single, DefinedOnly, AllKept, InQueue
<1> QED BY <1>1, <1>2, <1>3, <1>4, <1>5 DEF Next, Process

-----------------------------------------------------------------------------
(* A test is unfinished as long as its second function is the next one. *)

Heads == \A t \in Tests :
           Unfinished(t) <=> queue # <<>> /\ queue[1] = Second(t)

LEMMA HeadsNow == ASSUME Typed, QueueInv PROVE Heads
<1> USE QueueFacts DEF QueueInv, Paired, Unfinished, InQueue
<1> SUFFICES ASSUME NEW t \in Tests
             PROVE  Unfinished(t) <=> queue # <<>> /\ queue[1] = Second(t)
  BY DEF Heads
<1>1. ASSUME Unfinished(t) PROVE queue # <<>> /\ queue[1] = Second(t)
  <2>1. PICK i \in 1..Len(queue) : queue[i] = Second(t)
    BY <1>1
  <2>2. i = 1
    <3>1. SUFFICES ASSUME i # 1 PROVE FALSE
      OBVIOUS
    <3>2. i - 1 \in 1..Len(queue) /\ queue[i - 1] = First(t)
      BY <2>1, <3>1
    <3>3. t \notin begun
      BY <3>2
    <3> QED BY <3>3, <1>1
  <2> QED BY <2>1, <2>2
<1>2. ASSUME queue # <<>>, queue[1] = Second(t) PROVE Unfinished(t)
  <2>1. 1 \in 1..Len(queue)
    BY <1>2
  <2> QED BY <2>1, <1>2
<1> QED BY <1>1, <1>2

LEMMA HeadsNext == ASSUME Typed', QueueInv' PROVE Heads'
BY HeadsNow, PTL

\* A test is unfinished from its first function to its second one; while one is
\* called, no other test is.
LEMMA Turns ==
  ASSUME Typed, QueueInv, [Next]_vars
  PROVE  /\ \A t \in Tests : RunFirst(t) =>
              /\ t \notin begun
              /\ \A u \in Tests : ~ Unfinished(u) /\ (Unfinished(u)' <=> u = t)
         /\ \A t \in Tests : RunSecond(t) =>
              \A u \in Tests : (Unfinished(u) <=> u = t) /\ ~ Unfinished(u)'
         /\ RunModule \/ RunDone =>
              \A u \in Tests : ~ Unfinished(u) /\ ~ Unfinished(u)'
         /\ ~ Process => \A u \in Tests : Unfinished(u)' <=> Unfinished(u)
<1> USE ItemFacts, QueueFacts
<1>1. Typed' /\ QueueInv' /\ Tests' = Tests
  BY NextTypes, NextQueue, PageStays
<1>2. \A u \in Tests : Unfinished(u) <=> queue # <<>> /\ queue[1] = Second(u)
  BY HeadsNow DEF Heads
<1>3. \A u \in Tests : Unfinished(u)' <=> queue' # <<>> /\ queue'[1] = Second(u)
  BY <1>1, HeadsNext DEF Heads
<1>4. ASSUME NEW item, Calls(item)
      PROVE  /\ queue # <<>> /\ queue[1] = item /\ 1 \in 1..Len(queue)
             /\ queue' # <<>> => 2 \in 1..Len(queue) /\ queue'[1] = queue[2]
  BY <1>4 DEF Calls
<1>5. ASSUME 2 \in 1..Len(queue), NEW u \in Tests, queue[2] = Second(u)
      PROVE  queue[1] = First(u)
  BY <1>5 DEF QueueInv, Paired
<1>6. ASSUME NEW t \in Tests, RunFirst(t)
      PROVE  /\ t \notin begun
             /\ \A u \in Tests : ~ Unfinished(u) /\ (Unfinished(u)' <=> u = t)
  <2>1. queue[1] = First(t) /\ queue # <<>> /\ queue' = Tail(queue) /\ 1 \in 1..Len(queue)
    BY <1>4, <1>6 DEF RunFirst, Calls
  <2>2. t \notin begun /\ 2 \in 1..Len(queue) /\ queue[2] = Second(t)
    BY <2>1 DEF QueueInv, Paired
  <2>3. queue' # <<>>
    <3>1. Len(queue') = Len(queue) - 1 /\ Len(queue) >= 2
      BY <2>1, <2>2
    <3> QED BY <3>1
  <2>4. queue'[1] = Second(t)
    BY <2>2, <2>3, <1>4, <1>6 DEF RunFirst
  <2> QED BY <2>1, <2>2, <2>3, <2>4, <1>2, <1>3
<1>7. ASSUME NEW t \in Tests, RunSecond(t)
      PROVE  \A u \in Tests : (Unfinished(u) <=> u = t) /\ ~ Unfinished(u)'
  BY <1>7, <1>2, <1>3, <1>4, <1>5 DEF RunSecond
<1>8. ASSUME RunModule \/ RunDone
      PROVE  \A u \in Tests : ~ Unfinished(u) /\ ~ Unfinished(u)'
  BY <1>8, <1>2, <1>3, <1>4, <1>5 DEF RunModule, RunDone
<1>9. ASSUME ~ Process
      PROVE  \A u \in Tests : Unfinished(u)' <=> Unfinished(u)
  <2>1. CASE UNCHANGED queue
    BY <2>1, <1>2, <1>3
  <2>3. CASE queue = <<>> /\ Define
    <3>1. queue' = ItemsOf(defined + 1)
      BY <2>3 DEF Define, Synchronize, ItemsOf
    <3>2. queue'[1] \in {Module, First(defined + 1)}
      BY <3>1 DEF ItemsOf
    <3> QED BY <3>2, <2>3, <1>2, <1>3
  <2>4. CASE Define /\ queue # <<>>
    <3>1. \/ queue' = queue \o <<Module>>
          \/ queue' = queue \o <<First(defined + 1), Second(defined + 1)>>
      BY <2>4 DEF Define, Synchronize, ItemsOf
    <3>2. Len(queue) >= 1
      BY <2>4
    <3>3. queue' # <<>> /\ queue'[1] = queue[1]
      BY <3>1, <3>2
    <3> QED BY <3>3, <2>4, <1>2, <1>3
  <2>5. CASE DoneTimer /\ queue # <<>>
    <3>1. queue' = queue \o <<Done>>
      BY <2>5 DEF DoneTimer, Synchronize
    <3>2. queue' # <<>> /\ queue'[1] = queue[1]
      BY <3>1, <2>5
    <3> QED BY <3>2, <2>5, <1>2, <1>3
  <2>6. CASE \/ Load \/ LibraryLoads \/ StartTimer \/ LibraryPoll \/ TestTimeout
             \/ (DoneTimer /\ queue = <<>>) \/ UNCHANGED vars
             \/ \E t \in Tests : StopTimer(t) \/ ScriptStep(t)
    <3>1. UNCHANGED queue
      BY <2>6 DEF Load, LibraryLoads, StartTimer, LibraryPoll, TestTimeout, DoneTimer,
         StopTimer, ScriptStep, vars, queueVars
    <3> QED BY <3>1, <2>1
  <2> QED BY <2>3, <2>4, <2>5, <2>6, <1>9 DEF Next
<1> QED BY <1>6, <1>7, <1>8, <1>9

-----------------------------------------------------------------------------
(* Before the load event, and the time-outs. *)

\* The queue has not been worked on, and done() cannot report.
Fresh == /\ ~ autorun /\ ~ busy /\ begun = {} /\ waiting = 0
         /\ doneTimer # "none" => queue # <<>>

LoadInv == /\ ~ loaded => blocking /\ Fresh /\ starts = 0
           /\ testTimer => \E t \in Tests : Unfinished(t)
           /\ stopTimers \subseteq begun
           /\ \A t \in Tests : t \notin begun => script[t] = Idle

TimerInv ==
  overdue = {} => \A t \in stopTimers : t = handle /\ Unfinished(t) /\ blocking

LEMMA InitLoad == ASSUME Init PROVE LoadInv /\ TimerInv
<1>1. \A t \in Tests : script[t] = Idle
  BY InitTypes, PageFacts DEF Init, Typed, PageTyped
<1> QED BY <1>1 DEF Init, LoadInv, TimerInv, Fresh

LEMMA NextLoad ==
  ASSUME Typed, QueueInv, LoadInv, [Next]_vars
  PROVE  LoadInv'
<1> USE DEF pageVars, doneClock, queueVars, timerVars, testVars, resultVars, historyVars
<1>0. Tests' = Tests /\ stopTimers \subseteq Tests /\ script \in [1..Len(page) -> Scripts]
      /\ Tests \subseteq 1..Len(page) /\ queue \in Seq(Items)
  BY PageStays, PageFacts DEF Typed, PageTyped, TimersTyped, TestsTyped, QueueTyped
<1>1. ~ loaded => blocking /\ Fresh /\ starts = 0 /\ stopTimers = {} /\ ~ testTimer
  BY DEF LoadInv, Unfinished, Fresh
<1>2. CASE Define
  <2>1. \A u \in Tests : Unfinished(u)' <=> Unfinished(u)
    BY <1>2, Turns, QueueFacts DEF Define, Process, RunModule, RunDone, RunFirst,
       RunSecond, Calls
  <2>2. queue' # <<>>
    BY <1>0, <1>2 DEF Define, Synchronize, ItemsOf
  <2> QED BY <2>1, <2>2, <1>0, <1>2 DEF Define, Synchronize, LoadInv, Fresh
<1>3. CASE Process
  <2>1. loaded /\ loaded' = loaded
    BY <1>3, <1>1 DEF Process, RunModule, RunDone, RunFirst, RunSecond, Calls, Fresh
  <2>2. CASE RunModule \/ RunDone
    <3>1. ~ testTimer
      BY <2>2, Turns DEF LoadInv
    <3>2. UNCHANGED <<testTimer, stopTimers, begun, script>>
      BY <2>2 DEF RunModule, RunDone
    <3> QED BY <2>1, <3>1, <3>2, <1>0 DEF LoadInv
  <2>3. ASSUME NEW t \in Tests, RunFirst(t) PROVE LoadInv'
    <3>1. Unfinished(t)'
      BY <2>3, Turns
    <3>2. \A u \in Tests : u \notin begun' => script'[u] = Idle
      BY <1>0, <2>3 DEF RunFirst, LoadInv
    <3>3. stopTimers' \subseteq begun'
      BY <2>3 DEF RunFirst, LoadInv
    <3> QED BY <1>0, <2>1, <3>1, <3>2, <3>3 DEF LoadInv
  <2>4. ASSUME NEW t \in Tests, RunSecond(t) PROVE LoadInv'
    BY <2>1, <2>4, <1>0 DEF RunSecond, LoadInv
  <2> QED BY <2>2, <2>3, <2>4, <1>3 DEF Process
<1>4. CASE ~ Process /\ [Next]_vars
  <2>1. \A u \in Tests : Unfinished(u)' <=> Unfinished(u)
    BY <1>4, Turns
  <2>2. CASE Load
    <3>1. loaded' /\ UNCHANGED <<testTimer, stopTimers, begun, script>>
      BY <2>2 DEF Load
    <3> QED BY <2>1, <3>1, <1>0 DEF LoadInv
  <2>7. CASE LibraryLoads \/ UNCHANGED vars
    <3>1. UNCHANGED <<loaded, queue, busy, blocking, autorun, starts, waiting,
                      doneTimer, testTimer, stopTimers, begun, script>>
      BY <2>7 DEF LibraryLoads, vars
    <3> QED BY <2>1, <3>1, <1>0 DEF LoadInv, Fresh
  <2>3. CASE DoneTimer
    <3>1. ASSUME ~ loaded PROVE queue # <<>> /\ queue' # <<>>
      BY <3>1, <1>0, <1>1, <2>3 DEF DoneTimer, Synchronize, Fresh
    <3> QED BY <2>1, <2>3, <3>1, <1>0 DEF DoneTimer, Synchronize, LoadInv, Fresh
  <2>4. CASE StartTimer \/ LibraryPoll \/ TestTimeout
    <3>1. loaded
      <4>1. starts > 0 \/ waiting > 0 \/ testTimer
        BY <2>4 DEF StartTimer, LibraryPoll, TestTimeout
      <4> QED BY <4>1, <1>1 DEF Fresh
    <3>2. UNCHANGED <<loaded, begun, script>> /\ stopTimers' \subseteq stopTimers
      BY <2>4 DEF StartTimer, LibraryPoll, TestTimeout, TimersAfterStart
    <3>3. testTimer' = testTimer \/ ~ testTimer'
      BY <2>4 DEF StartTimer, LibraryPoll, TestTimeout
    <3> QED BY <2>1, <3>1, <3>2, <3>3, <1>0 DEF LoadInv
  <2>5. ASSUME NEW t \in Tests, StopTimer(t) PROVE LoadInv'
    <3>1. loaded
      BY <2>5, <1>1 DEF StopTimer
    <3> QED BY <2>1, <2>5, <3>1, <1>0 DEF StopTimer, LoadInv
  <2>6. ASSUME NEW t \in Tests, ScriptStep(t) PROVE LoadInv'
    <3>1. t \in begun
      BY <2>6, IdleFacts DEF ScriptStep, LoadInv
    <3>2. loaded
      BY <3>1, <1>1 DEF Fresh
    <3>3. \A u \in Tests : u # t => script'[u] = script[u]
      BY <2>6, <1>0 DEF ScriptStep
    <3> QED BY <2>1, <2>6, <3>1, <3>2, <3>3, <1>0 DEF ScriptStep, LoadInv
  <2> QED BY <2>2, <2>3, <2>4, <2>5, <2>6, <2>7, <1>2, <1>4 DEF Next
<1> QED BY <1>3, <1>4

LEMMA NextTimers ==
  ASSUME Typed, QueueInv, LoadInv, TimerInv, [Next]_vars
  PROVE  TimerInv'
<1> USE DEF pageVars, doneClock, queueVars, timerVars, testVars, resultVars, historyVars
<1>0. Tests' = Tests /\ stopTimers \subseteq Tests /\ overdue \subseteq overdue'
  BY PageStays DEF Typed, TimersTyped, Next, Define, Load, LibraryLoads, Process,
     RunModule, RunDone, RunFirst, RunSecond, DoneTimer, StartTimer, LibraryPoll,
     TestTimeout, StopTimer, ScriptStep, vars
<1> SUFFICES ASSUME overdue' = {}
             PROVE  \A t \in stopTimers' : t = handle' /\ Unfinished(t)' /\ blocking'
  BY DEF TimerInv
<1>1. overdue = {}
  BY <1>0
<1>2. \A t \in stopTimers : t = handle /\ Unfinished(t) /\ blocking
  BY <1>1 DEF TimerInv
<1>3. CASE Process
  <2>1. stopTimers = {}
    BY <1>2, <1>3, QueueFacts DEF Process, RunModule, RunDone, RunFirst, RunSecond, Calls
  <2>2. CASE \E t \in Tests : RunFirst(t)
    <3>1. PICK t \in Tests : RunFirst(t)
      BY <2>2
    <3>2. Unfinished(t)'
      BY <3>1, Turns
    <3>3. \/ stopTimers' = {}
          \/ stopTimers' = {t} /\ handle' = t /\ blocking'
      BY <2>1, <3>1 DEF RunFirst, SyncKinds
    <3> QED BY <3>2, <3>3
  <2>3. CASE RunModule \/ RunDone \/ \E t \in Tests : RunSecond(t)
    BY <2>1, <2>3 DEF RunModule, RunDone, RunSecond
  <2> QED BY <2>2, <2>3, <1>3 DEF Process
<1>4. CASE ~ Process
  <2>1. \A u \in Tests : Unfinished(u)' <=> Unfinished(u)
    BY <1>4, Turns
  <2>2. CASE Load \/ StartTimer
    <3>1. stopTimers' = {}
      BY <2>2, <1>2 DEF Load, LoadInv, Fresh, StartTimer, TimersAfterStart
    <3> QED BY <3>1
  <2>3. CASE Define \/ LibraryLoads \/ LibraryPoll \/ DoneTimer \/ UNCHANGED vars
             \/ \E t \in Tests : StopTimer(t) \/ ScriptStep(t)
    <3>1. stopTimers' \subseteq stopTimers /\ UNCHANGED <<handle, blocking>>
      BY <2>3 DEF Define, Synchronize, LibraryLoads, LibraryPoll, DoneTimer, StopTimer,
         ScriptStep, vars
    <3> QED BY <3>1, <2>1, <1>0, <1>2
  <2>4. CASE TestTimeout
    <3>1. PICK t \in Tests : Unfinished(t)
      BY <2>4 DEF TestTimeout, LoadInv
    <3>2. t \in overdue'
      BY <3>1, <2>4 DEF TestTimeout, Unfinished
    <3> QED BY <3>2
  <2> QED BY <2>2, <2>3, <2>4, <1>4 DEF Next
<1> QED BY <1>3, <1>4

\* The time-out that a test gave stop() is gone when the test ends, unless a batch
\* run ended it.
THEOREM TimeoutCorrect == Safety => []TimeoutIsOwn
<1>1. TimerInv => TimeoutIsOwn
  BY DEF TimerInv, TimeoutIsOwn
<1> QED BY <1>1, InitTypes, NextTypes, InitQueue, NextQueue, InitLoad, NextLoad,
           NextTimers, PTL DEF Safety

LEMMA ReportStep ==
  ASSUME Typed, QueueInv, [Next]_vars, Len(dones') > Len(dones)
  PROVE  \A t \in Tests : t <= defined => t \in begun /\ ~ InQueue(Second(t))'
<1> USE DEF doneClock, queueVars, timerVars, testVars, resultVars, historyVars
<1>1. dones' # dones
  BY DEF Typed, ResultTyped
<1>2. CASE RunDone
  <2>1. queue # <<>> /\ queue[1] = Done /\ queue' = <<>>
    BY <1>1, <1>2, QueueFacts DEF RunDone, Calls, Finish, Reports
  <2>2. Len(queue) = 1 /\ Len(queue') = 0
    <3>1. Len(Tail(queue)) = Len(queue) - 1 /\ Tail(queue) = <<>>
      BY <2>1, <1>2, QueueFacts DEF RunDone, Calls
    <3> QED BY <2>1, <3>1, QueueFacts
  <2>3. \A t : ~ InQueue(First(t)) /\ ~ InQueue(Second(t))'
    BY <2>1, <2>2, ItemFacts DEF InQueue
  <2> QED BY <2>3 DEF QueueInv, AllKept
<1>3. CASE DoneTimer
  <2>1. queue = <<>> /\ queue' = <<>>
    BY <1>1, <1>3 DEF DoneTimer
  <2>2. \A t : ~ InQueue(First(t)) /\ ~ InQueue(Second(t))'
    BY <2>1 DEF InQueue
  <2> QED BY <2>2 DEF QueueInv, AllKept
<1> QED BY <1>1, <1>2, <1>3 DEF Next, Define, Load, LibraryLoads, Process, RunModule,
        RunFirst, RunSecond, StartTimer, LibraryPoll, TestTimeout, StopTimer,
        ScriptStep, vars

\* QUnit.done is called when every test defined so far has ended.
THEOREM ReportsCorrect == Safety => DoneAfterAll
<1>1. Typed /\ QueueInv /\ [Next]_vars =>
        [Len(dones') > Len(dones) =>
           \A t \in Tests :
             t <= defined => t \in begun /\ ~ InQueue(Second(t))']_vars
  BY ReportStep
<1> QED BY <1>1, InitTypes, NextTypes, InitQueue, NextQueue, PTL
        DEF Safety, DoneAfterAll

-----------------------------------------------------------------------------
(* Assertions. *)

\* What a step of a script does.
LEMMA ScriptFacts ==
  ASSUME Typed, NEW t \in Tests, ScriptStep(t)
  PROVE  /\ Active(t) /\ \A u \in Tests : u # t => script'[u] = script[u]
         /\ Owes(script'[t]) => Owes(script[t])
         /\ Gentle(script[t]) =>
              /\ Gentle(script'[t])
              /\ UNCHANGED starts \/ (starts' = starts + 1 /\ ~ Active(t)')
         /\ \/ UNCHANGED <<assertions, made, elements, te>>
            \/ \E m \in {"ok", "bad"} :
                 /\ Owes(script[t]) /\ ~ Owes(script'[t])
                 /\ assertions' = assertions \union {<<t, m>>}
                 /\ made' = made \union {<<t, m>>}
                 /\ elements' = elements \union {t} /\ te' = te \union {t}
<1>1. /\ script \in [1..Len(page) -> Scripts] /\ t \in 1..Len(page)
      /\ Tests \subseteq 1..Len(page) /\ starts \in Nat
  BY PageFacts DEF Typed, PageTyped, TestsTyped, ClockTyped
<1>2. PICK o \in Steps(script[t]) :
        /\ script' = [script EXCEPT ![t] = o.script]
        /\ LET new == IF o.made = "none" THEN {} ELSE {<<t, o.made>>}
               owner == {a[1] : a \in new}
           IN /\ assertions' = assertions \union new
              /\ made' = made \union new
              /\ elements' = elements \union owner
              /\ te' = te \union owner
        /\ starts' = starts + o.released
  BY DEF ScriptStep
<1>3. /\ o.script \in Scripts /\ o.made \in {"none", "ok", "bad"}
      /\ o.released \in {0, 1}
      /\ o.made # "none" => Owes(script[t]) /\ ~ Owes(o.script)
      /\ Owes(o.script) => Owes(script[t])
      /\ Gentle(script[t]) => /\ Gentle(o.script)
                              /\ o.released = 1 => Steps(o.script) = {}
  BY <1>1, StepFacts
<1>4. script'[t] = o.script /\ \A u \in Tests : u # t => script'[u] = script[u]
  BY <1>1, <1>2
<1>5. Active(t) /\ (Active(t)' <=> Steps(o.script) # {})
  BY <1>2, <1>4 DEF Active
<1>6. CASE o.made = "none"
  <2>1. UNCHANGED <<assertions, made, elements, te>>
    BY <1>2, <1>6
  <2> QED BY <2>1, <1>1, <1>2, <1>3, <1>4, <1>5
<1>7. CASE o.made # "none"
  <2>1. /\ assertions' = assertions \union {<<t, o.made>>}
        /\ made' = made \union {<<t, o.made>>}
        /\ elements' = elements \union {t} /\ te' = te \union {t}
    BY <1>2, <1>7
  <2> QED BY <2>1, <1>1, <1>2, <1>3, <1>4, <1>5, <1>7
<1> QED BY <1>6, <1>7

Recorded ==
  /\ made \subseteq Assertions /\ \A a \in made : a[1] \in begun
  /\ assertions \subseteq made /\ counted \subseteq made \X Tests

\* What somebody is still going to assert has not been asserted.
Unmade == \A t \in Tests :
  /\ Owes(script[t]) => <<t, "ok">> \notin made /\ <<t, "bad">> \notin made
  /\ t \in stopTimers => <<t, "timeout">> \notin made
  /\ Unfinished(t) => <<t, "number">> \notin made

Uncounted == \A t \in Tests :
  Unfinished(t) => \A a \in assertions, c \in counted : c[1] # a

CountInv == Recorded /\ Unmade /\ Uncounted /\ CountedOnce

LEMMA InitCount == ASSUME Init PROVE CountInv
<1>1. \A t \in Tests : script[t] = Idle
  BY InitTypes, PageFacts DEF Init, Typed, PageTyped
<1> QED BY <1>1, FS_EmptySet, IdleFacts
        DEF Init, CountInv, Recorded, Unmade, Uncounted, CountedOnce

\* Each assertion that testDone counts is counted for one test.
LEMMA CountsAdd ==
  ASSUME Typed, Recorded, CountedOnce, NEW t \in Tests,
         \A a \in Counting(t), c \in counted : c[1] # a
  PROVE  /\ Cardinality(counted \union (Counting(t) \X {t}))
              = Cardinality(counted) + Cardinality(Counting(t))
         /\ \A c, d \in counted \union (Counting(t) \X {t}) : c[1] = d[1] => c = d
<1> DEFINE new == Counting(t) \X {t}
<1>1. IsFiniteSet(counted)
  <2>1. IsFiniteSet(made) /\ IsFiniteSet(Tests)
    <3>1. IsFiniteSet(1..Len(page)) /\ Tests \subseteq 1..Len(page)
      BY PageFacts, FS_Interval DEF Typed, PageTyped
    <3> QED BY <3>1, PageFacts, FS_Subset DEF Recorded, Typed, PageTyped
  <2>2. IsFiniteSet(made \X Tests)
    BY <2>1, FS_Product
  <2> QED BY <2>2, FS_Subset DEF Recorded
<1>2. IsFiniteSet(new) /\ Cardinality(new) = Cardinality(Counting(t))
  <2>1. IsFiniteSet({t}) /\ Cardinality({t}) = 1
    BY FS_Singleton
  <2>2. IsFiniteSet(Counting(t)) /\ Cardinality(Counting(t)) \in Nat
    BY CountingFacts
  <2> QED BY <2>1, <2>2, FS_Product
<1>3. counted \intersect new = {}
  OBVIOUS
<1>4. Cardinality(counted \union new)
        = Cardinality(counted) + Cardinality(new) - Cardinality({})
  BY <1>1, <1>2, <1>3, FS_Union
<1>5. Cardinality({}) = 0 /\ Cardinality(counted) \in Nat /\ Cardinality(new) \in Nat
  BY <1>1, <1>2, FS_EmptySet, FS_CardinalityType
<1>6. \A c, d \in counted \union new : c[1] = d[1] => c = d
  BY DEF CountedOnce
<1> QED BY <1>2, <1>4, <1>5, <1>6

LEMMA NextCount ==
  ASSUME Typed, QueueInv, LoadInv, CountInv, [Next]_vars
  PROVE  CountInv'
<1> USE DEF pageVars, doneClock, queueVars, timerVars, testVars, resultVars, historyVars
<1>0. /\ Tests' = Tests /\ Assertions' = Assertions
      /\ \A t \in Tests : page[t] \in Kinds /\ t \in 1..Len(page)
      /\ script \in [1..Len(page) -> Scripts]
  BY PageStays, PageFacts DEF Typed, PageTyped, TestsTyped
<1>1. ASSUME NEW t \in Tests, RunFirst(t) PROVE CountInv'
  <2>1. /\ t \notin begun /\ \A u \in Tests : Unfinished(u)' => u = t
        /\ \A a \in made : a[1] # t
    BY <1>1, Turns DEF CountInv, Recorded
  <2>2. /\ BodyAsserts(t) \subseteq {t} \X {"ok", "setup", "died"}
        /\ Owes(StartScript(page[t])) => <<t, "ok">> \notin BodyAsserts(t)
    BY <1>0, BodyFacts
  <2>3. /\ assertions' = BodyAsserts(t) /\ made' = made \union BodyAsserts(t)
        /\ begun' = begun \union {t} /\ stopTimers' \subseteq stopTimers \union {t}
        /\ script'[t] = StartScript(page[t])
        /\ \A u \in Tests : u # t => script'[u] = script[u]
        /\ UNCHANGED <<counted, stats>>
    BY <1>0, <1>1 DEF RunFirst, AssertionsAfterBody
  <2>4. Recorded'
    <3>1. BodyAsserts(t) \subseteq Assertions /\ \A a \in BodyAsserts(t) : a[1] = t
      BY <2>2 DEF Assertions
    <3> QED BY <1>0, <2>3, <3>1 DEF CountInv, Recorded
  <2>5. Unmade'
    <3> SUFFICES ASSUME NEW u \in Tests
                 PROVE  /\ Owes(script'[u]) =>
                             <<u, "ok">> \notin made' /\ <<u, "bad">> \notin made'
                        /\ u \in stopTimers' => <<u, "timeout">> \notin made'
                        /\ Unfinished(u)' => <<u, "number">> \notin made'
      BY <1>0 DEF Unmade
    <3>1. CASE u = t
      BY <3>1, <2>1, <2>2, <2>3
    <3>2. CASE u # t
      <4>1. \A m : <<u, m>> \in made' <=> <<u, m>> \in made
        BY <3>2, <2>2, <2>3
      <4> QED BY <4>1, <3>2, <2>1, <2>3 DEF CountInv, Unmade
    <3> QED BY <3>1, <3>2
  <2>6. Uncounted'
    <3>1. \A a \in assertions' : a[1] = t
      BY <2>2, <2>3
    <3>2. \A c \in counted' : c[1][1] # t
      BY <2>1, <2>3 DEF CountInv, Recorded
    <3> QED BY <3>1, <3>2 DEF Uncounted
  <2> QED BY <2>3, <2>4, <2>5, <2>6 DEF CountInv, CountedOnce
<1>2. ASSUME NEW t \in Tests, RunSecond(t) PROVE CountInv'
  <2>1. Unfinished(t) /\ \A u \in Tests : ~ Unfinished(u)'
    BY <1>2, Turns
  <2>2. /\ Counting(t) \subseteq Assertions /\ assertions \subseteq Counting(t)
        /\ Counting(t) \subseteq assertions \union {<<t, "number">>}
    BY CountingFacts
  <2>3. /\ assertions' = Counting(t) /\ made' = made \union Counting(t)
        /\ counted' = counted \union (Counting(t) \X {t})
        /\ stats'.all = stats.all + Cardinality(Counting(t))
        /\ UNCHANGED <<begun, stopTimers, script>>
    BY <1>2 DEF RunSecond
  <2>4. \A a \in Counting(t), c \in counted : c[1] # a
    BY <2>1, <2>2 DEF CountInv, Recorded, Unmade, Uncounted
  <2>5. Recorded'
    <3>1. \A a \in Counting(t) : a[1] \in begun
      BY <2>1, <2>2 DEF CountInv, Recorded, Unfinished
    <3> QED BY <1>0, <2>2, <2>3, <3>1 DEF CountInv, Recorded
  <2>6. Unmade'
    <3>1. \A u \in Tests, m \in {"ok", "bad", "timeout"} :
            <<u, m>> \in made' <=> <<u, m>> \in made
      BY <2>2, <2>3 DEF CountInv, Recorded
    <3> QED BY <1>0, <2>1, <2>3, <3>1 DEF CountInv, Unmade
  <2>7. Uncounted'
    BY <1>0, <2>1 DEF Uncounted
  <2>8. CountedOnce'
    BY <2>3, <2>4, CountsAdd DEF CountInv, CountedOnce
  <2> QED BY <2>5, <2>6, <2>7, <2>8 DEF CountInv
<1>3. ASSUME UNCHANGED <<made, begun, assertions, counted, stats, script>>,
             stopTimers' \subseteq stopTimers,
             \A u \in Tests : Unfinished(u)' => Unfinished(u)
      PROVE  CountInv'
  BY <1>0, <1>3 DEF CountInv, Recorded, Unmade, Uncounted, CountedOnce
<1>4. CASE RunModule \/ RunDone
  <2>1. /\ UNCHANGED <<made, begun, assertions, counted, stats, script>>
        /\ stopTimers' \subseteq stopTimers
    BY <1>4 DEF RunModule, RunDone
  <2> QED BY <1>3, <1>4, <2>1, Turns
<1>5. CASE ~ Process
  <2>1. \A u \in Tests : Unfinished(u)' <=> Unfinished(u)
    BY <1>5, Turns
  <2>2. CASE \/ Define \/ Load \/ LibraryLoads \/ DoneTimer \/ StartTimer
             \/ LibraryPoll \/ TestTimeout \/ UNCHANGED vars
    <3>1. /\ UNCHANGED <<made, begun, assertions, counted, stats, script>>
          /\ stopTimers' \subseteq stopTimers
      BY <2>2 DEF Define, Load, LibraryLoads, DoneTimer, StartTimer, LibraryPoll,
         TestTimeout, TimersAfterStart, vars
    <3> QED BY <2>1, <3>1, <1>3
  <2>3. ASSUME NEW t \in Tests, StopTimer(t) PROVE CountInv'
    <3>1. t \in begun /\ <<t, "timeout">> \notin made
      BY <2>3 DEF StopTimer, LoadInv, CountInv, Unmade
    <3>2. /\ assertions' = assertions \union {<<t, "timeout">>}
          /\ made' = made \union {<<t, "timeout">>}
          /\ stopTimers' = stopTimers \ {t}
          /\ UNCHANGED <<begun, counted, stats, script>>
      BY <2>3 DEF StopTimer
    <3>3. Recorded'
      BY <1>0, <3>1, <3>2 DEF CountInv, Recorded, Assertions
    <3>4. Unmade'
      BY <1>0, <2>1, <3>2 DEF CountInv, Unmade
    <3>5. Uncounted'
      BY <1>0, <2>1, <3>1, <3>2 DEF CountInv, Uncounted, Recorded
    <3> QED BY <3>2, <3>3, <3>4, <3>5 DEF CountInv, CountedOnce
  <2>4. ASSUME NEW t \in Tests, ScriptStep(t) PROVE CountInv'
    <3>1. t \in begun
      BY <2>4, ScriptFacts, IdleFacts DEF LoadInv, Active
    <3>2. UNCHANGED <<begun, counted, stats, stopTimers>>
      BY <2>4 DEF ScriptStep
    <3>3. /\ \A u \in Tests : u # t => script'[u] = script[u]
          /\ Owes(script'[t]) => Owes(script[t])
      BY <2>4, ScriptFacts
    <3>4. CASE UNCHANGED <<assertions, made, elements, te>>
      BY <1>0, <2>1, <3>2, <3>3, <3>4
         DEF CountInv, Recorded, Unmade, Uncounted, CountedOnce
    <3>5. ASSUME NEW m \in {"ok", "bad"}, Owes(script[t]), ~ Owes(script'[t]),
                 assertions' = assertions \union {<<t, m>>},
                 made' = made \union {<<t, m>>}
          PROVE  CountInv'
      <4>1. <<t, m>> \notin made
        BY <3>5 DEF CountInv, Unmade
      <4>2. Recorded'
        BY <1>0, <3>1, <3>2, <3>5 DEF CountInv, Recorded, Assertions
      <4>3. Unmade'
        BY <1>0, <2>1, <3>2, <3>3, <3>5 DEF CountInv, Unmade
      <4>4. Uncounted'
        BY <1>0, <2>1, <3>2, <3>5, <4>1 DEF CountInv, Uncounted, Recorded
      <4> QED BY <3>2, <4>2, <4>3, <4>4 DEF CountInv, CountedOnce
    <3> QED BY <2>4, <3>4, <3>5, ScriptFacts
  <2> QED BY <2>2, <2>3, <2>4, <1>5 DEF Next
<1> QED BY <1>1, <1>2, <1>4, <1>5 DEF Process

-----------------------------------------------------------------------------
(***************************************************************************)
(* Turns.  As long as the run is orderly, there is at most one thing that  *)
(* will release the queue: a timer of start(), the poll for the library,   *)
(* the script of the test that is unfinished, or its time-out.  When the   *)
(* queue is not stopped there is none, but for the start() of the load     *)
(* event.                                                                  *)
(***************************************************************************)
Quiet == /\ starts = 0 /\ waiting = 0
         /\ \A t \in Tests : ~ Active(t) /\ t \notin stopTimers

OneRelease ==
  /\ starts + waiting <= 1
  /\ \A t \in Tests : Active(t) \/ t \in stopTimers =>
                        starts = 0 /\ waiting = 0 /\ Unfinished(t)
  /\ \A t \in Tests : ~ (Active(t) /\ t \in stopTimers)

TurnInv == Orderly =>
  /\ OneRelease /\ (~ blocking => Quiet \/ (Fresh /\ starts = 1))
  /\ \A t \in begun : Gentle(script[t])

LEMMA InitTurn == ASSUME Init PROVE TurnInv
<1>1. \A t \in Tests : ~ Active(t)
  BY InitTypes, PageFacts, IdleFacts DEF Init, Typed, PageTyped, Active
<1> QED BY <1>1 DEF Init, TurnInv, OneRelease

\* No step makes a run orderly again.
LEMMA OrderlyBefore ==
  ASSUME [Next]_vars, Orderly'
  PROVE  Orderly
<1>1. overdue \subseteq overdue' /\ begun \subseteq begun' /\ UNCHANGED page
  BY PageStays DEF pageVars, historyVars, Next, Define, Load, LibraryLoads, Process,
     RunModule, RunDone, RunFirst, RunSecond, DoneTimer, StartTimer, LibraryPoll,
     TestTimeout, StopTimer, ScriptStep, vars
<1> QED BY <1>1 DEF Orderly

LEMMA TurnFacts ==
  ASSUME Typed, QueueInv, LoadInv, TurnInv, Orderly
  PROVE  /\ busy => Quiet
         /\ starts \in Nat /\ waiting \in Nat /\ starts + waiting <= 1
         /\ starts + waiting > 0 =>
              \A t \in Tests : ~ Active(t) /\ t \notin stopTimers
         /\ \A t \in Tests :
              Active(t) \/ t \in stopTimers =>
                /\ t \in begun /\ Unfinished(t) /\ blocking
                /\ starts = 0 /\ waiting = 0 /\ ~ (Active(t) /\ t \in stopTimers)
                /\ \A u \in Tests : Active(u) \/ u \in stopTimers => u = t
<1>1. /\ starts \in Nat /\ waiting \in Nat /\ starts + waiting <= 1
      /\ busy => Quiet
  BY QueueFacts DEF Typed, ClockTyped, TimersTyped, TurnInv, OneRelease, Fresh
<1>2. ASSUME NEW t \in Tests, Active(t) \/ t \in stopTimers
      PROVE  /\ t \in begun /\ Unfinished(t) /\ blocking
             /\ starts = 0 /\ waiting = 0 /\ ~ (Active(t) /\ t \in stopTimers)
             /\ \A u \in Tests : Active(u) \/ u \in stopTimers => u = t
  <2>1. /\ Unfinished(t) /\ starts = 0 /\ waiting = 0
        /\ ~ (Active(t) /\ t \in stopTimers)
        /\ \A u \in Tests : Active(u) \/ u \in stopTimers => Unfinished(u)
    BY <1>2 DEF TurnInv, OneRelease
  <2>2. \A u \in Tests : Unfinished(u) => u = t
    BY <2>1, HeadsNow, ItemFacts DEF Heads
  <2>3. ~ Quiet /\ ~ Fresh
    BY <1>2, <2>1 DEF Quiet, Fresh, Unfinished
  <2> QED BY <2>1, <2>2, <2>3 DEF TurnInv, Unfinished
<1>3. ASSUME starts + waiting > 0, NEW t \in Tests
      PROVE  ~ Active(t) /\ t \notin stopTimers
  BY <1>1, <1>2, <1>3
<1> QED BY <1>1, <1>2, <1>3

LEMMA NextTurn ==
  ASSUME Typed, QueueInv, LoadInv, TurnInv, [Next]_vars
  PROVE  TurnInv'
<1> USE DEF pageVars, doneClock, queueVars, timerVars, testVars, resultVars, historyVars
<1>0. /\ Tests' = Tests /\ UNCHANGED page
      /\ \A t \in Tests : page[t] \in Kinds /\ t \in 1..Len(page)
      /\ script \in [1..Len(page) -> Scripts] /\ queue \in Seq(Items)
  BY PageStays, PageFacts DEF Typed, PageTyped, TestsTyped, QueueTyped
<1> SUFFICES ASSUME Orderly'
             PROVE  /\ OneRelease' /\ (~ blocking' => Quiet' \/ (Fresh' /\ starts' = 1))
                    /\ \A t \in begun' : Gentle(script'[t])
  BY DEF TurnInv
<1>1. /\ Orderly /\ \A t \in begun : Gentle(script[t])
      /\ OneRelease /\ (~ blocking => Quiet \/ (Fresh /\ starts = 1))
      /\ begun \subseteq Tests
  BY OrderlyBefore DEF TurnInv, QueueInv, DefinedOnly
<1>2. /\ busy => Quiet
      /\ starts \in Nat /\ waiting \in Nat /\ starts + waiting <= 1
      /\ starts + waiting > 0 =>
           \A t \in Tests : ~ Active(t) /\ t \notin stopTimers
      /\ \A t \in Tests :
           Active(t) \/ t \in stopTimers =>
             /\ t \in begun /\ Unfinished(t) /\ blocking
             /\ starts = 0 /\ waiting = 0 /\ ~ (Active(t) /\ t \in stopTimers)
             /\ \A u \in Tests : Active(u) \/ u \in stopTimers => u = t
  BY <1>1, TurnFacts
<1>3. Quiet' => OneRelease'
  BY DEF Quiet, OneRelease
<1>4. CASE Process
  <2>1. Quiet
    BY <1>2, <1>4 DEF Process, RunModule, RunDone, RunFirst, RunSecond, Calls
  <2>2. CASE RunModule
    <3>1. /\ blocking' /\ waiting' = waiting + 1
          /\ UNCHANGED <<starts, stopTimers, script, begun>>
      BY <2>2 DEF RunModule
    <3>2. starts' + waiting' = 1
      BY <3>1, <2>1 DEF Quiet
    <3>3. \A t \in Tests : ~ Active(t)' /\ t \notin stopTimers'
      BY <3>1, <2>1 DEF Quiet, Active
    <3>4. OneRelease'
      BY <3>2, <3>3, <1>0 DEF OneRelease
    <3> QED BY <3>1, <3>4, <1>1
  <2>3. CASE RunDone \/ \E t \in Tests : RunSecond(t)
    <3>1. UNCHANGED <<starts, waiting, stopTimers, script, begun>>
      BY <2>3 DEF RunDone, RunSecond
    <3>2. Quiet'
      BY <3>1, <2>1, <1>0 DEF Quiet, Active
    <3> QED BY <3>1, <3>2, <1>1, <1>3
  <2>4. ASSUME NEW t \in Tests, RunFirst(t)
        PROVE  /\ OneRelease' /\ (~ blocking' => Quiet' \/ (Fresh' /\ starts' = 1))
               /\ \A u \in begun' : Gentle(script'[u])
    <3>1. /\ starts' = starts + Restarts(page[t]) /\ begun' = begun \union {t}
          /\ waiting' = waiting /\ script'[t] = StartScript(page[t])
          /\ \A u \in Tests : u # t => script'[u] = script[u]
          /\ blocking' = (page[t] \notin SyncKinds)
          /\ stopTimers' = IF page[t] \in {"guarded", "guardedHang"}
                           THEN stopTimers \union {t} ELSE stopTimers
      BY <1>0, <2>4 DEF RunFirst
    <3>2. page[t] \notin RogueKinds
      BY <3>1, <1>0 DEF Orderly
    <3>3. Gentle(StartScript(page[t])) /\ starts' = 0
      BY <3>1, <3>2, <2>1, <1>0, StartFacts DEF RogueKinds, Restarts, Quiet
    <3>4. CASE page[t] \in SyncKinds
      <4>1. script'[t] = Idle /\ t \notin stopTimers'
        BY <3>1, <3>4, <2>1, <1>0, StartFacts DEF SyncKinds, Quiet
      <4>2. Quiet'
        BY <4>1, <3>1, <3>3, <3>4, <2>1, <1>0, IdleFacts DEF Quiet, Active, SyncKinds
      <4> QED BY <4>2, <3>1, <3>3, <1>1, <1>3
    <3>5. CASE page[t] \notin SyncKinds
      <4>1. Unfinished(t)'
        BY <2>4, Turns
      <4>2. page[t] = "guardedHang" => ~ Active(t)'
        BY <3>1, <1>0, StartFacts, IdleFacts DEF Active, StuckKinds
      <4>3. t \in stopTimers' => page[t] = "guardedHang"
        BY <3>1, <3>2, <2>1 DEF RogueKinds, Quiet
      <4>4. \A u \in Tests : u # t => ~ Active(u)' /\ u \notin stopTimers'
        BY <3>1, <2>1 DEF Quiet, Active
      <4>5. OneRelease'
        BY <4>1, <4>2, <4>3, <4>4, <3>1, <3>3, <2>1, <1>0 DEF OneRelease, Quiet
      <4> QED BY <4>5, <3>1, <3>3, <3>5, <1>1
    <3> QED BY <3>4, <3>5
  <2> QED BY <2>2, <2>3, <2>4, <1>4 DEF Process
<1>5. CASE ~ Process
  <2>0. \A u \in Tests : Unfinished(u)' <=> Unfinished(u)
    BY <1>5, Turns
  <2>1. CASE Define \/ LibraryLoads \/ DoneTimer \/ UNCHANGED vars
    <3>1. UNCHANGED <<starts, waiting, stopTimers, script, begun, blocking>>
      BY <2>1 DEF Define, Synchronize, LibraryLoads, DoneTimer, vars
    <3>2. ASSUME Fresh PROVE Fresh'
      <4>1. queue # <<>> => queue' # <<>>
        BY <2>1, <1>0 DEF Define, Synchronize, ItemsOf, LibraryLoads, DoneTimer, vars
      <4>2. CASE Define
        <5>1. queue' # <<>>
          BY <4>2, <1>0 DEF Define, Synchronize, ItemsOf
        <5> QED BY <3>1, <3>2, <4>2, <5>1 DEF Define, Synchronize, Fresh
      <4>3. CASE DoneTimer
        <5>1. queue # <<>>
          BY <3>2, <4>3 DEF DoneTimer, Fresh
        <5> QED BY <3>1, <3>2, <4>1, <4>3, <5>1 DEF DoneTimer, Synchronize, Fresh
      <4>4. CASE LibraryLoads \/ UNCHANGED vars
        BY <3>2, <4>4 DEF LibraryLoads, vars, Fresh
      <4> QED BY <2>1, <4>2, <4>3, <4>4
    <3>3. OneRelease' /\ (Quiet => Quiet')
      BY <2>0, <3>1, <1>0, <1>1 DEF OneRelease, Quiet, Active
    <3> QED BY <3>1, <3>2, <3>3, <1>1
  <2>2. CASE Load
    <3>1. /\ Fresh /\ starts = 0 /\ starts' = starts + 1 /\ ~ blocking'
          /\ UNCHANGED <<autorun, busy, begun, waiting, doneTimer, queue, script,
                         stopTimers>>
      BY <2>2 DEF Load, LoadInv
    <3>2. Fresh' /\ \A t \in Tests : ~ Active(t)' /\ t \notin stopTimers'
      BY <3>1, <1>2 DEF Fresh, Active
    <3> QED BY <3>1, <3>2, <1>0, <1>1 DEF OneRelease, Fresh
  <2>3. CASE StartTimer
    <3>1. /\ starts > 0 /\ starts' = starts - 1 /\ stopTimers' \subseteq stopTimers
          /\ UNCHANGED <<waiting, script, begun>>
      BY <2>3 DEF StartTimer, TimersAfterStart
    <3>2. Quiet'
      BY <3>1, <1>0, <1>2 DEF Quiet, Active
    <3> QED BY <3>1, <3>2, <1>1, <1>3
  <2>4. CASE LibraryPoll
    <3>1. /\ waiting > 0 /\ waiting' = waiting - 1 /\ starts' = starts + 1
          /\ UNCHANGED <<script, begun, stopTimers, blocking>>
      BY <2>4 DEF LibraryPoll
    <3>2. blocking
      BY <3>1, <1>1 DEF Quiet, Fresh
    <3>3. starts' + waiting' <= 1 /\ starts + waiting > 0
      BY <3>1, <1>2
    <3>4. \A t \in Tests : ~ Active(t)' /\ t \notin stopTimers'
      BY <3>1, <3>3, <1>2 DEF Active
    <3>5. OneRelease'
      BY <3>3, <3>4, <1>0 DEF OneRelease
    <3> QED BY <3>1, <3>2, <3>5, <1>1
  <2>5. CASE TestTimeout
    <3>1. PICK t \in Tests : Unfinished(t)
      BY <2>5 DEF TestTimeout, LoadInv
    <3>2. t \in overdue'
      BY <3>1, <2>5 DEF TestTimeout, Unfinished
    <3> QED BY <3>2 DEF Orderly
  <2>6. ASSUME NEW t \in Tests, StopTimer(t)
        PROVE  /\ OneRelease' /\ (~ blocking' => Quiet' \/ (Fresh' /\ starts' = 1))
               /\ \A u \in begun' : Gentle(script'[u])
    <3>1. /\ t \in stopTimers /\ stopTimers' = stopTimers \ {t}
          /\ starts' = starts + 1
          /\ UNCHANGED <<waiting, script, begun, blocking>>
      BY <2>6 DEF StopTimer
    <3>2. \A u \in Tests : ~ Active(u)' /\ u \notin stopTimers'
      BY <3>1, <1>2 DEF Active
    <3> QED BY <3>1, <3>2, <1>0, <1>1, <1>2 DEF OneRelease
  <2>7. ASSUME NEW t \in Tests, ScriptStep(t)
        PROVE  /\ OneRelease' /\ (~ blocking' => Quiet' \/ (Fresh' /\ starts' = 1))
               /\ \A u \in begun' : Gentle(script'[u])
    <3>1. /\ Active(t) /\ UNCHANGED <<waiting, stopTimers, begun, blocking>>
          /\ \A u \in Tests : u # t => script'[u] = script[u]
      BY <2>7, ScriptFacts DEF ScriptStep
    <3>2. t \in begun /\ Unfinished(t) /\ blocking /\ starts = 0 /\ waiting = 0
          /\ t \notin stopTimers
      BY <3>1, <1>2
    <3>3. /\ Gentle(script'[t])
          /\ UNCHANGED starts \/ (starts' = starts + 1 /\ ~ Active(t)')
      BY <3>2, <2>7, <1>1, ScriptFacts
    <3>4. \A u \in Tests : u # t => ~ Active(u)' /\ u \notin stopTimers'
      BY <3>1, <1>2 DEF Active
    <3>5. OneRelease'
      BY <3>1, <3>2, <3>3, <3>4, <2>0, <1>0 DEF OneRelease
    <3> QED BY <3>1, <3>2, <3>3, <3>5, <1>1
  <2> QED BY <2>1, <2>2, <2>3, <2>4, <2>5, <2>6, <2>7, <1>5 DEF Next
<1> QED BY <1>4, <1>5

\* In an orderly run one test runs at a time.
LEMMA OneAtATimeHolds ==
  ASSUME Typed, QueueInv, LoadInv, TurnInv
  PROVE  OneAtATime
<1> SUFFICES ASSUME Orderly, NEW t \in begun, NEW u \in begun, Active(t)
             PROVE  Unfinished(t) /\ (Active(u) => t = u)
  BY DEF OneAtATime
<1>1. t \in Tests /\ u \in Tests
  BY DEF QueueInv, DefinedOnly
<1> QED BY <1>1, TurnFacts

-----------------------------------------------------------------------------
(* Whose assertions and elements those of an orderly run are. *)

OwnerInv == Orderly =>
  /\ \A t \in Tests : Unfinished(t) => \A a \in assertions : a[1] = t
  /\ \A c \in counted : c[1][1] = c[2]
  /\ \A a \in made : <<a, a[1]>> \in counted \/ (a \in assertions /\ Unfinished(a[1]))
  /\ elements \subseteq te /\ \A t \in elements : Unfinished(t)

LEMMA InitOwner == ASSUME Init PROVE OwnerInv
BY DEF Init, OwnerInv

LEMMA NextOwner ==
  ASSUME Typed, QueueInv, LoadInv, TurnInv, CountInv, OwnerInv, [Next]_vars
  PROVE  OwnerInv'
<1> USE DEF pageVars, doneClock, queueVars, timerVars, testVars, resultVars, historyVars
<1>0. /\ Tests' = Tests /\ elements \subseteq Tests /\ \A t \in Tests : page[t] \in Kinds
      /\ \A a \in made : a[1] \in Tests
  BY PageStays, PageFacts DEF Typed, PageTyped, TestsTyped, CountInv, Recorded, Assertions
<1> DEFINE Goal == /\ \A t \in Tests :
                        Unfinished(t)' => \A a \in assertions' : a[1] = t
                   /\ \A c \in counted' : c[1][1] = c[2]
                   /\ \A a \in made' : \/ <<a, a[1]>> \in counted'
                                       \/ a \in assertions' /\ Unfinished(a[1])'
                   /\ elements' \subseteq te' /\ \A t \in elements' : Unfinished(t)'
<1> SUFFICES ASSUME Orderly' PROVE Goal
  BY <1>0 DEF OwnerInv
<1>1. /\ Orderly
      /\ \A t \in Tests : Unfinished(t) => \A a \in assertions : a[1] = t
      /\ \A c \in counted : c[1][1] = c[2]
      /\ \A a \in made : \/ <<a, a[1]>> \in counted
                         \/ a \in assertions /\ Unfinished(a[1])
      /\ elements \subseteq te /\ \A t \in elements : Unfinished(t)
  BY OrderlyBefore DEF OwnerInv
<1>2. ASSUME NEW t \in Tests, RunFirst(t) PROVE Goal
  <2>1. \A u \in Tests : ~ Unfinished(u) /\ (Unfinished(u)' <=> u = t)
    BY <1>2, Turns
  <2>2. /\ assertions' = BodyAsserts(t) /\ made' = made \union BodyAsserts(t)
        /\ elements' = elements \union {t} /\ te' = {t} /\ UNCHANGED counted
    BY <1>2 DEF RunFirst, AssertionsAfterBody
  <2>3. \A a \in BodyAsserts(t) : a[1] = t
    BY <1>0, BodyFacts
  <2>4. elements = {} /\ \A a \in made : <<a, a[1]>> \in counted
    BY <1>0, <1>1, <2>1
  <2> QED BY <1>1, <2>1, <2>2, <2>3, <2>4
<1>3. ASSUME NEW t \in Tests, RunSecond(t) PROVE Goal
  <2>1. \A u \in Tests : (Unfinished(u) <=> u = t) /\ ~ Unfinished(u)'
    BY <1>3, Turns
  <2>2. /\ made' = made \union Counting(t) /\ elements' = elements \ te
        /\ counted' = counted \union (Counting(t) \X {t})
    BY <1>3 DEF RunSecond, TornDown
  <2>3. assertions \subseteq Counting(t) /\ \A a \in Counting(t) : a[1] = t
    <3>1. \A a \in assertions : a[1] = t
      BY <1>1, <2>1
    <3>2. /\ assertions \subseteq Counting(t)
          /\ \A a \in Counting(t) : a \in assertions \/ a = <<t, "number">>
      BY CountingFacts
    <3> QED BY <3>1, <3>2
  <2>4. elements' = {}
    BY <1>1, <2>2
  <2>5. \A a \in made' : <<a, a[1]>> \in counted'
    BY <1>1, <2>2, <2>3
  <2>6. \A c \in counted' : c[1][1] = c[2]
    BY <1>1, <2>2, <2>3
  <2> QED BY <2>1, <2>4, <2>5, <2>6
<1>4. CASE RunModule \/ RunDone
  <2>1. UNCHANGED <<assertions, counted, made, elements, te>>
    BY <1>4 DEF RunModule, RunDone
  <2>2. \A u \in Tests : Unfinished(u)' <=> Unfinished(u)
    BY <1>4, Turns
  <2> QED BY <1>0, <1>1, <2>1, <2>2
<1>5. CASE ~ Process
  <2>1. \A u \in Tests : Unfinished(u)' <=> Unfinished(u)
    BY <1>5, Turns
  <2>2. CASE \/ Define \/ Load \/ LibraryLoads \/ DoneTimer \/ StartTimer
             \/ LibraryPoll \/ TestTimeout \/ UNCHANGED vars
    <3>1. UNCHANGED <<assertions, counted, made, elements, te>>
      BY <2>2 DEF Define, Load, LibraryLoads, DoneTimer, StartTimer, LibraryPoll,
         TestTimeout, vars
    <3> QED BY <1>0, <1>1, <2>1, <3>1
  <2>3. ASSUME NEW t \in Tests, Active(t) \/ t \in stopTimers
        PROVE  Unfinished(t) /\ \A u \in Tests : Unfinished(u) => u = t
    <3>1. Unfinished(t)
      BY <2>3, <1>1, TurnFacts
    <3> QED BY <3>1, HeadsNow, ItemFacts DEF Heads
  <2>4. ASSUME NEW t \in Tests, StopTimer(t) PROVE Goal
    <3>1. Unfinished(t) /\ \A u \in Tests : Unfinished(u) => u = t
      BY <2>3, <2>4 DEF StopTimer
    <3>2. /\ assertions' = assertions \union {<<t, "timeout">>}
          /\ made' = made \union {<<t, "timeout">>}
          /\ UNCHANGED <<counted, elements, te>>
      BY <2>4 DEF StopTimer
    <3> QED BY <1>0, <1>1, <2>1, <3>1, <3>2
  <2>5. ASSUME NEW t \in Tests, ScriptStep(t) PROVE Goal
    <3>1. Unfinished(t) /\ \A u \in Tests : Unfinished(u) => u = t
      BY <2>3, <2>5, ScriptFacts
    <3>2. UNCHANGED counted
      BY <2>5 DEF ScriptStep
    <3>3. CASE UNCHANGED <<assertions, made, elements, te>>
      BY <1>0, <1>1, <2>1, <3>2, <3>3
    <3>4. ASSUME NEW m \in {"ok", "bad"},
                 assertions' = assertions \union {<<t, m>>},
                 made' = made \union {<<t, m>>},
                 elements' = elements \union {t}, te' = te \union {t}
          PROVE  Goal
      BY <1>0, <1>1, <2>1, <3>1, <3>2, <3>4
    <3> QED BY <2>5, <3>3, <3>4, ScriptFacts
  <2> QED BY <2>2, <2>4, <2>5, <1>5 DEF Next
<1> QED BY <1>2, <1>3, <1>4, <1>5 DEF Process

-----------------------------------------------------------------------------
(* The library. *)

\* Until the library is there, the first module is still to come, or waits for it.
LibraryInv == Orderly /\ page[1] = "module" /\ ~ library =>
  /\ begun = {}
  /\ \/ defined = 0 /\ queue = <<>> /\ doneTimer = "none" /\ waiting = 0
     \/ queue # <<>> /\ queue[1] = Module /\ waiting = 0
     \/ waiting = 1

LEMMA InitLibrary == ASSUME Init PROVE LibraryInv
BY DEF Init, LibraryInv

LEMMA NextLibrary ==
  ASSUME Typed, QueueInv, LoadInv, TurnInv, LibraryInv, [Next]_vars
  PROVE  LibraryInv'
<1> USE DEF pageVars, doneClock, queueVars, timerVars, testVars, resultVars, historyVars
<1>0. /\ UNCHANGED page /\ library \in BOOLEAN /\ waiting \in Nat
      /\ queue \in Seq(Items)
  BY PageStays DEF Typed, LoadTyped, QueueTyped, TimersTyped
<1> SUFFICES ASSUME Orderly', page[1] = "module", ~ library'
             PROVE  /\ begun' = {}
                    /\ \/ /\ defined' = 0 /\ queue' = <<>> /\ doneTimer' = "none"
                          /\ waiting' = 0
                       \/ queue' # <<>> /\ queue'[1] = Module /\ waiting' = 0
                       \/ waiting' = 1
  BY <1>0 DEF LibraryInv
<1>1. ~ library
  BY DEF Next, Define, Load, LibraryLoads, Process, RunModule, RunDone, RunFirst,
     RunSecond, DoneTimer, StartTimer, LibraryPoll, TestTimeout, StopTimer,
     ScriptStep, vars
<1>2. /\ Orderly /\ begun = {}
      /\ \/ defined = 0 /\ queue = <<>> /\ doneTimer = "none" /\ waiting = 0
         \/ queue # <<>> /\ queue[1] = Module /\ waiting = 0
         \/ waiting = 1
  BY <1>1, OrderlyBefore DEF LibraryInv
<1>3. CASE Process
  <2>1. queue # <<>> /\ waiting = 0
    BY <1>2, <1>3, TurnFacts, QueueFacts
       DEF Process, RunModule, RunDone, RunFirst, RunSecond, Calls, Quiet
  <2>2. queue[1] = Module
    BY <1>2, <2>1
  <2>3. RunModule
    <3>1. \A item : Calls(item) => item = Module
      BY <2>1, <2>2, <1>0 DEF Calls
    <3> QED BY <1>3, <3>1, ItemFacts DEF Process, RunDone, RunFirst, RunSecond
  <2> QED BY <2>1, <2>3, <1>2 DEF RunModule
<1>4. CASE Define
  <2>1. UNCHANGED <<begun, waiting>> /\ queue' = queue \o ItemsOf(defined + 1)
    BY <1>4 DEF Define, Synchronize
  <2>2. CASE defined = 0 /\ queue = <<>> /\ waiting = 0
    <3>1. queue' = <<Module>>
      BY <2>1, <2>2 DEF ItemsOf
    <3> QED BY <2>1, <2>2, <3>1, <1>2
  <2>3. CASE queue # <<>> /\ queue[1] = Module /\ waiting = 0
    <3>1. \/ queue' = queue \o <<Module>>
          \/ queue' = queue \o <<First(defined + 1), Second(defined + 1)>>
      BY <2>1 DEF ItemsOf
    <3>2. queue' # <<>> /\ queue'[1] = queue[1]
      BY <3>1, <2>3, <1>0
    <3> QED BY <2>1, <2>3, <3>2, <1>2
  <2> QED BY <2>1, <2>2, <2>3, <1>2
<1>5. CASE DoneTimer
  <2>1. UNCHANGED <<begun, waiting>> /\ doneTimer # "none"
    BY <1>5 DEF DoneTimer
  <2>2. CASE queue # <<>> /\ queue[1] = Module /\ waiting = 0
    <3>1. queue' = queue \o <<Done>>
      BY <1>5, <2>2 DEF DoneTimer, Synchronize
    <3>2. queue' # <<>> /\ queue'[1] = queue[1]
      BY <3>1, <2>2, <1>0
    <3> QED BY <2>1, <2>2, <3>2, <1>2
  <2> QED BY <2>1, <2>2, <1>2
<1>6. CASE \/ Load \/ StartTimer \/ TestTimeout \/ UNCHANGED vars
           \/ \E t \in Tests : StopTimer(t) \/ ScriptStep(t)
  <2>1. UNCHANGED <<begun, defined, queue, doneTimer, waiting>>
    BY <1>6 DEF Load, StartTimer, TestTimeout, StopTimer, ScriptStep, vars
  <2> QED BY <2>1, <1>2
<1>7. ~ LibraryPoll /\ ~ LibraryLoads
  BY <1>1 DEF LibraryPoll, LibraryLoads
<1> QED BY <1>3, <1>4, <1>5, <1>6, <1>7 DEF Next

-----------------------------------------------------------------------------
\* Tests take their turns: after the library, and one at a time.
THEOREM TurnsCorrect == Safety => []TestsInTurn
<1>1. Typed /\ QueueInv /\ LoadInv /\ TurnInv /\ LibraryInv => TestsInTurn
  BY OneAtATimeHolds DEF LibraryInv, AfterLibrary, TestsInTurn
<1> QED BY <1>1, InitTypes, NextTypes, InitQueue, NextQueue, InitLoad, NextLoad,
           InitTurn, NextTurn, InitLibrary, NextLibrary, PTL DEF Safety

\* What is counted is right: once, and in an orderly run for its own test.
THEOREM CountsCorrect == Safety => []CountedRight
<1>1. CountInv /\ OwnerInv => CountedRight
  BY DEF CountInv, OwnerInv, CountedForOwner, CountedRight
<1> QED BY <1>1, InitTypes, NextTypes, InitQueue, NextQueue, InitLoad, NextLoad,
           InitTurn, NextTurn, InitCount, NextCount, InitOwner, NextOwner, PTL
        DEF Safety

\* When an orderly run has reported nothing is missing in the report, and nothing of
\* its tests is left in the document.
THEOREM ReportComplete == Safety => []DoneComplete
<1>1. ASSUME OwnerInv PROVE DoneComplete
  <2>1. queue = <<>> => \A t : ~ InQueue(Second(t))
    BY DEF InQueue
  <2> QED BY <1>1, <2>1 DEF OwnerInv, Unfinished, DoneComplete, NoneLost, NothingLeft
<1> QED BY <1>1, InitTypes, NextTypes, InitQueue, NextQueue, InitLoad, NextLoad,
           InitTurn, NextTurn, InitCount, NextCount, InitOwner, NextOwner, PTL
        DEF Safety

=============================================================================
