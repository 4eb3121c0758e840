----------------------------- MODULE TestRunner -----------------------------
(***************************************************************************)
(* The test runner of one page (testrunner.js with ext_qunit.js and        *)
(* tools.js): a queue of functions that a blocking flag holds back, tests  *)
(* that stop() the queue and start() it again from their callbacks, the    *)
(* timers that do so for them, and the report that QUnit.done gives.       *)
(*                                                                         *)
(* A page is a sequence of items, modules and kinds of tests, that its     *)
(* scripts define one after the other, some of them after the load event.  *)
(* A test is its position in the page.  The browser runs one task at a     *)
(* time: while process() runs (`busy`) no timer and no event does.  The    *)
(* timers of start() and done() have the same 13 ms and fire in the order  *)
(* they were set; all others fire at any time, since tests may last long.  *)
(*                                                                         *)
(* An assertion is a pair of the test that made it and what it says.       *)
(***************************************************************************)
EXTENDS UserHelpers, Integers, FiniteSets

CONSTANTS
  Pages,       \* the pages opened without batchrun=true in their address
  BatchPages,  \* the pages opened with it
  MaxItems     \* the length of the longest page

\* The kinds of tests.  "setupThrows" has a module whose setup throws;
\* "throws" dies before its assertion, "asyncThrows" after stop() and after
\* setting up its callback; "guarded" gives stop a time-out; "asyncExpect" is
\* async and says that it makes one assertion.
SyncKinds == {"sync", "setupThrows", "throws"}
CallbackKinds == {"async", "asyncExpect", "asyncThrows", "guarded"}
HelperKinds == {"delay", "delayDefault", "list", "listTwice", "queue",
                "import", "frame", "css", "drag"}
StuckKinds == {"hang", "guardedHang"}
Kinds == SyncKinds \union CallbackKinds \union HelperKinds \union StuckKinds

ASSUME PagesAssumption ==
  Pages \union BatchPages \subseteq Seq(Kinds \union {"module"})
ASSUME MaxItemsAssumption ==
  MaxItems \in Nat /\ \A p \in Pages \union BatchPages : Len(p) <= MaxItems

VARIABLES
  page,        \* the page
  batch,       \* does its address have batchrun=true?
  defined,     \* how many of its items have been defined
  loaded,      \* has the load event fired?
  library,     \* does window.baidu exist?
  queue,       \* config.queue
  busy,        \* is the loop of process() running?
  blocking,    \* config.blocking
  autorun,     \* config.autorun
  starts,      \* pending timers of start()
  waiting,     \* pending intervals of moduleStart
  doneTimer,   \* config.doneTimer: none, still due to be set by a test() that
               \* runs the queue first, armed, or fired and not cleared
  ahead,       \* timers of start() that were set before an armed doneTimer
  testTimer,   \* is config.testTimeout pending?
  stopTimers,  \* the tests whose stop() time-out is pending
  handle,      \* config.timeout: the test whose stop() set it last, or 0
  flag,        \* config.testTimeoutFlag
  assertions,  \* config.assertions
  expected,    \* config.expected
  script,      \* where each test is after its body returned
  stats,       \* config.stats
  elements,    \* the tests that have an element in the document
  te,          \* te.dom: the elements registered for removal
  dones,       \* history: the arguments of the calls of QUnit.done
  counted,     \* history: <<assertion, test it was counted for>>
  made,        \* history: all assertions made
  begun,       \* history: the tests whose body has run
  overdue,     \* history: the tests that batchrun's time-out ended
  stranded     \* history: was an item defined that nobody would call?

pageVars == <<page, batch>>
doneClock == <<doneTimer, ahead>>
queueVars == <<queue, busy, blocking, autorun>>
timerVars == <<starts, waiting, doneClock, testTimer, stopTimers, handle>>
testVars == <<assertions, expected, script, elements, te>>
resultVars == <<flag, stats, dones>>
historyVars == <<counted, made, begun, overdue, stranded>>

vars == <<pageVars, defined, loaded, library, queueVars, timerVars, testVars,
          resultVars, historyVars>>

Tests == {i \in 1..Len(page) : page[i] # "module"}

-----------------------------------------------------------------------------
(* The queue: functions of modules, the two of each test, and done. *)

Module == <<"module", 0>>
First(t) == <<"first", t>>
Second(t) == <<"second", t>>
Done == <<"done", 0>>

InQueue(item) == \E i \in 1..Len(queue) : queue[i] = item

\* process() goes on while there is something to call and nobody has stopped.
GoesOn(rest, blocked) == rest # <<>> /\ ~ blocked

\* synchronize: the function is called at once if the runner is through with
\* the page and nobody has stopped it, else it waits for process().
Synchronize(items) ==
  /\ queue' = queue \o items
  /\ busy' = (autorun /\ ~ blocking)
  /\ UNCHANGED <<blocking, autorun>>

\* The timer is set, behind `before` timers of the same length.
ArmDoneTimer(before) == doneTimer' = "armed" /\ ahead' = before

\* A test() called after done has reported runs what it queued.  It sets the
\* timer when that is over or blocked.
TestReturns(before) ==
  IF doneTimer = "due" /\ ~ busy' THEN ArmDoneTimer(before)
                                 ELSE UNCHANGED doneClock

\* Somebody is going to call process().
Resumes == blocking \/ starts > 0

\* Mutant: module() queues the functions of a test.
ItemsAlike(i) == <<First(i), Second(i)>>

ItemsOf(i) == IF page[i] = "module" THEN <<Module>> ELSE <<First(i), Second(i)>>

\* module() and test(), from a script of the page or from a later callback.
Define ==
  /\ ~ busy /\ defined < Len(page)
  /\ defined' = defined + 1
  /\ Synchronize(ItemsOf(defined + 1))
  /\ IF page[defined + 1] # "module" /\ doneTimer = "none"
     THEN IF busy' THEN doneTimer' = "due" /\ UNCHANGED ahead
          ELSE ArmDoneTimer(starts)
     ELSE UNCHANGED doneClock
  /\ stranded' = (stranded \/ (loaded /\ ~ Resumes /\ ~ autorun))
  /\ UNCHANGED <<pageVars, loaded, library, starts, waiting, testTimer,
                 stopTimers, handle, testVars, resultVars, counted, made, begun,
                 overdue>>

\* The load event: init with the old queue put back, and start().
Load ==
  /\ ~ busy /\ ~ loaded
  /\ loaded' = TRUE
  /\ blocking' = FALSE
  /\ starts' = starts + 1
  /\ UNCHANGED <<pageVars, defined, library, queue, busy, autorun, waiting,
                 doneClock, testTimer, stopTimers, handle, testVars, resultVars,
                 historyVars>>

-----------------------------------------------------------------------------
(* What process() calls. *)

\* The head of the queue is taken and called.
Calls(item) == /\ busy /\ Head(queue) = item
               /\ queue' = Tail(queue)

\* Mutant: moduleStart does not stop the queue while it waits for the library.
RunModuleUnstopped ==
  /\ Calls(Module)
  /\ waiting' = waiting + 1
  /\ blocking' = FALSE
  /\ busy' = GoesOn(queue', FALSE)
  /\ TestReturns(starts)
  /\ UNCHANGED <<pageVars, defined, loaded, library, autorun, starts, testTimer,
                 stopTimers, handle, testVars, resultVars, historyVars>>

\* moduleStart, as ext_qunit.js has it: stop() until baidu exists.
RunModule ==
  /\ Calls(Module)
  /\ waiting' = waiting + 1
  /\ blocking' = TRUE
  /\ busy' = FALSE
  /\ TestReturns(starts)
  /\ UNCHANGED <<pageVars, defined, loaded, library, autorun, starts, testTimer,
                 stopTimers, handle, testVars, resultVars, historyVars>>

\* What the body asserts before it returns.
BodyAsserts(t) ==
  CASE page[t] = "sync" -> {<<t, "ok">>}
    [] page[t] = "setupThrows" -> {<<t, "setup">>, <<t, "ok">>}
    [] page[t] \in {"throws", "asyncThrows"} -> {<<t, "died">>}
    [] OTHER -> {}

StartScript(kind) ==
  CASE kind \in SyncKinds -> Idle
    [] kind \in CallbackKinds -> Callback
    [] kind \in StuckKinds -> Stuck
    [] kind \in {"list", "listTwice"} -> Script(kind, 2, 1, 0)
    [] kind = "frame" -> Script(kind, 3, 0, 0)
    [] kind = "css" -> Script(kind, 1, 0, 0)
    [] kind = "drag" -> Script(kind, 2, 0, 0)
    [] kind = "queue" -> Script(kind, 2, 0, 0)
    [] OTHER -> Script(kind, 0, 0, 0)

\* A test that died while it blocked the queue releases it.
Restarts(kind) == IF kind = "asyncThrows" THEN 1 ELSE 0

\* Mutant: config.assertions is not emptied.
AssertionsKept(t) == assertions \union BodyAsserts(t)

AssertionsAfterBody(t) == BodyAsserts(t)

\* The first function of a test: testStart, time-out, setup and body.  The
\* elements that bodies register are removed by testDone (tools.js).
RunFirst(t) ==
  /\ Calls(First(t))
  /\ begun' = begun \union {t}
  /\ testTimer' = batch
  /\ assertions' = AssertionsAfterBody(t)
  /\ made' = made \union BodyAsserts(t)
  /\ expected' = IF page[t] = "asyncExpect" THEN 1 ELSE 0
  /\ script' = [script EXCEPT ![t] = StartScript(page[t])]
  /\ blocking' = (page[t] \notin SyncKinds)
  /\ busy' = GoesOn(queue', blocking')
  /\ IF page[t] \in {"guarded", "guardedHang"}
     THEN stopTimers' = stopTimers \union {t} /\ handle' = t
     ELSE UNCHANGED <<stopTimers, handle>>
  /\ starts' = starts + Restarts(page[t])
  /\ elements' = elements \union {t}
  /\ te' = {t}
  /\ TestReturns(starts')
  /\ UNCHANGED <<pageVars, defined, loaded, library, autorun, waiting,
                 resultVars, counted, overdue, stranded>>

IsBad(a) == a[2] # "ok"

\* The assertions counted for t: another one if their number is not expected.
Counting(t) ==
  assertions \union (IF expected # 0 /\ expected # Cardinality(assertions)
                     THEN {<<t, "number">>} ELSE {})

\* Mutant: testDone removes nothing.
TornDownNot == elements

TornDown == elements \ te

\* The second function of a test: count, teardown, testDone.
RunSecond(t) ==
  /\ Calls(Second(t))
  /\ testTimer' = FALSE
  /\ assertions' = Counting(t)
  /\ made' = made \union Counting(t)
  /\ stats' = [all |-> stats.all + Cardinality(Counting(t)),
               bad |-> stats.bad + Cardinality({a \in Counting(t) : IsBad(a)})]
  /\ counted' = counted \union (Counting(t) \X {t})
  /\ flag' = FALSE
  /\ elements' = TornDown
  /\ busy' = GoesOn(queue', blocking)
  /\ TestReturns(starts)
  /\ UNCHANGED <<pageVars, defined, loaded, library, blocking, autorun, starts,
                 waiting, stopTimers, handle, expected, script, te,
                 dones, begun, overdue, stranded>>

\* Mutant: done reports whatever is still in the queue.
ReportsAnyhow(rest) == TRUE

Reports(rest) == rest = <<>>

\* Mutant: done does not come back.
FinishOnce(rest) ==
  IF Reports(rest)
  THEN /\ doneTimer' = "none" /\ autorun' = TRUE
       /\ dones' = Append(dones, [bad |-> stats.bad, all |-> stats.all,
                                  timedOut |-> flag])
       /\ UNCHANGED ahead
  ELSE doneTimer' = "none" /\ UNCHANGED <<ahead, autorun, dones>>

\* done(): report if the queue is empty, else come back later.
Finish(rest) ==
  IF Reports(rest)
  THEN /\ doneTimer' = "none" /\ autorun' = TRUE
       /\ dones' = Append(dones, [bad |-> stats.bad, all |-> stats.all,
                                  timedOut |-> flag])
       /\ UNCHANGED ahead
  ELSE ArmDoneTimer(starts) /\ UNCHANGED <<autorun, dones>>

RunDone ==
  /\ Calls(Done)
  /\ Finish(queue')
  /\ busy' = GoesOn(queue', blocking)
  /\ UNCHANGED <<pageVars, defined, loaded, library, blocking, starts, waiting,
                 testTimer, stopTimers, handle, testVars, flag, stats,
                 historyVars>>

-----------------------------------------------------------------------------
(* Timers and callbacks: each is a task of the event loop. *)

DoneTimer ==
  /\ ~ busy /\ doneTimer = "armed" /\ ahead = 0
  /\ IF queue = <<>>
     THEN Finish(<<>>) /\ UNCHANGED <<queue, busy, blocking>>
     ELSE /\ Synchronize(<<Done>>)
          /\ doneTimer' = "fired" /\ UNCHANGED <<ahead, dones>>
  /\ UNCHANGED <<pageVars, defined, loaded, library, starts, waiting, testTimer,
                 stopTimers, handle, testVars, flag, stats, historyVars>>

\* Mutant: the timer of start leaves the time-out of stop running.
TimersKept == stopTimers

TimersAfterStart == stopTimers \ {handle}

\* The timer of start(): the time-out of the last stop is cleared.
StartTimer ==
  /\ ~ busy /\ starts > 0
  /\ doneTimer = "armed" => ahead > 0
  /\ starts' = starts - 1
  /\ ahead' = IF doneTimer = "armed" THEN ahead - 1 ELSE 0
  /\ stopTimers' = TimersAfterStart
  /\ blocking' = FALSE
  /\ busy' = GoesOn(queue, FALSE)
  /\ UNCHANGED <<pageVars, defined, loaded, library, queue, autorun, waiting,
                 doneTimer, testTimer, handle, testVars, resultVars,
                 historyVars>>

\* The interval of moduleStart finds the library.
LibraryPoll ==
  /\ ~ busy /\ library /\ waiting > 0
  /\ waiting' = waiting - 1
  /\ starts' = starts + 1
  /\ UNCHANGED <<pageVars, defined, loaded, library, queueVars, doneClock,
                 testTimer, stopTimers, handle, testVars, resultVars,
                 historyVars>>

\* The time-out of stop(): a failed assertion and start().
StopTimer(t) ==
  /\ ~ busy /\ t \in stopTimers
  /\ stopTimers' = stopTimers \ {t}
  /\ assertions' = assertions \union {<<t, "timeout">>}
  /\ made' = made \union {<<t, "timeout">>}
  /\ starts' = starts + 1
  /\ UNCHANGED <<pageVars, defined, loaded, library, queueVars, waiting,
                 doneClock, testTimer, handle, expected, script, elements, te,
                 resultVars, counted, begun, overdue, stranded>>

\* The time-out of a test in a batch run: the queue goes on, the test counts
\* nothing of its own for it.
TestTimeout ==
  /\ ~ busy /\ testTimer
  /\ testTimer' = FALSE
  /\ blocking' = FALSE
  /\ flag' = TRUE
  /\ busy' = GoesOn(queue, FALSE)
  /\ overdue' = overdue \union {t \in begun : InQueue(Second(t))}
  /\ UNCHANGED <<pageVars, defined, loaded, library, queue, autorun, starts,
                 waiting, doneClock, stopTimers, handle, testVars, stats, dones,
                 counted, made, begun, stranded>>

\* A timer or an event of the script of t.  Its elements are registered again
\* with its assertion.
ScriptStep(t) ==
  /\ ~ busy
  /\ \E o \in Steps(script[t]) :
       /\ script' = [script EXCEPT ![t] = o.script]
       /\ LET new == IF o.made = "none" THEN {} ELSE {<<t, o.made>>}
              owner == {a[1] : a \in new}
          IN /\ assertions' = assertions \union new
             /\ made' = made \union new
             /\ elements' = elements \union owner
             /\ te' = te \union owner
       /\ starts' = starts + o.released
  /\ UNCHANGED <<pageVars, defined, loaded, library, queueVars, waiting,
                 doneClock, testTimer, stopTimers, handle, expected, resultVars,
                 counted, begun, overdue, stranded>>

\* A script of the page, or one that it imports, defines the library.
LibraryLoads ==
  /\ ~ busy /\ ~ library
  /\ library' = TRUE
  /\ UNCHANGED <<pageVars, defined, loaded, queueVars, timerVars, testVars,
                 resultVars, historyVars>>

Init ==
  /\ \/ page \in Pages /\ batch = FALSE
     \/ page \in BatchPages /\ batch = TRUE
  /\ defined = 0 /\ loaded = FALSE /\ library = FALSE
  /\ queue = <<>> /\ busy = FALSE /\ blocking = TRUE /\ autorun = FALSE
  /\ starts = 0 /\ waiting = 0 /\ doneTimer = "none" /\ ahead = 0
  /\ testTimer = FALSE
  /\ stopTimers = {} /\ handle = 0
  /\ flag = FALSE /\ stats = [all |-> 0, bad |-> 0] /\ dones = <<>>
  /\ assertions = {} /\ expected = 0
  /\ script = [t \in 1..Len(page) |-> Idle]
  /\ elements = {} /\ te = {}
  /\ counted = {} /\ made = {} /\ begun = {} /\ overdue = {}
  /\ stranded = FALSE

Process == \/ RunModule \/ RunDone
           \/ \E t \in Tests : RunFirst(t) \/ RunSecond(t)

Next == \/ Define \/ Load \/ LibraryLoads
        \/ Process
        \/ DoneTimer \/ StartTimer \/ LibraryPoll \/ TestTimeout
        \/ \E t \in Tests : StopTimer(t) \/ ScriptStep(t)

Safety == Init /\ [][Next]_vars

\* Timers and events come in the end, process() goes on, and the scripts of the
\* page are loaded.  The library need not come.
Fairness == /\ WF_vars(Define) /\ WF_vars(Load) /\ WF_vars(Process)
            /\ WF_vars(DoneTimer) /\ WF_vars(StartTimer) /\ WF_vars(LibraryPoll)
            /\ WF_vars(TestTimeout)
            /\ \A t \in 1..MaxItems : WF_vars(t \in Tests /\ StopTimer(t))
                                /\ WF_vars(t \in Tests /\ ScriptStep(t))

Spec == Safety /\ Fairness

-----------------------------------------------------------------------------
(* Properties *)

Assertions == Tests \X {"ok", "bad", "setup", "died", "timeout", "number"}

TypeOK ==
  /\ page \in (IF batch THEN BatchPages ELSE Pages) /\ batch \in BOOLEAN
  /\ defined \in 0..Len(page)
  /\ {loaded, library, busy, blocking, autorun, testTimer, flag, stranded}
       \subseteq BOOLEAN
  /\ queue \in Seq({Module, Done} \union {First(t) : t \in Tests}
                                \union {Second(t) : t \in Tests})
  /\ busy => GoesOn(queue, blocking)
  /\ {starts, waiting, ahead, stats.all, stats.bad} \subseteq Nat
  /\ doneTimer \in {"none", "due", "armed", "fired"}
  /\ doneTimer = "due" => busy
  /\ stopTimers \subseteq Tests /\ handle \in {0} \union Tests
  /\ assertions \subseteq Assertions /\ expected \in {0, 1}
  /\ \A t \in Tests : Steps(script[t]) # {} => page[t] \notin SyncKinds
  /\ elements \subseteq Tests /\ te \subseteq Tests

\* The tests that may call start() twice, or be started by a timer and by
\* themselves.
RogueKinds == {"asyncThrows", "guarded", "listTwice"}

\* Nothing has released the queue behind the back of a test.
Orderly == overdue = {} /\ \A t \in begun : page[t] \notin RogueKinds

Unfinished(t) == t \in begun /\ InQueue(Second(t))

Active(t) == Steps(script[t]) # {}

\* As long as no test was rogue or overdue, one test runs at a time: the next
\* one begins after the script of the last has called start() (the blocking
\* flag is one bit for all callers of stop and start in testrunner.js).
OneAtATime == Orderly => \A t, u \in begun :
  Active(t) => Unfinished(t) /\ (Active(u) => t = u)

\* The time-out that a test gave stop() is gone when the test ends, unless a
\* batch run ended it: whoever releases the queue calls start, and that clears
\* the one time-out there is (config.timeout).
TimeoutIsOwn ==
  overdue = {} => \A t \in stopTimers : t = handle /\ Unfinished(t)

\* In an orderly run each assertion is counted for the test that made it; rogue
\* tests spoil only what comes after them.
CountedForOwner == Orderly => \A c \in counted : c[1][1] = c[2]

\* In an orderly run, when done reports, no assertion made so far is left out.
NoneLost == Orderly /\ dones # <<>> /\ queue = <<>> /\ ~ blocking
              => \A a \in made : <<a, a[1]>> \in counted

\* In an orderly run with the module first, as in all kisses, no test begins
\* before the library is there (moduleStart in ext_qunit.js).
AfterLibrary == Orderly /\ page[1] = "module" => library \/ begun = {}

\* Tests take their turns: after the library, and one at a time.
TestsInTurn == OneAtATime /\ AfterLibrary

\* In an orderly run, what the tests put into the document and registered is
\* gone after the last one (tools.js).
NothingLeft == Orderly /\ dones # <<>> /\ queue = <<>> /\ ~ blocking
                 => elements = {}

\* When an orderly run has reported nothing is missing in the report, and
\* nothing of its tests is left in the document.
DoneComplete == NoneLost /\ NothingLeft

\* Whatever the tests do, the total that done gives is that of the assertions
\* counted, and none is counted twice.
CountedOnce == /\ stats.all = Cardinality(counted)
               /\ \A c, d \in counted : c[1] = d[1] => c = d

\* What is counted is right: once, and in an orderly run for its own test.
CountedRight == CountedForOwner /\ CountedOnce

\* QUnit.done is called when every test defined so far has ended.
DoneAfterAll ==
  [][Len(dones') > Len(dones) =>
       \A t \in Tests :
         t <= defined => t \in begun /\ ~ InQueue(Second(t))']_vars

\* A page reports in the end, if the library comes, each test that stops the
\* queue starts it again, and no test is defined in the gap between the end of
\* the queue and the first report, when nobody calls process().
Releasing == batch \/ \A t \in Tests : page[t] \notin {"hang", "delayDefault"}

DoneInTheEnd ==
  Releasing /\ Tests # {} /\ <>library => <>(dones # <<>> \/ stranded)
==============================================================================
