# WaMole: TLA+ models, checks and proofs

WaMole (`com.baidu.jstest`) is a test server for JavaScript projects. A build
job asks it to run a *suite* in several *browsers*; the server turns the suite
into a *task*, queues it, and hands out the task's test pages (a page is called
a *kiss*) one at a time to browsers that poll it. The results are collected in a
*result table* and written to `report.xml`.

The server is one Jetty process with up to 1000 request threads and one watch
thread. Everything interesting happens between those threads, the clock, and
browsers that hang, answer late or are closed. In the browser a capture page runs
the kisses in a frame, and each kiss has a test runner of its own; there the
hard part is what timers, events and answers do in which order. Paths of Java files
are relative to `src/src/main/java/com/baidu/jstest/`, those of scripts to
`src/src/main/resources/resource/`.

## 1. Inventory

| Part | State it keeps | Operations | Interacts with |
|---|---|---|---|
| Result table (`result/ResultTableImpl`) | results per browser and kiss, a cursor and a success count per browser | `store`, `getNextExcutableKiss` (with `storeEmpty`), `isDead`, `report` | called by holders; owns a deadline; reads case files |
| Deadline (`result/DeadLine`) | deadline, least success count | `decrease`, `isDead` | the system clock |
| Task queue (`task/TaskQueue`) | waiting tasks, `current` | `addTask`, `getTask`, `current` | starts processors; asked by holders and the capture handler |
| Task processor (`task/TaskProcessor`) | task and its result table | constructor, `process` | sets itself on every holder of the task |
| Task adapter (`task/TaskAdapter`) | kiss list, browser list | constructor, `getIndex` | flattens a suite |
| Browser holder (`browser/BrowserHolderImpl`, `BrowserHolderFactory`) | one per browser name: processor, map of browser instances | `notice`, `register`, `setProcessor`, `invoke`, `check`, `remove` | queue, table, invokers |
| Capture handler (`page/handler/CaptureHandler`) | none | `probe` | holder, then queue |
| Task handler (`page/handler/TaskHandler`) | none | `addTask` request | parser, holders, queue |
| Browser watch (`browser/state/TimeOutThread`, `AnonymousBrowser`, invokers) | last notice of each instance | `check` every 10 s, `restart` | holders, operating system |
| Probe (`probe.js`) | timer, start time, current kiss, id, done handler | `beat`, `runtest`, `register` | the capture handler; the page in its frame |
| Test runner page (`testrunner.js`, `ext_qunit.js`, `tools.js`) | queue, blocking flag, timers, counts | `test`, `module`, `stop`, `start`, `done` | tells the probe when it is done |
| UserAction helpers (`UserAction.js`) | where each asynchronous helper is | `delayhelper`, `functionListHelper`, `fnQueue`, `importsrc`, `frameExt`, `loadcss`, `dragto` | tests call them, they call `start` |
| Running a kiss (`page/servlet/RunServlet`, `execute/ClientExecutor`, `kiss/`) | request and response fields of a shared kiss | `doGet`, `execute` | project structure |
| Project structure (`project/ProjectParser`, `Project`, `DefaultSuite`) | tree of suites and kisses | `parse`, `getKiss`, `child` | file system |
| Coverage (`result/coverage/`) | line counts per browser and in total | `store`, `isDead`, merge, report | result table |
| Dependencies (`dependence/TangramDependStrategy`) | list of files already seen | `parse` | file system |
| Server restart (`page/handler/RestartHandler`) | none | `restart` | queue, Jetty |
| Configuration, pages, utilities | configuration read at start-up | parsing and rendering | - |

How a task runs: `TaskHandler` builds a task and calls `addTask`. If nothing is
current the queue takes the task at once, makes a processor with a fresh result
table and sets it on each holder of the task. Clients of those browsers poll
`/probe`; `notice` stores the result they bring, if any, and takes the next kiss
from the holder's table. When the table has none left the holder asks `isDead`;
a dead table is reported, and the holder that found out takes the next task from
the queue and registers it, or, if there is none, drops its processor. The
capture handler looks the kiss name up in the task that is current by then and
answers with its address.

What is hard here, and which property each part must have:

* **Result table.** Notices of different browsers interleave; results come late,
  twice or for a table that has moved on; case files vanish while the task runs;
  two kisses may have one name (`a.js` and `a.css` are both `a`); the clock moves
  between the two looks of `isDead`, which takes no lock. Must hold: nothing is
  handed out twice or skipped silently, counts and table agree, the deadline
  follows the slowest browser and does not run away, the table dies, is reported
  and releases every browser that still asks.
* **Queue and holders.** `notice` holds the holder's monitor, `addTask` the
  queue's, and each calls the other; `setProcessor` and `current()` hold none; the
  holder reads its processor several times in one notice. Must hold: tasks are
  taken in order, each once; a holder serves only tasks that list its browser;
  requests return; nothing strands the queue.
* **Browser watch.** A declared browser is "timed out" until its first notice;
  `invoke` changes the instance map without the monitor; the factory's map has no
  lock at all; ids are random numbers and may collide; a new configuration
  changes the declared browser under the registry. Must hold: one process per
  declared browser, a dead one is restarted, a starting one is not killed, a live
  one is not forgotten, the watch thread survives, one holder for each name.
* **Probe.** Its timer does not wait for the answer to the last beat, so that two
  requests may be open; answers come in any order or never; a frame still shows the
  last page while the next one loads; pages call `done` more than once. Must hold:
  each result goes under the name of its kiss, a kiss handed out is reported unless it
  was lost, tasks end.
* **Test runner.** One blocking flag and one time-out handle serve all callers of
  `stop` and `start`, which come from callbacks, pollers and timers. Must hold: one
  test at a time, each assertion counted once and for its own test, one report after
  all tests.
* **Running a kiss.** Two browsers share one kiss object, all share one executor. Must
  hold: each request gets its own page.
* **Project structure.** Each parse replaces the list of suites while others walk it, on
  an `ArrayList` without a lock. Must hold: a task never sees half a structure.
* **Coverage.** The total of all browsers is read, merged and written without a lock, by
  a method that looks at the clock twice. Must hold: merged counts are sums, and each
  browser is in the total once.
* **Dependencies.** Files may import each other. Must hold: a page loads all it needs, in
  an order in which it can.

## 2. Modules

| Module | What it is |
|---|---|
| `TableContract` | abstract: what a holder relies on when it talks to a result table |
| `ResultTable` | one result table with its deadline; shown to implement `TableContract` |
| `MCResultTable` | instances of `ResultTable` for TLC |
| `ResultTableProofs` | theorems about `ResultTable` |
| `TaskDispatch` | queue, processors, holders' `notice`, the handlers' part in it; uses tables through what `TableContract` promises |
| `MCTaskDispatch` | instances of `TaskDispatch` for TLC |
| `TaskDispatchProofs` | theorems about `TaskDispatch` |
| `BrowserWatch` | one holder's registry of browsers: `register`, `invoke`, `check` and the watch thread, the invokers' processes |
| `MCBrowserWatch` | instances of `BrowserWatch` for TLC |
| `BrowserWatchProofs` | theorems about `BrowserWatch` |
| `HolderFactory` | `BrowserHolderFactory` |
| `MCHolderFactory` | instances of `HolderFactory` for TLC |
| `HolderFactoryProofs` | theorems about `HolderFactory` |
| `ProbeSession` | capture pages, their requests, and the server's part from queue to table for one browser |
| `MCProbeSession` | an instance of `ProbeSession` for TLC |
| `ProbeSessionProofs` | theorems about `ProbeSession` |
| `UserHelpers` | how a test gets to its assertion and to `start()`: scripts of the asynchronous helpers, no state of its own |
| `TestRunner` | the queue of one page's test runner with its timers; uses `UserHelpers` |
| `MCTestRunner` | instances of `TestRunner` for TLC |
| `TestRunnerProofs` | theorems about `TestRunner` and `UserHelpers` |
| `ProjectStructure` | the list of suites: parses and lookups without locks |
| `Dependence` | the files a page loads, as a function, and what it needs, without the algorithm |
| `RunPage` | `run.do`: composes `ProjectStructure` and `Dependence` with the shared kiss and executor |
| `MCRunPage` | an instance of `RunPage` for TLC |
| `RunPageProofs` | theorems about `RunPage` |
| `CoverageTable` | the table of a coverage task: extends the actions of `ResultTable` |
| `CoverageTableProofs` | the theorems about `CoverageTable` |
| `MCCoverageTable` | an instance of `CoverageTable` for TLC |

### ResultTable

| Model | Code |
|---|---|
| `results`, `currentIndex`, `successCount` | the arrays of `ResultTableImpl` (lines 24-32); a result is reduced to "the cell is filled" |
| `count`, `remaining` | `DeadLine.count`, and `deadline` minus the current time, in seconds |
| `missing`, `report` | the case files `haveCase` looks at, and whether `report.xml` exists |
| `pc` | where each holder's call is: idle, past a null answer, in `report`, at the second look (with or without having reported), told "dead" (`leaving`, or `unreported` if only the second look found it), through (`left`) |
| `gone` | the browsers whose holder no longer has this table's processor |
| `Poll`, `Store` | `getNextExcutableKiss` and `store`, each whole under the table's monitor, with the skip loop, `storeEmpty` and `decrease` inside (`Advance`) |
| `FirstLook`, `Report`, `SecondLook` | `isDead`, which has no monitor, in the three steps other threads can come between |
| `Leave` | the rest of `notice` for a holder that was told "dead": another processor, none, or, if the next task does not list its browser, still this one |
| `Overtake` | another thread starts a task and calls `setProcessor` on the holder, which takes no lock |
| `Tick`, `EditCase` | the clock and the file system |

A holder without the table's processor asks the table nothing more, except that a
call which has read it before goes on in it. A holder that `Overtake` finds past a
null answer asks `isDead` of the new task's table, so its call ends here.
The report of the task before is taken to have been collected: `report()` writes
over no file.

`Store` accepts any kiss name at any time, so late, repeated and misdirected
results are all there. `CellOf` gives for each position the position that
`getKissIndex` answers for its name, which is the last one of that name.
Counts above `Size` are one value, and so are cursors from `Size` on: the code only
compares them with the size. The skip loop sees one state of the file system; a
file edited between two iterations of one call is not modelled, nor are torn
or stale reads of the two plain fields that `isDead` looks at (each look is one
read of the current values). The deadline is an unbounded integer.

### TaskDispatch

| Model | Code |
|---|---|
| `queue`, `current` | fields of `TaskQueue` |
| `processor` | `BrowserHolderImpl.processor`; a task, its processor and its table have one name |
| `given`, `dead` | what the tables have answered; they change as `TableContract` allows |
| `lock`, `adder` | who is inside a holder's `notice`, and who is inside `addTask` |
| `pc`, `named`, `pulled`, `todo` | program counter and locals of the request threads |
| `running` | the kiss in the client's frame |
| `AddTask`, `AdderRegisters` | `addTask`, then `process` under the queue's monitor, one `setProcessor` per step |
| `AskIdle`, `AskUnknown`, `Ask` | `notice` up to the table's answer: no processor, a result of an unknown kiss (index -1, an exception), a normal one |
| `CheckDead`, `GetTask`, `NoticeRegisters`, `DropProcessor` | the rest of `notice`, split wherever another thread can change what it uses |
| `Resolve` | the end of `CaptureHandler.probe`, after the holder was left |
| `Expire` | time passes a table's deadline |

A task may list no browser at all, since `TaskHandler` lists what the project
declares (lines 134-144), and a browser may have no client.

`submitted`, `handed` and `overwritten` are history variables: no guard reads
`handed` or `overwritten`, and `submitted` only keeps a task from being added
twice, as each task object is new.

### BrowserWatch

| Model | Code |
|---|---|
| `anon`, `decl` | keys of `instanceMap` by the class of their browser; `None` is the null key |
| `late` | the keys whose browser answers `isTimeOut` with true |
| `declared` | the id of `declaredBrowser` |
| `procs` | the browser processes the invokers started, by the id in their URL (two stands for more) |
| `idOf` | the id that a page was told when it registered |
| `request` | the `register` that holds the monitor, between its `get` and its `put` |
| `pc`, `left`, `changed`, `at` | where the invokes and the watch are, and their iterators |
| `RequestEnters`, `RequestLeaves` | `register`, by itself or at the start of `notice` |
| `InvokeBegins`, `InvokeLooks`, `InvokeStarts`, `InvokePuts`, `InvokeFails` | `invoke`, split at each use of the map |
| `CheckBegins`, `CheckLooks`, `CheckRemoves`, `CheckRestarts`, `CheckRestartFails`, `WatchDies` | `check`, under the monitor, and `TimeOutThread.run` |
| `Stopped` | `stop` of `STAFInvoker` (one process of that path, errors swallowed) and of `BatchInvoker` (all of that name, errors thrown) |
| `Expire` | three times the step has gone by without a notice |
| `Reconfigure` | `RestartHandler`: same holder, new `DeclaredBrowser` |
| `ProcessDies` | the browser process ends by itself |

`register` and `check` exclude each other; `invoke` excludes nobody, so
`instanceMap` has a data race. It is modelled by what an unsynchronized `HashMap`
may do: an iterator fails at its next use after another thread has changed the
set of keys (`changed`), and an update that another one overlaps may undo the
other's additions and removals (`Update`). Resizing, which may lose any key or
loop, happens above twelve keys and is left out, as are stale reads of one
thread within one step. Random ids are chosen from `Ids`, which contains declared
ids: two browsers may have the same one.

`heard`, `fresh`, `excused` and `abandoned` are history variables. No guard reads
them, but one helper does: `Update` uses `heard` for whether a browser object that
comes back into the map has been noticed since it expired.

### HolderFactory

Each call of `getBrowserHolderInstance` is three steps, `ContainsKey`, `Put`
(skipped if the name is there) and `Get`. A holder goes by the name of the call that
made it. `undone` in `Put` is the same data race as above.

### ProbeSession

| Model | Code |
|---|---|
| `hasId`, `kiss`, `started`, `timer` | `browserId`, `kiss`, `starttime`, `timeoutHandle` of the probe; `started` says for which run the clock was started |
| `bound` | is `beat` bound to the event `done`? |
| `frame`, `turning`, `calls` | the page in the frame, the one that is loading, and how often the former is still going to call `done` |
| `requests` | the requests of each page: sent, past `notice` with a kiss name, answered, with what they carry |
| `submitted`, `taken`, `current` | the queue and its current task, which need not be the holder's |
| `processor`, `next`, `count`, `expired` | the holder's processor; the cursor of each task's table; success count and deadline of the table that the holder has |
| `Beat` | `beat`, which `Ready`, `TimerBeat` and `FrameDone` call |
| `RunTest`, `RemoveFrame`, `Answer` | `runtest`, `register` |
| `Notice` | `notice` with the table's part, as one step: one request of one browser at a time holds the holder. What it hands out is a name |
| `Resolve` | the rest of `CaptureHandler.probe`, outside the holder's monitor: the name is looked up in the task that is current by then. It is found, or there is no task (an empty answer), or the task has no such kiss (a failed request) |
| `Start`, `Polled` | the next task is polled and becomes current, and its processor goes to the holder if the task lists the browser |
| `AddTask`, `OthersTake` | `addTask`, which polls if no task is current; the holder of another browser, which finds its table dead and polls |
| `Restart` | `RestartHandler`: only the queue is looked at; holders, their tables and the current task outlive it |
| `Lose`, `Reopen`, `FrameLoads`, `Expire` | network, browser and clock |

The server knows names, the model also knows runs (a task and a position), so that it
can say whose result is whose. It is one browser's. Tasks outside `Ours` list other
browsers only; the holders of those appear as `OthersTake`, which may happen at any time once
such a task has been started, and their tables are not kept. What several browsers do to one
table, and the steps inside `notice` and `addTask`, are checked in `ResultTable` and
`TaskDispatch`.

### TestRunner and UserHelpers

| Model | Code |
|---|---|
| `page`, `defined`, `loaded`, `library` | the scripts of the page, how far they have run, the load event, `window.baidu` |
| `queue`, `busy`, `blocking`, `autorun` | `config.queue` and so on; `busy` while the loop of `process` runs |
| `starts`, `waiting`, `doneTimer`, `ahead`, `testTimer`, `stopTimers`, `handle` | all timers: of `start`, of `moduleStart`'s poll, of `done`, of batch runs, of `stop` |
| `assertions`, `expected`, `stats`, `flag` | the same in `config` |
| `script` | where the callbacks of each test are (`UserHelpers`) |
| `elements`, `te` | elements in the document, and those registered in `te.dom` |
| `Define`, `Load`, `RunModule`, `RunFirst`, `RunSecond`, `RunDone` | `module`/`test`, the load event, and what `process` calls |
| `DoneTimer`, `StartTimer`, `LibraryPoll`, `StopTimer`, `TestTimeout`, `ScriptStep` | tasks of the event loop |

Script runs to its end before the next task of the event loop, so every action is
one task or one function called by `process`. Timers of the same length fire in the
order they were set (`ahead`), all others at any time. `test()` sets the timer of `done` when
`synchronize` has returned: if that runs the test at once, the timer is `due` until the loop
of `process` ends (`TestReturns`).

### ProjectStructure, Dependence and RunPage

| Model | Code |
|---|---|
| `suites`, `data`, `size` | `Project.suites`: which list it is, its array, its size |
| `todo`, `target`, `read` | a parse: the files it has still to add, and the locals of its `add(0, s)` |
| `at`, `cursor`, `stale` | an iterator: its list, its place, has the list been modified? |
| `found`, `task` | what `getKiss` returned; the kisses a task takes |
| `response`, `wrapped`, `executor`, `lock` | the response fields of shared kisses, of wrappers, of the executor, and who is in `execute` |
| `pages` | what was written to which response |
| `ParseBegins`, `Shift`, `Put`, `Grow`, `ParseEnds` | `ProjectParser.parse`, with each `add` in three steps |
| `LookBegins`, `IterationGoesOn`, `IterationFails`, `IterationEnds` | `Project.getKiss`, `TaskAdapter.adapte` |
| `SetResponse`, `Test`, `Execute`, `Render` | `RunServlet.doGet`, `test` of the kiss, `ClientExecutor.execute` |
| `BreaksOff` | `CoverageKiss.getResource` answers null as the project names no coverage directory, and the template stops: the page loads no file |
| `getDepends`, `After` | `TangramDependStrategy`: its recursion as a sequence of work (`Visits`), and one step of it |

### CoverageTable

`CoverNotice` is `store`: `ResultTable`'s `Store` and then the merge, which may throw when
the cursor has already moved. `CoverFirstLook`, `CoverReport`, `ReadTotal`,
`WriteTotal` and `CoverSecondLook` are `isDead`. `CoverLeave` and `Overtake` are those of
`ResultTable`: a holder that was told "dead" gets another processor, none, or keeps
this one and may ask again. The history `of` in a coverage says how often each result has
gone into it, and `CountsAreSums` checks the counts against it.

## 3. Runs

| Run | Instance | What it shows |
|---|---|---|
| `result_table` | 2 browsers, one of which may hang at any point, 3 kisses of which two share a name, one deletable file, interval 1 | the table is right, implements `TableContract`, dies for good, releases the live browser, and is reported but for two gaps |
| `dispatch` | 3 clients of 2 browsers, one of which may stop polling, 3 tasks, one without browsers, two with different kisses | order, registration, locking; every request returns; the queue is stranded in two ways only |
| `dispatch_idle` | 3 clients, 3 tasks for both browsers | **violated:** a holder drops the task it was just given |
| `browser_watch` | 2 declared ids, on STAF, 2 invokes, no page | one process, one declared browser in the registry |
| `browser_progress` | 1 declared browser, 1 page, ids that may collide, 1 invoke, batch invoker | silent pages are forgotten, and nobody else; silent declared browsers are revived |
| `watch_dies` | 1 declared browser, 1 page, 1 invoke | **violated:** the watch thread ends |
| `restart_storm` | the same | **violated:** a browser that was just started is restarted |
| `holder_factory` | 3 names of which 1 configured, 4 calls | what a race in the factory can and cannot do |
| `test_runner` | about 230 pages of up to four items, modules and tests of 17 kinds, with and without batchrun | the queue of the test runner and its report |
| `probe_session` | 1 page with 2 requests, 2 tasks of its browser with a kiss of one name, one of another browser between them, without that name; a kiss that calls `done` twice | results, names, lost, overlapping and unresolved requests, the end of tasks |
| `run_page` | any two of 6 requests for pages and 2 of `addTask` (but for two coverage pages), and three for one kiss; a file that comes late; a coverage page with a coverage directory and one without | structure, lookups, tasks, pages |
| `coverage_table` | 2 browsers, 3 sequences of coverages of 2 files, one with another set of lines | sums, failures, the total |

The properties, beside each module's `TypeOK`; each name after "=" is a part, defined by
itself, and a property with parts has mutants for all of them:

* `DeadlineFollows` = `CountIsLeast`, `DeadlineBounded`: the deadline always follows the
  slowest browser and is at most two intervals plus one for each kiss that browser still
  owes away. This is what bounds the time a stuck browser can hold the queue.
* `FilledAreCounted`, `CursorRight` = `NoKissSkipped`, `HandedAtMostOnce`: cursor, counts
  and table agree, with repeated names, late results and vanished files.
* `ImplementsContract`: the refinement of `TableContract`.
* `DiesForGood`, `ReportedAndReleased` = `EventuallyReported`, `EveryBrowserReleased`: late
  results revive a dead table, but only finitely often, and one live browser is enough to
  go on (the liveness half of `TableContract`), and to get the report, with two exceptions:
  the deadline passes between its two looks, so that it leaves without having written
  one, or another task takes its holder before it asks `isDead`.
* `QueueRight` = `TakenInOrder`, `IdleQueueEmpty`: `addTask` decides by `current` alone
  whether to start a task, and `current` is written by holders; still tasks are taken in
  order, each once, none lost.
* `HoldersRight` = `OnlyListedBrowsers` (otherwise `getNextExcutableKiss` indexes its array
  with -1), `NoNullReread` (the second read of `processor` in `notice` never finds null).
* `CallsReturn`: no deadlock between the monitors of holders and queue.
* `StartsUnlessStranded`: a task that waits starts, unless a holder dropped the
  running task (`dispatch_idle`) or a task nobody polls for was started
  before it. Both really strand the queue: only a notice can find a table
  dead.
* `OneProcess`: two processes of one browser need invokes that overlap, an update
  that lost the declared browser, or a `stop` that did not stop the old one: the
  three causes are named in `excused`, and there is no fourth.
* `RemovesOnlySilent`: `check` decides first and removes later, and still nothing
  noticed in between is removed.
* `OneDeclared`: after a new configuration the old declared browser keeps the new
  one out of the registry as long as it is there. (So the watch goes on testing the
  old object, and starts browsers with the new id.)
* `WatchKeepsUp` = `SilentForgotten`, `DeclaredRevived`: what the watch is for, as long as it
  lives and restarts do not end its rounds. Both say "again and again": an overlapping
  `invoke` can undo a removal, and a process may die again.
* `AnswersRight` = `ConfiguredOnce`, `NullNeedsOverlap`; `StaysOnceSeen`: the factory's race
  can hurt only names that are not configured, and only while first calls overlap.
* `HeardAsItself` = `OwnResult`, `DoneHeard`: the clock, the name and the handler of the probe
  belong to the same kiss, except when the last page calls `done` before the next is
  loaded, and that page had been reported, or cut off by another answer.
* `NoneForgotten`: besides a lost message and a crash, two things make a handed out kiss
  vanish from the report: requests of the page that overlap (a later answer cuts it off),
  and a lookup in `CaptureHandler` that does not find the name. The second happens only to
  a kiss whose task the queue has left.
* `StrayTaskShort`: the server goes by names; a result counts for a later task only if
  the task it belongs to was given up before.
* `AllEnds` = `RunsEnd`, `TasksEnd`: the timer frees a probe from any page, and with one page
  that polls every task ends whatever else is lost.
* `TestsInTurn` = `OneAtATime`, `AfterLibrary`; `TimeoutIsOwn`;
  `DoneComplete` = `NoneLost`, `NothingLeft`: what the test runner owes tests that stop and
  start the queue as they should. `RogueKinds` names the tests that do not: a time-out of
  `stop` together with a late `start`, a test that dies after `stop`, a list that goes on
  twice.
* `CountedRight` = `CountedForOwner`, `CountedOnce`; `DoneAfterAll`; `DoneInTheEnd`: the last
  three hold whatever tests do. A page does not report if a test was defined in the gap
  between the end of the queue and the first report, when nobody calls `process`.
* `StructureWhole` = `WholeAfterParse`, `TaskWhole`; `FailsOnlyByParse`: a broken structure
  needs parses that overlap, a failing lookup or a short task needs a parse beside it. One
  parse alone, and any number one after the other, do no harm.
* `ServedRight` = `OwnPage`, `ServedAlone`: a page can only go to another browser that asks
  for the same plain kiss, or to one that asks for a release page.
* `PageLoads`: compares `getDepends` with a definition of what the page needs, over all
  requests and states of the disk, with import cycles inside and outside the project.
  Release pages and those that break off load no file of the project.
* `MergeRight` = `CountsAreSums`, `NoLineLost`, `EachOnce`; `FailsOnlyByLines`: store and
  merge.
* `TotalRight` = `TotalHasAll`, `TwiceOnlyIfKept`: the total lacks a browser only after
  overlapping calls of `isDead` or a deadline that passed between the two looks, and has a
  result twice only if the holder kept the table.

Violated runs record where the code does not do what its comments say; the
counterexamples are short:

1. *Lost task.* A holder's `getTask` answers null; before it clears its processor
   `addTask` starts a task and sets that holder's processor; the holder clears it.
2. *Watch.* `check` is at its iterator; `invoke` puts the declared browser; the
   iterator throws `ConcurrentModificationException`, which `TimeOutThread.run` does not
   catch, and the thread of `while (true)` is over.
3. *Restarts.* `invoke` starts a browser and puts it with `lastNotice` -1 and `step` 0;
   the next `check` finds it timed out and restarts it before it can load its page.

More that the models show and no run states:

* The deadline may move to a later time: `decrease` sets a new one from the present
  moment, although `DeadLine.java:55` and `ResultTable.java:10` speak of reducing it.
* Two first calls for a browser that is not configured can get two holders.
* The first of two holders that finds its table dead replaces `current`, while the
  other goes on serving the old table until it polls it dead itself. The capture
  handler then looks the old table's kisses up in null or in another task, and one that is
  not found there is lost to its task: the table will not hand it out again. One request is
  enough, if a holder of another browser polls the queue between its two looks.
* The only browser that still polls is told "dead" by the second look of `isDead`, for which
  the deadline passed just now, and goes on to the next task; the report is never written.
* `testrunner.js:231` resets the flag of a timed out test as soon as that test is
  reported, so that `done` (line 576) tells of a time-out only if no test ended after it.
* The default `onfail` of `delayhelper` calls a function that is not in its scope, and the
  page hangs until batchrun's time-out, if there is one.

**Bounds.** Two browsers are enough to have a slowest and a fastest one; three
kisses give a repeated name with another kiss between; two clients of one
browser are needed for two notices to compete for a holder, and a client of
another for two registrations to interleave. Three tasks allow one to run, one to
be registered by a notice or by `addTask`, and one to wait. For the registry:
a declared key, another id and the null key are the three kinds of key, one page
reaches all of them through the ids it may be told (and with two declared ids a
process that nobody has put yet registers an anonymous browser under its id), two
invokes race with each other and with the watch, two declared ids are a
configuration and its successor. The factory's calls for different names undo each
other and those for one name race: four calls allow both at once.

For the table the one deletable file is that of the kiss between the two of one name; with
the other file deletable too the instance is several times larger.

`Slots` = 2 requests allow an answer to be overtaken by one other; two tasks with three
kisses, one name twice, allow a result to come in the wrong task and a page to call
`done` in the wrong run. The task of another browser between them is current while the
holder still has the first; it has one of the names that are looked up then and lacks the
other. Its holder goes on polling the queue, which takes `current` from the second task too.
One page is enough for that, since the queue is moved by others. `MaxItems` = 4: a module, a test, the test it may disturb and the one
after that. `Crowds` bounds which requests come together: any two threads race in all
their steps, three plain and release requests share the executor; the two files are one
that is there and one that comes late, `Capacity` = 4 is never reached.
`MaxReports` = 3 coverages give a first one, one to merge and a result of a merge to merge
again; `MaxMerges` = 2 stops a holder from adding to the total for ever, after it has done
so twice.

No constraint cuts other behaviours off: all counters are finite by the caps named in the
modules. `browser_watch` uses the symmetry of the two invokes, `coverage_table` that of the
two browsers; neither checks liveness. `probe_session`, `run_page`, `test_runner` and
`coverage_table` switch the check for deadlock off: a session, a crowd of requests, a page and
a table come to an end.

**Fairness.** `ResultTable`: the steps of a *live* browser's holder (the probe's
timer in a working page beats every 20 s, and threads in `isDead` are scheduled)
and the clock. A notice comes to this table only while the holder has its processor, so
nothing makes a holder that has left ask again. Nothing is assumed of the other browsers,
of the author's edits or of other tasks. `TaskDispatch`: server threads (Jetty's pool of 1000 and the
Java scheduler), the requests of live clients, the thread of `addTask`, and the
clock. Nobody has to submit a task. Java monitors are not fair queues; weak
fairness of each step is enough for all properties here because a free
monitor is contended only finitely often in the chains they need. `BrowserWatch`:
server threads, the watch thread, and time for a browser that is not noticed. The
watch enters `check` under strong fairness: clients poll for ever, so the monitor is
taken again and again, but it is free for most of each beat's interval, and a Java
monitor that is free again and again is got in the end. No page, process or invoke
has to do anything. `ProbeSession`: weak fairness of each page's timer and of the deadline;
strong fairness, for each page, of serving some request and of taking some answer, which says
that the network does not lose, and the browser does not crash upon, every single one. No
other browser has to poll. No page in a frame
has to load or to call `done`. `TestRunner`: weak fairness of each kind of timer and event
and of `process`; the library need not come.

## 4. Proofs

The proofs hold for every set of browsers, clients, pages and tasks, every kiss list
and interval, under the named assumptions of the modules: finite non-empty set of
browsers, natural size and interval, `CellOf` idempotent and not below its
argument, `None` and `Main` outside the sets they are added to, functions with the right
domains, files with different names.

`ResultTableProofs`. All changes to a table go through `Advance`, so each
invariant has one lemma about `Advance`, used for `Poll` and for `Store`.

* `TypeCorrect`: the type invariant, which is inductive.
* `DeadlineCorrect`: `DeadlineFollows`, whose parts are inductive together. They rest on `LeastCount` (`getLeastCount` returns an entry that no other is
  below), which uses that the order of the naturals is well-founded, and on success
  counts never going down.
* `CursorCorrect`: `CursorRight`. `HandedAtMostOnce` is not inductive: the strengthening `Untouched` says that nothing at or after the cursor was
  handed out.
* `CountsCorrect`: `FilledAreCounted`, with cardinality arguments about the cells
  that one call of the skip loop fills (`SkippedCells`).
* `ContractKept`: every step of `ResultTable` is a step of `TableContract` or changes
  nothing there; the auxiliary invariant says that a browser past a null
  answer has its cursor at the end.

`TaskDispatchProofs`.

* `TypeCorrect`: `TypeOK` with the fact that `addTask` is inside exactly as long as it
  has holders to reach.
* `QueueCorrect`: `QueueRight`, whose parts need each other:
  that the started task is the next of the submissions rests on the queue being empty
  when nothing is current.
* `HoldersCorrect`: `HoldersRight`. The
  strengthening (`HolderInv`) says that what any thread still has to register are holders
  its task lists, that this task was started, and that a thread inside `notice` owns the
  holder's monitor and finds its processor set.

`HolderFactoryProofs`, for any names and any number of calls.

* `AnswersCorrect`: `AnswersRight`. Every call that has looked has seen the configured names
  (`Kept`), so no `Put` can undo them or make another. `Overlapped` follows a holder that
  was lost before its `Get`: the call that undid it had missed the name.
* `SeenStays`: `StaysOnceSeen`, from the same invariant.

`BrowserWatchProofs`, for any keys, configurations, kinds of invoker and number of invokes.

* `TypeCorrect`: `TypeOK`, with the fact that the watch looks at a key it has still to see
  (`Typed`).
* `OneDeclaredCorrect`: `OneDeclared`, from `DeclInv`. What a thread saw inside the registry's
  monitor is still there when it writes (`SeenStays`), since meanwhile only an invoke puts a
  declared browser, and only the configuration's, which does not change while invokes run.
* `RemovalCorrect`: `RemovesOnlySilent`, from `Silence`: a timed-out browser in the registry was
  not noticed since, nor was the one the watch is about to remove.
* `OneProcessCorrect`: `OneProcess`, from `ProcInv`: as long as nothing is excused, one invoke
  runs at a time (`InTurn`), a process has its browser in the registry or an invoke about to put
  it (`Known`), and an invoke that found none finds none until it puts its own
  (`NothingFound`).

`ProbeSessionProofs`, for any number of pages, requests, tasks and calls of `done`.

* `TypeCorrect`: `TypeOK`, with `Named` (the name a page speaks under is that of the run it
  has started).
* `HeardCorrect`: `HeardAsItself`, from `PageInv`. What it needs besides is that a
  page in the frame is started, about to be replaced, or done with (`Framed`), that a
  started run has its handler bound or used up (`Bound`), and that a request that is alone
  is the only one open (`Alone`).
* `NoneForgottenCorrect`: from `CareInv`, which follows a run from the cursor of the table
  through the lookup into an answer, from there into the page, and out again (`Cared`).
  `Blank` and `Ids` say which requests carry a run at all. That an unresolved run's task is
  not current (`Passed`) stays so because the queue does not go back; that it is so when the
  lookup fails is the table's doing: a run comes from a task that was taken (`Reached`), and
  in its own task its name is found.
* `StrayCorrect`: `StrayTaskShort`, from `CountInv`. A run is in one place at a time, in an
  answer, in a page, in a result or stored (`Once`), and only if it was handed out (`Placed`), so
  its result comes once; and when a task ends it has a run's result or marks it as missing
  (`Settled`). That nothing waits while no task is current, which `CareInv` has, is needed when
  a submission is taken at once.

`RunPageProofs`, for any requests, files, imports and modes.

* `TypeCorrect`: `TypeOK`. It is not inductive, since an add takes the head of what is left to
  add: `Adding` says that there is one.
* `ServedCorrect`: `ServedRight`, from `PageInv`. `Kept` says what the response fields
  of kisses and wrappers may hold at each point, `Rendering` that the thread in `execute` is
  the only one there and that the executor's response is its own or a conflicting
  request's, `Delivered` the same of the pages written. The steps of the structure matter
  to it only through `StructureFrame`.
* `WholeCorrect` and `FailsCorrect`: `StructureWhole` and `FailsOnlyByParse`, from
  `StructureInv`. Its first part, `Order`, says that a parse that meets no other has
  `Project.suites` and its list for itself. Given this, `Come` says of every step of `add`
  how far the list is filled and what is still to add, and that other threads do not change
  it (`OthersKeep`). `ReadInv` says that who reads while no parse is on reads a list that
  stays as it is (`ListStays`), so that its next element is the next file (`NextElement`).
* `PagesCorrect`: `PageLoads`, whatever the imports are, with any cycles (a page that breaks
  off loads nothing). `TailRecursion` says
  that a recursion that calls itself last, each time for something smaller, is a function,
  and `TailInduction` that it ends with what every step keeps; `LeftFalls` gives the number
  that falls in `getDepends`. What every step keeps is `AllRight`: only what the page needs is
  matched (`OnlyNeeded`) and listed once (`OnceEach`); what comes in the work before a file is
  listed, that file needs (`NeededBefore`); what a file imports is matched when it is listed
  (`NothingMissed`); and is before it in the list, or needs it (`InOrder`). `ListStep`,
  `OldStep` and `NewStep` are the three kinds of step, `EndRight` is the end.

`TestRunnerProofs`, for any page, that is any number of modules and tests of any kind; the
fairness is not needed.

* `TypeCorrect`: `TypeOK`, from `Typed`. What the scripts of `UserHelpers` do is in
  `StepFacts`, `StartFacts` and `BodyFacts`: what a script still owes (`Owes`) it makes once,
  and one that keeps to the rules (`Gentle`) ends with its `start()`.
* `TimeoutCorrect`: `TimeoutIsOwn`, with `LoadInv` and `Heads`, which says what is in front of
  the queue while a test is unfinished: there is one such test, and it leaves only when the
  queue runs on.
* `ReportsCorrect`: the action property `DoneAfterAll`: a report needs an empty queue, and the
  calls of each test that was defined are in the queue or done (`QueueInv`).
* `TurnsCorrect`: `TestsInTurn`. As long as the run is orderly there is at most one thing
  that will release a stopped queue (`OneRelease`), and none when it is not stopped
  (`Quiet`), but for the `start()` of the load event before anything has begun (`Fresh`).
  `LibraryInv` says where the first module is until the library has come.
* `CountsCorrect`: `CountedRight`. By `CountInv` what somebody is still going to assert has not
  been asserted (`Unmade`), the assertions of the present test are not counted yet
  (`Uncounted`), and the statistics are the number of those that are; `CountsAdd` is the
  cardinality behind it. `OwnerInv` says whose the assertions and elements of an orderly run
  are.
* `ReportComplete`: `DoneComplete`, from all of these.

`CoverageTableProofs`, for any sequences of scenarios, browsers and clients, and any files and
lines.

* `CoverTypeCorrect`: `CoverTypeOK`. The table changes as a plain one does (`TableStep`), so
  the lemmas of `ResultTableProofs` about `Advance` are used again; the coverages are
  numbers because merges that do not fail meet only lines that both sides have.
* `TableCorrect`: what `ResultTable` promises of deadline, cursor and counts holds of the
  coverage table too, whose calls may fail in `store` and in `isDead`.
* `FailsCorrect`: `FailsOnlyByLines`, from `LinesInv`: the lines of a file in any sum are
  those of that file in some result that came.
* `MergeCorrect`: `MergeRight`. The invariant `SumsInv` says of each coverage, also of one
  that a call of `isDead` has read, that it is `Right` for the results that came: its files are
  those of the results in it, the lines of a file are those that all of these have, and each
  count is the sum of theirs. `RightGiven`, `RightAdd` and `RightMore` say that a coverage
  that comes is right, that a merge of right ones is, and that right ones stay so.
  Sums are folds, in an order that is left to `CHOOSE`. `Adds` says of a function from sets
  to numbers that it is a sum in any order; `AddsExists` builds one, `AddsUnique` says that
  it is the only one and that the fold is it (`FoldIsSum`), and `SumOfSums`, `SumOfPart` and
  `SumOfOne` are what the merges need.
* `EachOnceCorrect`: `EachOnce`, the part of `MergeRight` without arithmetic, from `EachInv`:
  a result is in the list of its browser's coverage exactly when it is marked as added.
* `TotalCorrect`: `TotalRight`. That a browser is in the total twice only if its table was
  not kept needs `TwiceInv`: one that is in the total and that its table no longer knows is
  on its way (`OnItsWay`) to a table that counts it as new. That what is in
  the total stays needs `HasInv`: while a call that overlaps no other writes, nobody is
  between reading the total and writing it back.

The library's induction theorems take an operator, which no installed prover instantiates.
Where an argument needs induction over numbers it is made with sets: `NatSet` is proved
from the well-foundedness of the order on the naturals, which is a statement about sets.

Only model-checked: all liveness and what depends on fairness, which the prover does not
handle; and the violated properties, for which a counterexample is the answer.

## 5. Not modelled

* Start-up and the SAX parsing of `define.xml`: one thread, before the server runs.
* Pages and servlets that only render, utilities, unused classes (`ReadyState`,
  `aTest`, `UpdataCoverageReport`) and operations (`remove`, `clear`, `stopAll`).
* In `testrunner.js`: filters, `equiv`, `jsDump`, the display of results, `moduleStats`; in
  `UserAction.js`: the simulation of mouse and key events, which is synchronous and keeps
  no state; in `probe.js`: `stringify`. They are functions of values that no property here
  tells apart.
* `brtest.js` and `readCoverage.js`, with which a person looks at a list of kisses or a report.
* Nested suites and several projects: they multiply the lists of `ProjectStructure`, which
  are all handled alike and without locks.
* The text of `report.xml` and of coverage reports, and whether a report found on the disk is
  this task's: `ResultTable` starts with none.
* The `Matcher` in `Coverage` is static, so that the tables of two coverage tasks, whose
  monitors differ, may use it at the same time and read each other's text. `CoverageTable` is
  one table, in whose monitor `store` parses.
* The width of the deadline's arithmetic: `1000 * interval * size` is an int and exact below
  500,000 kisses for the default interval of 4 seconds.
* A second `Env` after a restart, whose holders the old watch thread does not know: two
  registries side by side, one of which nobody watches.
* jQuery and Tangram, which are third-party code and most of the lines of script in the
  repository, and `target/`, which holds two more copies of every script.
