---------------------------- MODULE UserHelpers ----------------------------
(***************************************************************************)
(* How a test that has called stop() gets to its assertion and to start(): *)
(* by a callback of its own, or through one of the asynchronous helpers of *)
(* UserAction.js.  A script is a record that says where the helper is; the *)
(* timers and events of the browser take it to the next one (Steps), in    *)
(* any order, and some steps make the assertion of the test or call        *)
(* start().  This module has no state: TestRunner keeps one script for     *)
(* each test.                                                              *)
(*                                                                         *)
(* What a helper waits for (an element, a style sheet, a global) comes at  *)
(* any time or never.  Each list or queue has two functions, the last of   *)
(* which makes the assertion.                                              *)
(***************************************************************************)
EXTENDS Naturals, Sequences

\* at: the helper; left: what it has still to do; nexts: pending timers of a
\* function list; running: its functions that have not called next yet.
Script(at, left, nexts, running) ==
  [at |-> at, left |-> left, nexts |-> nexts, running |-> running]

Idle == Script("none", 0, 0, 0)
Stuck == Script("stuck", 0, 0, 0)
Callback == Script("callback", 0, 0, 0)

\* One step: the script it leaves, the assertion made ("ok", "bad" or "none"),
\* and the number of calls of start().
Outcome(script, made, released) ==
  [script |-> script, made |-> made, released |-> released]

\* The test's own callback: assertions, then start().
CallbackRuns(s) == {Outcome(Idle, "ok", 1)}

-----------------------------------------------------------------------------
(***************************************************************************)
(* delayhelper: an interval polls oncheck and a time-out gives up; the     *)
(* first of the two clears both.  An onfail of the test's own starts the   *)
(* runner again.  The default one calls `fail`, which is no global of the  *)
(* page, and the ReferenceError skips its start().                         *)
(***************************************************************************)
\* Mutant: success clears the interval only, so that the time-out still fires.
DelayLeavesTimeout(s) == {Outcome(Callback, "ok", 1)}

DelaySucceeds(s) == {Outcome(Idle, "ok", 1)}

DelayFails(s) == IF s.at = "delay" THEN {Outcome(Idle, "bad", 1)}
                                   ELSE {Outcome(Stuck, "none", 0)}

(***************************************************************************)
(* functionListHelper: each trigger of `next` sets a timer; the timer runs *)
(* the next function of the list or, if there is none, start().  The       *)
(* functions call next themselves, "listTwice" is a list whose first one   *)
(* does so twice.                                                          *)
(***************************************************************************)
\* Mutant: the function that empties the list starts the runner at once.
ListStartsEarly(s) ==
  IF s.nexts = 0 THEN {}
  ELSE IF s.left = 0 THEN {Outcome([s EXCEPT !.nexts = @ - 1], "none", 1)}
  ELSE {Outcome([s EXCEPT !.nexts = @ - 1, !.left = @ - 1, !.running = @ + 1],
                IF s.left = 1 THEN "ok" ELSE "none",
                IF s.left = 1 THEN 1 ELSE 0)}

ListTimer(s) ==
  IF s.nexts = 0 THEN {}
  ELSE IF s.left = 0
       THEN {Outcome(IF s.nexts + s.running = 1 THEN Idle
                     ELSE [s EXCEPT !.nexts = @ - 1], "none", 1)}
       ELSE {Outcome([s EXCEPT !.nexts = @ - 1, !.left = @ - 1,
                               !.running = @ + 1],
                     IF s.left = 1 THEN "ok" ELSE "none", 0)}

ListNext(s) ==
  IF s.running = 0 THEN {}
  ELSE LET calls == IF s.at = "listTwice" /\ s.left = 1 THEN 2 ELSE 1
       IN {Outcome([s EXCEPT !.running = @ - 1, !.nexts = @ + calls],
                   "none", 0)}

-----------------------------------------------------------------------------
(***************************************************************************)
(* fnQueue: next takes the delay off the first function and sets a timer   *)
(* that calls next again, which runs the function and goes on to the one   *)
(* after it.  A function without a delay runs along with the one before.   *)
(***************************************************************************)
\* Mutant: next does not take the function off the list.
QueueKeepsFunction(s) ==
  {Outcome(IF s.left > 1 THEN [s EXCEPT !.left = @ - 1] ELSE Callback,
           IF s.left > 1 THEN "none" ELSE "ok", IF s.left > 1 THEN 0 ELSE 1)}

QueueTimer(s) ==
  {IF s.left > 1 THEN Outcome([s EXCEPT !.left = @ - 1], "none", 0)
                 ELSE Outcome(Idle, "ok", 1)}

\* importsrc polls until the global it imports exists and calls back.
ImportArrives(s) == {Outcome(Idle, "ok", 1)}

\* Polls or timers with nothing but a next one behind them: frameExt (load,
\* the poll for baidu in the frame, ontest, the timer of finish), loadcss (the
\* poll for the style, a timer) and dragto (four events, three timers apart).
ChainStep(s) ==
  IF s.left > 0
  THEN {Outcome([s EXCEPT !.left = @ - 1],
                IF s.at = "frame" /\ s.left = 1 THEN "ok" ELSE "none", 0)}
  ELSE {Outcome(Idle, IF s.at = "frame" THEN "none" ELSE "ok", 1)}

Steps(s) ==
  CASE s.at = "callback" -> CallbackRuns(s)
    [] s.at \in {"delay", "delayDefault"} -> DelaySucceeds(s) \union DelayFails(s)
    [] s.at \in {"list", "listTwice"} -> ListTimer(s) \union ListNext(s)
    [] s.at = "queue" -> QueueTimer(s)
    [] s.at = "import" -> ImportArrives(s)
    [] s.at \in {"frame", "css", "drag"} -> ChainStep(s)
    [] OTHER -> {}
=============================================================================
