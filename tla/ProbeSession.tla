---------------------------- MODULE ProbeSession ----------------------------
(***************************************************************************)
(* Capture pages of one browser (probe.js), the kisses in their frames,    *)
(* and the server that hands the kisses out.  A page beats: it posts the   *)
(* result of the kiss it ran, or nothing, and the answer names the kiss to *)
(* run next.  It beats when it is ready, when the page in its frame calls  *)
(* done, and every 20 seconds, whatever it waits for.  So several requests *)
(* of one page may be open at a time; the server takes them and the page   *)
(* gets their answers in any order, or never.                              *)
(*                                                                         *)
(* A run is a kiss handed out: <<task, position in its list>>.  The server *)
(* knows results by the name of the kiss only.  Its table is ResultTable's *)
(* for one browser, its queue TaskDispatch's.  A request takes two steps   *)
(* there: the notice of the holder, which gives a name, and the lookup of  *)
(* the name in the queue's current task, which any other request, also of  *)
(* another browser, may have moved meanwhile.  Case files that vanish and  *)
(* the inside of a notice are left out here.                               *)
(***************************************************************************)
EXTENDS Naturals, Sequences, FiniteSets

CONSTANTS
  Probes,     \* the capture pages
  Registered, \* those that are opened with an id in their address
  KissList,   \* the list of kiss names of each task, in order of addTask
  Ours,       \* the tasks that list this browser; the rest list others
  Calls,      \* how often the page of each kiss calls done
  Slots       \* the requests a page may have open at a time

Tasks == 1..Len(KissList)
Runs == UNION {{<<t, i>> : i \in 1..Len(KissList[t])} : t \in Tasks}
NoRun == <<0, 0>>
NameOf(r) == KissList[r[1]][r[2]]
Names == {NameOf(r) : r \in Runs}

ASSUME ListsAssumption ==
  /\ KissList \in Seq(Seq(STRING))
  /\ Calls \in [Names -> Nat]
  /\ Registered \subseteq Probes /\ Ours \subseteq Tasks

VARIABLES
  hasId,      \* is probe.browserId set?
  kiss,       \* probe.kiss
  started,    \* the run that probe.starttime belongs to
  bound,      \* is probe.beat bound to the event done?
  timer,      \* probe.timeoutHandle: "new" until the page is ready, then "on"
  frame,      \* the run whose page is in the frame
  turning,    \* the run whose page is loading into the frame
  calls,      \* how often the page in the frame is still going to call done
  requests,   \* the requests of each page
  submitted,  \* how many tasks have been submitted
  taken,      \* how many of them have been taken from the queue
  current,    \* the queue's current task, 0 for null
  processor,  \* the task of the holder's processor, 0 for null
  next,       \* currentIndex of each task's table
  count,      \* successCount of its table
  expired,    \* has its deadline passed?
  sent,       \* history: the runs whose result has been sent
  strays,     \* history: <<page, run>>, results a page gave for another's run
  unheard,    \* history: the runs whose page called done and was not heard
  dropped,    \* history: the runs cut off by an answer
  lost,       \* history: the runs whose answer, page or result was lost
  unresolved, \* history: the runs whose name the current task did not have
  stored,     \* history: <<run, task>>, the results stored
  short       \* history: the runs whose task ended without their result

pageVars == <<hasId, kiss, started, bound, timer, frame, turning, calls>>
serverVars == <<submitted, taken, current, processor, next, count, expired>>
pageHistory == <<sent, strays, unheard, dropped>>
serverHistory == <<stored, short, unresolved>>

vars == <<pageVars, requests, serverVars, pageHistory, lost, serverHistory>>

-----------------------------------------------------------------------------
(* Requests.  `alone`: no other request of the page was open meanwhile. *)

\* A result names a kiss; `run` is the run it is meant for.
Result(name, run) == [name |-> name, run |-> run]
NoResult == Result("", NoRun)

Free == [at |-> "free", result |-> NoResult, answer |-> NoRun, alone |-> TRUE]

\* Answers that name no kiss: the empty one, and the one that gives an id.
Nothing == NoRun
AnId == <<0, 1>>

Open(p) == {s \in Slots : requests[p][s].at # "free"}

\* Two requests that are open at a time are not alone.
Posted(p, slot, result) ==
  [s \in Slots |->
    IF s = slot THEN [at |-> "sent", result |-> result, answer |-> Nothing,
                      alone |-> Open(p) = {}]
    ELSE [requests[p][s] EXCEPT !.alone = @ /\ requests[p][s].at = "free"]]

-----------------------------------------------------------------------------
(* The capture page. *)

\* Mutant: starttime is not deleted, and the next beat reports again.
StartKept(p) == started

StartAfterBeat(p) == [started EXCEPT ![p] = NoRun]

\* Mutant: only a poll starts the timer again.
TimerOfPoll(p) ==
  [timer EXCEPT ![p] = IF started[p] = NoRun THEN "on" ELSE "off"]

TimerAfterBeat(p) == [timer EXCEPT ![p] = "on"]

ResultOf(p) ==
  IF started[p] = NoRun THEN NoResult ELSE Result(kiss[p], started[p])

\* One heartbeat.
Beat(p) ==
  /\ \E s \in Slots \ Open(p) :
       requests' = [requests EXCEPT ![p] = Posted(p, s, ResultOf(p))]
  /\ started' = StartAfterBeat(p)
  /\ timer' = TimerAfterBeat(p)
  /\ sent' = sent \union ({started[p]} \ {NoRun})

Ready(p) ==
  /\ timer[p] = "new"
  /\ Beat(p)
  /\ UNCHANGED <<hasId, kiss, bound, frame, turning, calls, serverVars,
                 strays, unheard, dropped, lost, serverHistory>>

\* The 20 seconds since the last beat are over.
TimerBeat(p) ==
  /\ timer[p] = "on"
  /\ Beat(p)
  /\ UNCHANGED <<hasId, kiss, bound, frame, turning, calls, serverVars,
                 strays, unheard, dropped, lost, serverHistory>>

\* The page in the frame calls done (ext_qunit.js), which counts if the probe
\* has bound its handler.  The handler runs once.
FrameDone(p) ==
  /\ frame[p] # NoRun /\ calls[p] > 0
  /\ calls' = [calls EXCEPT ![p] = @ - 1]
  /\ bound' = [bound EXCEPT ![p] = FALSE]
  /\ IF bound[p]
     THEN /\ Beat(p)
          /\ strays' = strays \union
               (IF started[p] \in {NoRun, frame[p]} THEN {}
                ELSE {<<frame[p], started[p]>>})
     ELSE UNCHANGED <<requests, started, timer, sent, strays>>
  /\ unheard' = unheard \union
       (IF bound[p] /\ started[p] = frame[p] THEN {} ELSE {frame[p]} \ sent)
  /\ UNCHANGED <<hasId, kiss, frame, turning, serverVars, dropped, lost,
                 serverHistory>>

\* The frame shows the page of its new address.
FrameLoads(p) ==
  /\ turning[p] # NoRun
  /\ frame' = [frame EXCEPT ![p] = turning[p]]
  /\ turning' = [turning EXCEPT ![p] = NoRun]
  /\ calls' = [calls EXCEPT ![p] = Calls[NameOf(turning[p])]]
  /\ UNCHANGED <<hasId, kiss, started, bound, timer, requests, serverVars,
                 pageHistory, lost, serverHistory>>

\* Mutant: the name is taken from the address of a new frame only.
KissOfFrame(p, r) == IF frame[p] = NoRun /\ turning[p] = NoRun
                     THEN [kiss EXCEPT ![p] = NameOf(r)] ELSE kiss

KissAfterRun(p, r) == [kiss EXCEPT ![p] = NameOf(r)]

\* Mutant: the handler is bound when the frame is made.
BoundWithFrame(p) == [bound EXCEPT ![p] = frame[p] = NoRun /\ turning[p] = NoRun]

BoundAfterRun(p) == [bound EXCEPT ![p] = TRUE]

\* Mutant: the clock of a kiss starts when the frame is made.
StartWithFrame(p, r) ==
  [started EXCEPT ![p] = IF frame[p] = NoRun /\ turning[p] = NoRun THEN r ELSE @]

StartAfterRun(p, r) == [started EXCEPT ![p] = r]

\* runtest with an address.
RunTest(p, s, r) ==
  /\ kiss' = KissAfterRun(p, r)
  /\ bound' = BoundAfterRun(p)
  /\ started' = StartAfterRun(p, r)
  /\ turning' = [turning EXCEPT ![p] = r]
  /\ dropped' = dropped \union
       (IF requests[p][s].alone THEN {} ELSE {started[p]} \ {NoRun})
  /\ UNCHANGED <<hasId, timer, frame, calls, sent, strays, unheard>>

\* runtest without one takes the frame away; the handler and the clock stay.
RemoveFrame(p) ==
  /\ frame' = [frame EXCEPT ![p] = NoRun]
  /\ turning' = [turning EXCEPT ![p] = NoRun]
  /\ calls' = [calls EXCEPT ![p] = 0]
  /\ UNCHANGED <<hasId, kiss, started, bound, timer, pageHistory>>

\* The page as a new document.  Nothing of the old one is left.
Reset(p) ==
  /\ kiss' = [kiss EXCEPT ![p] = ""]
  /\ started' = [started EXCEPT ![p] = NoRun]
  /\ bound' = [bound EXCEPT ![p] = FALSE]
  /\ timer' = [timer EXCEPT ![p] = "new"]
  /\ frame' = [frame EXCEPT ![p] = NoRun]
  /\ turning' = [turning EXCEPT ![p] = NoRun]
  /\ calls' = [calls EXCEPT ![p] = 0]
  /\ requests' = [requests EXCEPT ![p] = [s \in Slots |-> Free]]
  /\ UNCHANGED pageHistory

\* The runs that go with a request that is lost.
RunsOf(request) == {request.result.run, request.answer} \intersect Runs

InRequests(p) == UNION {RunsOf(requests[p][s]) : s \in Slots}

LostWith(p) == InRequests(p) \union ({started[p]} \intersect Runs)

\* The answer arrives: register(id) opens the page anew, runtest runs a kiss.
Answer(p, s) ==
  /\ requests[p][s].at = "answered"
  /\ LET answer == requests[p][s].answer
     IN IF answer = AnId
        THEN Reset(p) /\ hasId' = [hasId EXCEPT ![p] = TRUE]
        ELSE /\ requests' = [requests EXCEPT ![p][s] = Free]
             /\ IF answer = Nothing THEN RemoveFrame(p) ELSE RunTest(p, s, answer)
  /\ UNCHANGED <<serverVars, lost, serverHistory>>

\* The browser crashes or is restarted and opens the page again.
Reopen(p) ==
  /\ timer[p] = "on"
  /\ Reset(p)
  /\ lost' = lost \union LostWith(p)
  /\ UNCHANGED <<hasId, serverVars, serverHistory>>

-----------------------------------------------------------------------------
(* The network and the server. *)

Lose(p, s) ==
  /\ requests[p][s].at # "free"
  /\ requests' = [requests EXCEPT ![p][s] = Free]
  /\ lost' = lost \union RunsOf(requests[p][s])
  /\ UNCHANGED <<pageVars, serverVars, pageHistory, serverHistory>>

Size == Len(KissList[processor])
Capped(n) == IF n > Size THEN Size + 1 ELSE n

\* Mutant: the first kiss of a task is not found.
HasNameLater(t, name) == \E i \in 2..Len(KissList[t]) : KissList[t][i] = name

\* getIndex is not -1.
HasName(t, name) == \E i \in 1..Len(KissList[t]) : KissList[t][i] = name

Known(result) == HasName(processor, result.name)

\* What the request has next: an answer that is on its way to the page, or a
\* name that has still to be looked up.
Proceed(p, s, at, answer) ==
  requests' = [requests EXCEPT ![p][s] =
                 [at |-> at, result |-> NoResult, answer |-> answer,
                  alone |-> @.alone]]

Reply(p, s, answer) == Proceed(p, s, "answered", answer)

Fail(p, s) == requests' = [requests EXCEPT ![p][s] = Free]

\* A page without an id is registered and learns its id.
Register(p, s) ==
  /\ requests[p][s].at = "sent" /\ ~ hasId[p]
  /\ Reply(p, s, AnId)
  /\ UNCHANGED <<pageVars, serverVars, pageHistory, lost, serverHistory>>

\* Nothing is to do: a result is not even looked at.
IdleNotice(p, s) ==
  /\ requests[p][s].at = "sent" /\ hasId[p] /\ processor = 0
  /\ Reply(p, s, Nothing)
  /\ UNCHANGED <<pageVars, serverVars, pageHistory, lost, serverHistory>>

\* store throws if the table has no kiss of that name; the request fails.
UnknownNotice(p, s) ==
  /\ requests[p][s].at = "sent" /\ hasId[p] /\ processor # 0
  /\ requests[p][s].result # NoResult /\ ~ Known(requests[p][s].result)
  /\ Fail(p, s)
  /\ UNCHANGED <<pageVars, serverVars, pageHistory, lost, serverHistory>>

Stores(p, s) == requests[p][s].result # NoResult

\* Mutant: only a complete table is dead.
DeadWhenComplete(counted, late) == counted > Size

\* isDead: the deadline has passed or more results than kisses came.
Dead(counted, late) == late \/ counted > Size

\* queue.poll: the next of n tasks, 0 for null.
Polled(n) == IF taken < n THEN taken + 1 ELSE 0

\* Mutant: the next task is looked at and stays in the queue.
StartPeeks(t, otherwise, counted, late) ==
  /\ processor' = IF t \in Ours THEN t ELSE otherwise
  /\ current' = t /\ count' = 0 /\ expired' = FALSE
  /\ UNCHANGED <<taken, short>>

\* What was polled is current.  A task that lists this browser is given to its
\* holder, whatever that one does; otherwise the holder has `otherwise`.  A
\* table the holder leaves is not asked again.
Start(t, otherwise, counted, late) ==
  LET now == IF t \in Ours THEN t ELSE otherwise
      missing == {r \in Runs : r[1] = processor /\ <<r, processor>> \notin stored'}
      stays == now = processor
  IN /\ current' = t
     /\ taken' = IF t = 0 THEN taken ELSE t
     /\ processor' = now
     /\ count' = IF stays THEN counted ELSE 0
     /\ expired' = (stays /\ late)
     /\ short' = IF stays THEN short ELSE short \union missing

\* notice: store the result, then the next kiss of the list, or isDead and the
\* next task of the queue.  A result renews the deadline.
Notice(p, s) ==
  LET result == requests[p][s].result
      counted == IF Stores(p, s) THEN Capped(count + 1) ELSE count
      late == expired /\ counted = count
      free == Polled(submitted)
  IN
  /\ requests[p][s].at = "sent" /\ hasId[p] /\ processor # 0
  /\ Stores(p, s) => Known(result)
  /\ stored' = stored \union
                 (IF Stores(p, s) THEN {<<result.run, processor>>} ELSE {})
  /\ IF next[processor] <= Size
     THEN /\ Proceed(p, s, "named", <<processor, next[processor]>>)
          /\ next' = [next EXCEPT ![processor] = @ + 1]
     ELSE /\ Reply(p, s, Nothing)
          /\ UNCHANGED next
  /\ IF next[processor] > Size /\ Dead(counted, late)
     THEN Start(free, IF free = 0 THEN 0 ELSE processor, counted, late)
     ELSE /\ count' = counted /\ expired' = late
          /\ UNCHANGED <<taken, current, processor, short>>
  /\ UNCHANGED <<pageVars, submitted, pageHistory, lost, unresolved>>

\* CaptureHandler, outside the holder's monitor: the name is looked up in the
\* task that is current NOW.  Without one the answer is empty; one that has no
\* kiss of the name makes the request fail.  The kiss found may be another
\* task's: what the page runs and reports goes by the name.
Resolve(p, s) ==
  LET run == requests[p][s].answer
      found == current # 0 /\ HasName(current, NameOf(run))
  IN
  /\ requests[p][s].at = "named"
  /\ \/ found /\ Reply(p, s, run)
     \/ current = 0 /\ Reply(p, s, Nothing)
     \/ current # 0 /\ ~ found /\ Fail(p, s)
  /\ unresolved' = IF found THEN unresolved ELSE unresolved \union {run}
  /\ UNCHANGED <<pageVars, serverVars, pageHistory, lost, stored, short>>

\* The server takes a request, or goes on with it.
Serve(p, s) == \/ Register(p, s) \/ IdleNotice(p, s) \/ UnknownNotice(p, s)
               \/ Notice(p, s) \/ Resolve(p, s)

\* A holder of another browser, which a task was given to that this browser is
\* not listed in, finds its table dead and polls the queue.
OthersTake ==
  /\ \E t \in 1..taken : t \notin Ours
  /\ UNCHANGED stored
  /\ Start(Polled(submitted), processor, count, expired)
  /\ UNCHANGED <<pageVars, requests, submitted, next, pageHistory, lost,
                 unresolved>>

\* The deadline of the table passes.
Expire ==
  /\ processor # 0 /\ ~ expired
  /\ expired' = TRUE
  /\ UNCHANGED <<pageVars, requests, submitted, taken, current, processor, next,
                 count, pageHistory, lost, serverHistory>>

\* A task is submitted.  If none is current, the queue is polled at once.
AddTask ==
  /\ submitted < Len(KissList)
  /\ submitted' = submitted + 1
  /\ UNCHANGED stored
  /\ IF current = 0
     THEN Start(Polled(submitted'), processor, count, expired)
     ELSE UNCHANGED <<taken, current, processor, count, expired, short>>
  /\ UNCHANGED <<pageVars, requests, next, pageHistory, lost, unresolved>>

\* /restart, allowed if no task waits.  The requests that are open fail; the
\* holders, their tables and the current task outlive the restart.
Restart ==
  /\ taken = submitted
  /\ \E p \in Probes : Open(p) # {}
  /\ requests' = [p \in Probes |-> [s \in Slots |-> Free]]
  /\ lost' = lost \union UNION {InRequests(p) : p \in Probes}
  /\ UNCHANGED <<pageVars, serverVars, pageHistory, serverHistory>>

-----------------------------------------------------------------------------
Init ==
  /\ hasId = [p \in Probes |-> p \in Registered]
  /\ kiss = [p \in Probes |-> ""]
  /\ started = [p \in Probes |-> NoRun]
  /\ bound = [p \in Probes |-> FALSE]
  /\ timer = [p \in Probes |-> "new"]
  /\ frame = [p \in Probes |-> NoRun]
  /\ turning = [p \in Probes |-> NoRun]
  /\ calls = [p \in Probes |-> 0]
  /\ requests = [p \in Probes |-> [s \in Slots |-> Free]]
  /\ submitted = 0 /\ taken = 0 /\ current = 0 /\ processor = 0
  /\ next = [t \in Tasks |-> 1] /\ count = 0 /\ expired = FALSE
  /\ sent = {} /\ strays = {} /\ unheard = {} /\ dropped = {}
  /\ lost = {} /\ stored = {} /\ short = {} /\ unresolved = {}

PageStep(p) == \/ Ready(p) \/ TimerBeat(p) \/ FrameDone(p) \/ FrameLoads(p)
               \/ Reopen(p)
               \/ \E s \in Slots : Answer(p, s)

NetStep(p) == \E s \in Slots : Lose(p, s) \/ Serve(p, s)

Next == \/ \E p \in Probes : PageStep(p) \/ NetStep(p)
        \/ Expire \/ AddTask \/ OthersTake \/ Restart

Safety == Init /\ [][Next]_vars

\* Timers fire and deadlines pass; the network does not lose every request and
\* answer of a page, and the browser does not crash before each.
Fairness ==
  /\ \A p \in Probes : /\ WF_vars(Ready(p) \/ TimerBeat(p))
                       /\ SF_vars(\E s \in Slots : Answer(p, s))
                       /\ SF_vars(\E s \in Slots : Serve(p, s))
  /\ WF_vars(Expire)

Spec == Safety /\ Fairness

-----------------------------------------------------------------------------
(* Properties *)

Requests ==
  [at : {"free", "sent", "answered"},
   result : {NoResult} \union [name : Names, run : Runs],
   answer : Runs \union {Nothing, AnId}, alone : BOOLEAN]
  \union [at : {"named"}, result : {NoResult}, answer : Runs, alone : BOOLEAN]

PageTypeOK ==
  /\ hasId \in [Probes -> BOOLEAN]
  /\ kiss \in [Probes -> Names \union {""}]
  /\ started \in [Probes -> Runs \union {NoRun}]
  /\ bound \in [Probes -> BOOLEAN] /\ timer \in [Probes -> {"new", "on"}]
  /\ frame \in [Probes -> Runs \union {NoRun}]
  /\ turning \in [Probes -> Runs \union {NoRun}]
  /\ calls \in [Probes -> Nat]

ServerTypeOK ==
  /\ submitted \in 0..Len(KissList) /\ taken \in 0..submitted
  /\ current \in {0, taken} /\ processor \in {0} \union (Ours \intersect 1..taken)
  /\ next \in [Tasks -> Nat \ {0}] /\ count \in Nat /\ expired \in BOOLEAN

HistoryTypeOK ==
  /\ sent \subseteq Runs /\ strays \subseteq Runs \X Runs
  /\ unheard \subseteq Runs /\ dropped \subseteq Runs /\ lost \subseteq Runs
  /\ stored \subseteq Runs \X Tasks /\ short \subseteq Runs
  /\ unresolved \subseteq Runs

TypeOK == /\ PageTypeOK /\ ServerTypeOK /\ HistoryTypeOK
          /\ requests \in [Probes -> [Slots -> Requests]]

\* A page speaks under the name of the kiss it is itself, except a page that
\* has been reported or cut off before (by its timer, by an earlier call of
\* done, by a second answer) and calls done before the next page is loaded.
\* Each result is sent under the name of the run whose clock it stops.
OwnResult ==
  /\ \A p \in Probes : started[p] # NoRun => kiss[p] = NameOf(started[p])
  /\ \A stray \in strays : stray[1] \in sent \union dropped

\* A page that calls done for the first time is heard, unless its kiss has
\* been reported or cut off already.
DoneHeard == \A r \in unheard : r \in sent \union dropped

\* A page is heard, and heard as itself, unless it was given up before.
HeardAsItself == OwnResult /\ DoneHeard

Answered(r) == \E p \in Probes, s \in Slots : requests[p][s].answer = r

Running(r) == \E p \in Probes : started[p] = r

Handed(r) == r[2] < next[r[1]]

\* A kiss that was handed out is reported, unless the network or the browser
\* lost it, two requests of the page overlapped (the timer does not wait for
\* the answer; an answer to a request that was alone cuts no kiss off), or its
\* name was not found between the two looks of one request.  That happens only
\* if another request has moved the queue from the task meanwhile, or before.
NoneForgotten ==
  /\ \A r \in Runs :
       Handed(r) /\ r \notin sent \union lost \union dropped \union unresolved
         => Answered(r) \/ Running(r)
  /\ \A r \in unresolved : r[1] # current

\* A result counts for a task that did not hand the kiss out only if its own
\* task was given up before it came (the server knows names only).
StrayTaskShort ==
  \A pair \in stored : pair[1][1] # pair[2] => pair[1] \in short

\* The clock of a page stops again and again: no kiss, whatever its page does,
\* holds the probe for ever.
RunsEnd == \A p \in Probes : []<>(started[p] = NoRun)

\* Every task ends, as long as a page polls and whatever is lost.
TasksEnd == <>[](processor = 0)

\* Whatever hangs or is lost, both ends get on: runs at the page and tasks at
\* the server.
AllEnds == RunsEnd /\ TasksEnd
=============================================================================
