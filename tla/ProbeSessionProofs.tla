------------------------- MODULE ProbeSessionProofs -------------------------
(***************************************************************************)
(* Theorems about ProbeSession, for any pages, tasks, slots and numbers of *)
(* calls of done.                                                          *)
(***************************************************************************)
EXTENDS ProbeSession, TLAPS

-----------------------------------------------------------------------------
(* Runs, and the answers that are none. *)

LEMMA RunFacts ==
  /\ NoRun \notin Runs /\ AnId \notin Runs /\ AnId # NoRun
  /\ \A r \in Runs : /\ r[1] \in Tasks /\ r[2] \in 1..Len(KissList[r[1]])
                     /\ r = <<r[1], r[2]>>
  /\ \A t \in Tasks, i \in Nat \ {0} : i <= Len(KissList[t]) => <<t, i>> \in Runs
  /\ \A r \in Runs : NameOf(r) \in Names
<1>1. \A r \in Runs : \E t \in Tasks : \E i \in 1..Len(KissList[t]) : r = <<t, i>>
  BY DEF Runs
<1>2. \A t \in Tasks : t \in Nat /\ t >= 1 /\ Len(KissList[t]) \in Nat
  BY ListsAssumption DEF Tasks
<1>3. \A t \in Tasks, i \in Nat \ {0} : i <= Len(KissList[t]) => <<t, i>> \in Runs
  BY <1>2 DEF Runs
<1> QED BY <1>1, <1>2, <1>3 DEF NoRun, AnId, Names

LEMMA ListsLength == Len(KissList) \in Nat
BY ListsAssumption

\* The page speaks under the name of the run it has started.
Named == \A p \in Probes : started[p] # NoRun => kiss[p] = NameOf(started[p])

Typed == TypeOK /\ Named

\* The server goes on with a request: a name to look up, or an answer.
GoesOn(p, s, at, answer) ==
  /\ Proceed(p, s, at, answer)
  /\ \/ at = "answered" /\ answer \in Runs \union {Nothing, AnId}
     \/ at = "named" /\ answer \in Runs

LEMMA ReplyGoesOn ==
  \A p \in Probes, s \in Slots, answer \in Runs \union {Nothing, AnId} :
    Reply(p, s, answer) => GoesOn(p, s, "answered", answer)
BY DEF Reply, GoesOn

\* What Proceed and Posted make of the requests.
LEMMA ReplyFacts ==
  ASSUME Typed, NEW p \in Probes, NEW s \in Slots, NEW at, NEW answer,
         GoesOn(p, s, at, answer)
  PROVE  /\ requests' \in [Probes -> [Slots -> Requests]]
         /\ requests'[p][s] = [at |-> at, result |-> NoResult,
                               answer |-> answer, alone |-> requests[p][s].alone]
         /\ \A q \in Probes, k \in Slots : ~ (q = p /\ k = s)
              => requests'[q][k] = requests[q][k]
<1>1. requests \in [Probes -> [Slots -> Requests]] /\ requests[p][s] \in Requests
  BY DEF Typed, TypeOK
<1>2. requests[p][s].alone \in BOOLEAN
  BY <1>1 DEF Requests
<1>3. [at |-> at, result |-> NoResult, answer |-> answer,
       alone |-> requests[p][s].alone] \in Requests
  BY <1>2 DEF Requests, GoesOn
<1>4. requests' = [requests EXCEPT ![p][s] =
        [at |-> at, result |-> NoResult, answer |-> answer,
         alone |-> requests[p][s].alone]]
  BY DEF GoesOn, Proceed
<1> QED BY <1>1, <1>3, <1>4

LEMMA ReplyFields ==
  ASSUME Typed, NEW p \in Probes, NEW s \in Slots, NEW at, NEW answer,
         GoesOn(p, s, at, answer)
  PROVE  /\ requests'[p][s].at = at /\ requests'[p][s].answer = answer
         /\ requests'[p][s].result = NoResult
         /\ requests'[p][s].alone = requests[p][s].alone
         /\ \A q \in Probes, k \in Slots : ~ (q = p /\ k = s)
              => requests'[q][k] = requests[q][k]
<1>1. requests'[p][s] = [at |-> at, result |-> NoResult,
                         answer |-> answer, alone |-> requests[p][s].alone]
  BY ReplyFacts
<1>2. /\ requests'[p][s].at = at /\ requests'[p][s].answer = answer
      /\ requests'[p][s].result = NoResult
      /\ requests'[p][s].alone = requests[p][s].alone
  BY <1>1
<1>3. \A q \in Probes, k \in Slots : ~ (q = p /\ k = s)
        => requests'[q][k] = requests[q][k]
  BY ReplyFacts
<1> QED BY <1>2, <1>3

LEMMA FreeType == Free \in Requests
BY DEF Free, Requests, Nothing

\* A beat posts the result of the run that was started, or none, in a free slot.
LEMMA BeatFacts ==
  ASSUME Typed, NEW p \in Probes, Beat(p)
  PROVE  \E s \in Slots :
           /\ requests[p][s].at = "free"
           /\ requests' = [requests EXCEPT ![p] = Posted(p, s, ResultOf(p))]
           /\ Posted(p, s, ResultOf(p)) \in [Slots -> Requests]
           /\ \A k \in Slots : requests[p][k] \in Requests
<1>1. PICK s \in Slots \ Open(p) :
        requests' = [requests EXCEPT ![p] = Posted(p, s, ResultOf(p))]
  BY DEF Beat
<1>2. \A k \in Slots : requests[p][k] \in Requests
  BY DEF Typed, TypeOK, PageTypeOK, ServerTypeOK, HistoryTypeOK
<1>3. ResultOf(p) \in {NoResult} \union [name : Names, run : Runs]
  <2>1. CASE started[p] # NoRun
    <3>1. started[p] \in Runs /\ kiss[p] \in Names
      <4>1. started[p] \in Runs
        BY <2>1 DEF Typed, TypeOK, PageTypeOK, ServerTypeOK, HistoryTypeOK
      <4>2. kiss[p] = NameOf(started[p])
        BY <2>1 DEF Typed, Named
      <4> QED BY <4>1, <4>2, RunFacts
    <3> QED BY <2>1, <3>1 DEF ResultOf, Result
  <2> QED BY <2>1 DEF ResultOf
<1>4. [at |-> "sent", result |-> ResultOf(p), answer |-> Nothing,
       alone |-> Open(p) = {}] \in Requests
  BY <1>3 DEF Requests
<1>5. \A k \in Slots :
        [requests[p][k] EXCEPT !.alone = @ /\ requests[p][k].at = "free"] \in Requests
  BY <1>2 DEF Requests
<1>6. Posted(p, s, ResultOf(p)) \in [Slots -> Requests]
  BY <1>4, <1>5 DEF Posted
<1> QED BY <1>1, <1>2, <1>6 DEF Open

LEMMA BeatTypes ==
  ASSUME Typed, NEW p \in Probes, Beat(p)
  PROVE  /\ requests' \in [Probes -> [Slots -> Requests]]
         /\ started' \in [Probes -> Runs \union {NoRun}]
         /\ timer' \in [Probes -> {"new", "on"}]
         /\ sent' \subseteq Runs
         /\ \A q \in Probes : started'[q] # NoRun => started'[q] = started[q]
<1>1. requests' \in [Probes -> [Slots -> Requests]]
  BY BeatFacts DEF Typed, TypeOK, PageTypeOK, ServerTypeOK, HistoryTypeOK
<1> QED BY <1>1 DEF Beat, StartAfterBeat, TimerAfterBeat, Typed, TypeOK, PageTypeOK, ServerTypeOK, HistoryTypeOK

LEMMA ResetTypes ==
  ASSUME Typed, NEW p \in Probes, Reset(p), hasId' \in [Probes -> BOOLEAN],
         UNCHANGED <<serverVars, serverHistory>>, lost' \subseteq Runs
  PROVE  Typed'
<1>1. [s \in Slots |-> Free] \in [Slots -> Requests]
  BY FreeType
<1>2. requests' \in [Probes -> [Slots -> Requests]]
  BY <1>1 DEF Reset, Typed, TypeOK, PageTypeOK, ServerTypeOK, HistoryTypeOK
<1> QED BY <1>2 DEF Reset, pageHistory, serverVars, serverHistory, Typed, TypeOK, PageTypeOK, ServerTypeOK, HistoryTypeOK,
                    Named, Names, Tasks

LEMMA PageTypes ==
  ASSUME Typed, NEW p \in Probes, PageStep(p)
  PROVE  Typed'
<1>1. CASE Ready(p) \/ TimerBeat(p)
  <2>1. Beat(p)
    BY <1>1 DEF Ready, TimerBeat
  <2> QED BY <1>1, <2>1, BeatTypes
          DEF Ready, TimerBeat, serverVars, serverHistory, Typed, TypeOK, PageTypeOK, ServerTypeOK, HistoryTypeOK, Named
<1>2. CASE FrameDone(p)
  <2>1. frame[p] \in Runs /\ calls[p] \in Nat /\ calls[p] > 0
    BY <1>2 DEF FrameDone, Typed, TypeOK, PageTypeOK, ServerTypeOK, HistoryTypeOK
  <2>2. /\ calls' \in [Probes -> Nat] /\ bound' \in [Probes -> BOOLEAN]
        /\ unheard' \subseteq Runs
    <3>1. calls[p] - 1 \in Nat
      BY <2>1
    <3>2. unheard \subseteq Runs /\ bound \in [Probes -> BOOLEAN]
          /\ calls \in [Probes -> Nat]
      BY DEF Typed, TypeOK, PageTypeOK, ServerTypeOK, HistoryTypeOK
    <3> QED BY <1>2, <2>1, <3>1, <3>2 DEF FrameDone
  <2>3. CASE bound[p]
    <3>1. Beat(p)
      BY <1>2, <2>3 DEF FrameDone
    <3>2. /\ strays \subseteq Runs \X Runs
          /\ started[p] \in Runs \union {NoRun}
      BY DEF Typed, TypeOK, PageTypeOK, ServerTypeOK, HistoryTypeOK
    <3>3. strays' \subseteq Runs \X Runs
      BY <1>2, <2>1, <2>3, <3>2 DEF FrameDone
    <3> QED BY <1>2, <2>2, <3>1, <3>3, BeatTypes
            DEF FrameDone, serverVars, serverHistory, Typed, TypeOK, PageTypeOK, ServerTypeOK, HistoryTypeOK, Named
  <2>4. CASE ~ bound[p]
    BY <1>2, <2>2, <2>4
       DEF FrameDone, serverVars, serverHistory, Typed, TypeOK, PageTypeOK, ServerTypeOK, HistoryTypeOK, Named
  <2> QED BY <2>3, <2>4
<1>3. CASE FrameLoads(p)
  <2>1. NameOf(turning[p]) \in Names
    BY <1>3, RunFacts DEF FrameLoads, Typed, TypeOK, PageTypeOK, ServerTypeOK, HistoryTypeOK
  <2>2. Calls[NameOf(turning[p])] \in Nat
    BY <2>1, ListsAssumption
  <2> QED BY <1>3, <2>2 DEF FrameLoads, serverVars, pageHistory, serverHistory,
                            Typed, TypeOK, PageTypeOK, ServerTypeOK, HistoryTypeOK, Named
<1>4. CASE Reopen(p)
  <2>1. LostWith(p) \subseteq Runs
    BY DEF LostWith, InRequests, RunsOf
  <2>2. Reset(p) /\ hasId' \in [Probes -> BOOLEAN]
        /\ UNCHANGED <<serverVars, serverHistory>> /\ lost' \subseteq Runs
    BY <1>4, <2>1 DEF Reopen, Typed, TypeOK, PageTypeOK, ServerTypeOK, HistoryTypeOK
  <2> QED BY <2>2, ResetTypes
<1>5. ASSUME NEW s \in Slots, Answer(p, s) PROVE Typed'
  <2>1. CASE requests[p][s].answer = AnId
    <3>1. Reset(p) /\ hasId' \in [Probes -> BOOLEAN]
          /\ UNCHANGED <<serverVars, serverHistory>> /\ lost' \subseteq Runs
      BY <1>5, <2>1 DEF Answer, Typed, TypeOK, PageTypeOK, ServerTypeOK, HistoryTypeOK
    <3> QED BY <3>1, ResetTypes
  <2>2. CASE requests[p][s].answer # AnId
    <3>1. /\ requests' \in [Probes -> [Slots -> Requests]]
          /\ UNCHANGED <<serverVars, lost, serverHistory>>
      <4>1. requests' = [requests EXCEPT ![p][s] = Free]
        BY <1>5, <2>2 DEF Answer
      <4> QED BY <1>5, <4>1, FreeType DEF Answer, Typed, TypeOK, PageTypeOK, ServerTypeOK, HistoryTypeOK
    <3>2. CASE requests[p][s].answer = Nothing
      <4>1. RemoveFrame(p)
        BY <1>5, <2>2, <3>2 DEF Answer
      <4> QED BY <3>1, <4>1 DEF RemoveFrame, pageHistory, serverVars,
                                serverHistory, Typed, TypeOK, PageTypeOK, ServerTypeOK, HistoryTypeOK, Named
    <3>3. CASE requests[p][s].answer # Nothing
      <4> DEFINE r == requests[p][s].answer
      <4>1. RunTest(p, s, r)
        BY <1>5, <2>2, <3>3 DEF Answer
      <4>2. requests[p][s] \in Requests
        BY DEF Typed, TypeOK, PageTypeOK, ServerTypeOK, HistoryTypeOK
      <4>3. r \in Runs /\ NameOf(r) \in Names
        BY <2>2, <3>3, <4>2, RunFacts DEF Requests
      <4> HIDE DEF r
      <4> QED BY <3>1, <4>1, <4>3
              DEF RunTest, KissAfterRun, BoundAfterRun, StartAfterRun,
                  serverVars, serverHistory, Typed, TypeOK, PageTypeOK, ServerTypeOK, HistoryTypeOK, Named
    <3> QED BY <3>2, <3>3
  <2> QED BY <2>1, <2>2
<1> QED BY <1>1, <1>2, <1>3, <1>4, <1>5 DEF PageStep

\* A step of the server or the network.
LEMMA ServerStepTypes ==
  ASSUME Typed, UNCHANGED pageVars, ServerTypeOK', HistoryTypeOK',
         requests' \in [Probes -> [Slots -> Requests]]
  PROVE  Typed'
<1>1. PageTypeOK' /\ Named'
  BY DEF pageVars, Typed, TypeOK, PageTypeOK, Named
<1> QED BY <1>1 DEF Typed, TypeOK

\* Size and next, where a notice looks at its table.
LEMMA TableFacts ==
  ASSUME Typed, processor # 0
  PROVE  /\ processor \in Ours /\ processor \in Tasks /\ processor <= taken
         /\ Size \in Nat /\ next \in [Tasks -> Nat \ {0}]
         /\ next[processor] \in Nat \ {0}
         /\ next[processor] <= Size => <<processor, next[processor]>> \in Runs
<1>1. Len(KissList) \in Nat /\ \A t \in Tasks : Len(KissList[t]) \in Nat
  BY ListsAssumption DEF Tasks
<1>2. /\ processor \in Ours /\ processor \in Tasks /\ processor <= taken
      /\ next \in [Tasks -> Nat \ {0}]
  BY <1>1, ListsAssumption DEF Typed, TypeOK, ServerTypeOK, Tasks
<1> QED BY <1>1, <1>2, RunFacts DEF Size

\* The queue is polled when n tasks have been submitted.
LEMMA StartTypes ==
  ASSUME Typed, NEW n \in 0..Len(KissList), submitted <= n, submitted' = n,
         NEW otherwise \in {0, processor}, NEW counted \in Nat,
         NEW late \in BOOLEAN, Start(Polled(n), otherwise, counted, late),
         next' \in [Tasks -> Nat \ {0}]
  PROVE  ServerTypeOK' /\ short' \subseteq Runs
<1>1. /\ Len(KissList) \in Nat /\ submitted \in Nat /\ taken \in 0..submitted
      /\ processor \in {0} \union (Ours \intersect 1..taken)
      /\ Polled(n) \in {0, taken + 1} /\ Polled(n) <= n
  BY ListsLength DEF Typed, TypeOK, ServerTypeOK, Polled
<1>2. /\ current' = Polled(n)
      /\ taken' = IF Polled(n) = 0 THEN taken ELSE Polled(n)
      /\ processor' = IF Polled(n) \in Ours THEN Polled(n) ELSE otherwise
      /\ count' \in {0, counted} /\ expired' \in BOOLEAN
  BY DEF Start
<1>3. 0 \notin Ours
  BY ListsAssumption, ListsLength DEF Tasks
<1>4. /\ submitted' \in 0..Len(KissList) /\ taken' \in 0..submitted'
      /\ current' \in {0, taken'}
  BY <1>1, <1>2
<1>5. processor' \in {0} \union (Ours \intersect 1..taken')
  BY <1>1, <1>2, <1>3
<1>6. short' \subseteq Runs
  BY DEF Start, Typed, TypeOK, HistoryTypeOK
<1> QED BY <1>2, <1>4, <1>5, <1>6 DEF ServerTypeOK

LEMMA NoticeTypes ==
  ASSUME Typed, NEW p \in Probes, NEW s \in Slots, Notice(p, s)
  PROVE  Typed'
<1> DEFINE counted == IF Stores(p, s) THEN Capped(count + 1) ELSE count
           late == expired /\ counted = count
           free == Polled(submitted)
<1>1. /\ processor # 0 /\ processor \in Tasks /\ Size \in Nat
      /\ next \in [Tasks -> Nat \ {0}]
  BY TableFacts DEF Notice
<1>2. counted \in Nat /\ late \in BOOLEAN
  BY <1>1 DEF Capped, Typed, TypeOK, ServerTypeOK
<1>3. requests[p][s] \in Requests
  BY DEF Typed, TypeOK, PageTypeOK, ServerTypeOK, HistoryTypeOK
<1>4. stored' \subseteq Runs \X Tasks
  <2>1. CASE Stores(p, s)
    <3>1. requests[p][s].result.run \in Runs
      BY <1>3, <2>1 DEF Stores, Requests
    <3>2. stored' = stored \union {<<requests[p][s].result.run, processor>>}
      BY <2>1 DEF Notice
    <3> QED BY <1>1, <3>1, <3>2 DEF Typed, TypeOK, HistoryTypeOK
  <2> QED BY <2>1 DEF Notice, Typed, TypeOK, HistoryTypeOK
<1>5. \E at, answer : GoesOn(p, s, at, answer)
  BY <1>1, TableFacts, ReplyGoesOn DEF Notice, GoesOn
<1>6. requests' \in [Probes -> [Slots -> Requests]]
  BY <1>5, ReplyFacts
<1>7. UNCHANGED <<pageVars, submitted, pageHistory, lost, unresolved>>
  BY DEF Notice
<1>8. next' \in [Tasks -> Nat \ {0}]
  BY <1>1 DEF Notice
<1>9. ServerTypeOK' /\ short' \subseteq Runs
  <2>1. CASE Start(free, IF free = 0 THEN 0 ELSE processor, counted, late)
    <3>1. submitted \in 0..Len(KissList) /\ submitted' = submitted
          /\ submitted <= submitted
      BY <1>7, ListsLength DEF Typed, TypeOK, ServerTypeOK
    <3>2. (IF free = 0 THEN 0 ELSE processor) \in {0, processor}
      OBVIOUS
    <3> HIDE DEF counted, late
    <3> QED BY <1>2, <1>8, <2>1, <3>1, <3>2, StartTypes
  <2>2. CASE /\ count' = counted /\ expired' = late
             /\ UNCHANGED <<taken, current, processor, short>>
    <3> HIDE DEF counted, late
    <3> QED BY <1>2, <1>7, <1>8, <2>2 DEF Typed, TypeOK, ServerTypeOK, HistoryTypeOK
  <2> QED BY <2>1, <2>2 DEF Notice
<1>10. HistoryTypeOK'
  BY <1>4, <1>7, <1>9 DEF pageHistory, Typed, TypeOK, HistoryTypeOK
<1> QED BY <1>6, <1>7, <1>9, <1>10, ServerStepTypes

LEMMA ResolveTypes ==
  ASSUME Typed, NEW p \in Probes, NEW s \in Slots, Resolve(p, s)
  PROVE  Typed'
<1> DEFINE run == requests[p][s].answer
<1>1. run \in Runs
  <2>1. requests[p][s] \in Requests /\ requests[p][s].at = "named"
    BY DEF Resolve, Typed, TypeOK
  <2> QED BY <2>1 DEF Requests
<1>2. requests' \in [Probes -> [Slots -> Requests]]
  <2>1. CASE Fail(p, s)
    BY <2>1, FreeType DEF Fail, Typed, TypeOK
  <2>2. CASE \E answer \in Runs \union {Nothing, AnId} : Reply(p, s, answer)
    BY <2>2, ReplyGoesOn, ReplyFacts
  <2> QED BY <1>1, <2>1, <2>2 DEF Resolve
<1>3. UNCHANGED <<pageVars, serverVars, pageHistory, lost, stored, short>>
  BY DEF Resolve
<1>4. unresolved' \subseteq Runs
  BY <1>1 DEF Resolve, Typed, TypeOK, HistoryTypeOK
<1>5. ServerTypeOK' /\ HistoryTypeOK'
  BY <1>3, <1>4 DEF serverVars, pageHistory, Typed, TypeOK, ServerTypeOK,
                    HistoryTypeOK
<1> QED BY <1>2, <1>3, <1>5, ServerStepTypes

LEMMA InitTypes == Init => Typed
<1> SUFFICES ASSUME Init PROVE Typed
  OBVIOUS
<1>1. requests \in [Probes -> [Slots -> Requests]]
  BY FreeType DEF Init
<1>2. Len(KissList) \in Nat
  BY ListsLength
<1>3. PageTypeOK
  <2>1. hasId \in [Probes -> BOOLEAN]
    <3>1. hasId = [p \in Probes |-> p \in Registered]
      BY DEF Init
    <3>2. \A p \in Probes : (p \in Registered) \in BOOLEAN
      OBVIOUS
    <3> QED BY <3>1, <3>2
  <2> QED BY <2>1 DEF Init, PageTypeOK
<1>4. ServerTypeOK
  <2>1. expired \in BOOLEAN
    BY Zenon DEF Init
  <2>2. /\ submitted = 0 /\ taken = 0 /\ current = 0 /\ processor = 0
        /\ next = [t \in Tasks |-> 1] /\ count = 0
    BY Zenon DEF Init
  <2>3. next \in [Tasks -> Nat \ {0}]
    BY <2>2
  <2> QED BY <1>2, <2>1, <2>2, <2>3 DEF ServerTypeOK
<1>5. HistoryTypeOK /\ Named
  BY DEF Init, HistoryTypeOK, Named
<1> QED BY <1>1, <1>3, <1>4, <1>5 DEF Typed, TypeOK

LEMMA NextTypes == Typed /\ [Next]_vars => Typed'
<1> SUFFICES ASSUME Typed, [Next]_vars PROVE Typed'
  OBVIOUS
<1>1. ASSUME NEW p \in Probes, PageStep(p) PROVE Typed'
  BY <1>1, PageTypes
<1>2. ASSUME NEW p \in Probes, NEW s \in Slots, Lose(p, s) PROVE Typed'
  <2>1. RunsOf(requests[p][s]) \subseteq Runs
    BY DEF RunsOf
  <2>2. requests' \in [Probes -> [Slots -> Requests]]
    BY <1>2, FreeType DEF Lose, Typed, TypeOK, PageTypeOK, ServerTypeOK, HistoryTypeOK
  <2> QED BY <1>2, <2>1, <2>2 DEF Lose, pageVars, serverVars, pageHistory,
                                  serverHistory, Typed, TypeOK, PageTypeOK, ServerTypeOK, HistoryTypeOK, Named
<1>3. ASSUME NEW p \in Probes, NEW s \in Slots, Serve(p, s) PROVE Typed'
  <2>1. CASE Register(p, s) \/ IdleNotice(p, s)
    <3>1. /\ Reply(p, s, AnId) \/ Reply(p, s, Nothing)
          /\ UNCHANGED <<pageVars, serverVars, pageHistory, lost, serverHistory>>
      BY <2>1 DEF Register, IdleNotice
    <3>2. requests' \in [Probes -> [Slots -> Requests]]
      BY <3>1, ReplyGoesOn, ReplyFacts
    <3> QED BY <3>1, <3>2 DEF pageVars, serverVars, pageHistory, serverHistory,
                              Typed, TypeOK, PageTypeOK, ServerTypeOK, HistoryTypeOK, Named
  <2>2. CASE UnknownNotice(p, s)
    <3>1. requests' \in [Probes -> [Slots -> Requests]]
      BY <2>2, FreeType DEF UnknownNotice, Fail, Typed, TypeOK, PageTypeOK, ServerTypeOK, HistoryTypeOK
    <3> QED BY <2>2, <3>1 DEF UnknownNotice, pageVars, serverVars, pageHistory,
                              serverHistory, Typed, TypeOK, PageTypeOK, ServerTypeOK, HistoryTypeOK, Named
  <2>3. CASE Notice(p, s)
    BY <2>3, NoticeTypes
  <2>4. CASE Resolve(p, s)
    BY <2>4, ResolveTypes
  <2> QED BY <1>3, <2>1, <2>2, <2>3, <2>4 DEF Serve
<1>4. CASE Expire
  BY <1>4 DEF Expire, pageVars, pageHistory, serverHistory, Typed, TypeOK, PageTypeOK, ServerTypeOK, HistoryTypeOK, Named
<1>5. CASE AddTask \/ OthersTake
  <2>1. /\ submitted \in Nat /\ Len(KissList) \in Nat /\ submitted <= Len(KissList)
        /\ count \in Nat /\ expired \in BOOLEAN
    BY ListsLength DEF Typed, TypeOK, ServerTypeOK
  <2>2. /\ UNCHANGED <<pageVars, requests, next, pageHistory, lost, stored,
                       unresolved>>
        /\ submitted' \in {submitted, submitted + 1}
        /\ submitted' <= Len(KissList)
    BY <1>5, <2>1 DEF AddTask, OthersTake
  <2>3. ServerTypeOK' /\ short' \subseteq Runs
    <3>1. CASE Start(Polled(submitted'), processor, count, expired)
      <4>1. submitted' \in 0..Len(KissList) /\ submitted <= submitted'
        BY <2>1, <2>2
      <4>2. next' \in [Tasks -> Nat \ {0}]
        BY <2>2 DEF Typed, TypeOK, ServerTypeOK
      <4> QED BY <2>1, <3>1, <4>1, <4>2, StartTypes
    <3>2. CASE UNCHANGED <<taken, current, processor, count, expired, short>>
      BY <2>1, <2>2, <3>2 DEF Typed, TypeOK, ServerTypeOK, HistoryTypeOK
    <3> QED BY <1>5, <3>1, <3>2 DEF AddTask, OthersTake
  <2>4. HistoryTypeOK' /\ requests' \in [Probes -> [Slots -> Requests]]
    BY <2>2, <2>3 DEF pageHistory, Typed, TypeOK, HistoryTypeOK
  <2> QED BY <2>2, <2>3, <2>4, ServerStepTypes
<1>6. CASE Restart
  <2>1. \A p \in Probes : InRequests(p) \subseteq Runs
    BY DEF InRequests, RunsOf
  <2>2. requests' \in [Probes -> [Slots -> Requests]]
    BY <1>6, FreeType DEF Restart
  <2>3. lost' \subseteq Runs
    BY <1>6, <2>1 DEF Restart, Typed, TypeOK, HistoryTypeOK
  <2>4. UNCHANGED pageVars /\ ServerTypeOK' /\ HistoryTypeOK'
    BY <1>6, <2>3 DEF Restart, serverVars, pageHistory, serverHistory, Typed,
                      TypeOK, ServerTypeOK, HistoryTypeOK
  <2> QED BY <2>2, <2>4, ServerStepTypes
<1>7. CASE UNCHANGED vars
  BY <1>7 DEF vars, pageVars, serverVars, pageHistory, serverHistory, Typed,
              TypeOK, PageTypeOK, ServerTypeOK, HistoryTypeOK, Named
<1> QED BY <1>1, <1>2, <1>3, <1>4, <1>5, <1>6, <1>7 DEF Next, NetStep

\* The variables of the session keep their types; the timer of a page that is
\* ready is always on (probe.js sets it again in each beat).
THEOREM TypeCorrect == Safety => []TypeOK
<1>1. Typed => TypeOK
  BY DEF Typed
<1> QED BY <1>1, InitTypes, NextTypes, PTL DEF Safety

-----------------------------------------------------------------------------
(***************************************************************************)
(* What a page does.  A request that is alone was posted by the last beat, *)
(* so no kiss runs; hence an answer cuts a kiss off only if two requests   *)
(* overlapped, and whatever is in the frame or loading into it is the kiss *)
(* that runs, or one that has been reported or cut off.                    *)
(***************************************************************************)
Alone ==
  \A p \in Probes, s \in Slots :
    requests[p][s].at # "free" /\ requests[p][s].alone
      => /\ started[p] = NoRun
         /\ \A k \in Slots : requests[p][k].at # "free" => k = s

Past(r) == r \in sent \union dropped

Framed ==
  \A p \in Probes : \A r \in {frame[p], turning[p]} :
    r = NoRun \/ r = started[p] \/ Past(r)

Bound == \A p \in Probes : started[p] # NoRun => bound[p]

PageInv == Alone /\ Framed /\ Bound /\ OwnResult /\ DoneHeard

\* The server and the network take requests away or answer them, no more.
LEMMA ServerKeepsPages ==
  ASSUME Typed, PageInv, UNCHANGED <<pageVars, pageHistory>>,
         \A p \in Probes, s \in Slots : requests'[p][s].at # "free"
           => /\ requests[p][s].at # "free"
              /\ requests'[p][s].alone = requests[p][s].alone
  PROVE  PageInv'
<1>1. Alone'
  BY DEF PageInv, Alone, pageVars
<1>2. Framed' /\ Bound' /\ OwnResult' /\ DoneHeard'
  BY DEF PageInv, Framed, Bound, OwnResult, DoneHeard, Past, pageVars, pageHistory
<1> QED BY <1>1, <1>2 DEF PageInv

\* A beat: the run that was started has been sent, and no other changes.
LEMMA BeatAlone ==
  ASSUME Typed, Alone, NEW p \in Probes, Beat(p)
  PROVE  Alone'
<1> SUFFICES ASSUME NEW q \in Probes, NEW s \in Slots,
                    requests'[q][s].at # "free", requests'[q][s].alone
             PROVE  /\ started'[q] = NoRun
                    /\ \A k \in Slots : requests'[q][k].at # "free" => k = s
  BY DEF Alone
<1>1. PICK f \in Slots :
        /\ requests[p][f].at = "free"
        /\ requests' = [requests EXCEPT ![p] = Posted(p, f, ResultOf(p))]
        /\ \A k \in Slots : requests[p][k] \in Requests
  BY BeatFacts
<1>2. /\ requests \in [Probes -> [Slots -> Requests]]
      /\ started \in [Probes -> Runs \union {NoRun}]
  BY DEF Typed, TypeOK, PageTypeOK
<1>3. started' = [started EXCEPT ![p] = NoRun]
  BY DEF Beat, StartAfterBeat
<1>4. CASE q # p
  BY <1>1, <1>2, <1>3, <1>4 DEF Alone
<1>5. CASE q = p
  <2>1. started'[q] = NoRun
    BY <1>2, <1>3, <1>5
  <2>2. requests'[p] = Posted(p, f, ResultOf(p))
    BY <1>1, <1>2
  <2>3. requests'[p][f].alone = (Open(p) = {})
    BY <2>2 DEF Posted
  <2>4. ASSUME NEW k \in Slots, k # f
        PROVE  /\ requests'[p][k].at = requests[p][k].at
               /\ requests'[p][k].alone
                    = (requests[p][k].alone /\ requests[p][k].at = "free")
    <3> DEFINE old == requests[p][k]
    <3>1. requests'[p][k] = [old EXCEPT !.alone = old.alone /\ old.at = "free"]
      BY <2>2, <2>4 DEF Posted
    <3>2. old \in Requests
      BY <1>1
    <3> HIDE DEF old
    <3>3. /\ requests'[p][k].at = old.at
          /\ requests'[p][k].alone = (old.alone /\ old.at = "free")
      BY <3>1, <3>2 DEF Requests
    <3> QED BY <3>3 DEF old
  <2>5. s = f
    <3> SUFFICES ASSUME s # f PROVE FALSE
      OBVIOUS
    <3>1. /\ requests'[p][s].at = requests[p][s].at
          /\ requests'[p][s].alone
               = (requests[p][s].alone /\ requests[p][s].at = "free")
      BY <2>4
    <3>2. requests'[p][s].at # "free" /\ requests'[p][s].alone
      BY <1>5
    <3> QED BY <3>1, <3>2
  <2>6. \A k \in Slots : k # f => requests[p][k].at = "free"
    BY <1>5, <2>3, <2>5 DEF Open
  <2>7. ASSUME NEW k \in Slots, requests'[q][k].at # "free" PROVE k = s
    BY <1>5, <2>4, <2>5, <2>6, <2>7
  <2> QED BY <2>1, <2>7
<1> QED BY <1>4, <1>5

LEMMA BeatFrames ==
  ASSUME Typed, Framed, NEW p \in Probes, Beat(p)
  PROVE  /\ sent \subseteq sent' /\ started'[p] = NoRun
         /\ \A q \in Probes : q # p => started'[q] = started[q]
         /\ \A q \in Probes : \A r \in {frame[q], turning[q]} :
              r = NoRun \/ r = started'[q] \/ r \in sent' \union dropped
<1>1. /\ started \in [Probes -> Runs \union {NoRun}]
      /\ started' = [started EXCEPT ![p] = NoRun]
      /\ sent' = sent \union ({started[p]} \ {NoRun})
  BY DEF Beat, StartAfterBeat, Typed, TypeOK, PageTypeOK
<1> QED BY <1>1 DEF Framed, Past

LEMMA ResetKeeps ==
  ASSUME Typed, PageInv, NEW p \in Probes, Reset(p)
  PROVE  PageInv'
<1>1. /\ started' = [started EXCEPT ![p] = NoRun]
      /\ frame' = [frame EXCEPT ![p] = NoRun]
      /\ turning' = [turning EXCEPT ![p] = NoRun]
      /\ bound' = [bound EXCEPT ![p] = FALSE]
      /\ kiss' = [kiss EXCEPT ![p] = ""]
      /\ requests' = [requests EXCEPT ![p] = [s \in Slots |-> Free]]
      /\ UNCHANGED <<sent, strays, unheard, dropped>>
  BY DEF Reset, pageHistory
<1>2. PageTypeOK /\ requests \in [Probes -> [Slots -> Requests]]
  BY DEF Typed, TypeOK
<1>3. Alone'
  <2>1. \A s \in Slots : requests'[p][s].at = "free"
    BY <1>1, <1>2 DEF Free
  <2>2. \A q \in Probes : q # p => /\ requests'[q] = requests[q]
                                /\ started'[q] = started[q]
    BY <1>1, <1>2 DEF PageTypeOK
  <2> SUFFICES ASSUME NEW q \in Probes, NEW k \in Slots,
                      requests'[q][k].at # "free", requests'[q][k].alone
               PROVE  /\ started'[q] = NoRun
                      /\ \A j \in Slots : requests'[q][j].at # "free" => j = k
    BY DEF Alone
  <2>3. q # p
    BY <2>1
  <2>4. requests'[q] = requests[q] /\ started'[q] = started[q]
    BY <2>2, <2>3
  <2> QED BY <2>4 DEF PageInv, Alone
<1>4. Framed' /\ Bound'
  BY <1>1, <1>2 DEF PageInv, Framed, Past, Bound, PageTypeOK
<1>5. OwnResult' /\ DoneHeard'
  BY <1>1, <1>2 DEF PageInv, OwnResult, DoneHeard, PageTypeOK
<1> QED BY <1>3, <1>4, <1>5 DEF PageInv

LEMMA DoneKeeps ==
  ASSUME Typed, PageInv, NEW p \in Probes, FrameDone(p)
  PROVE  PageInv'
<1>1. /\ frame[p] # NoRun
      /\ bound' = [bound EXCEPT ![p] = FALSE]
      /\ unheard' = unheard \union
            (IF bound[p] /\ started[p] = frame[p] THEN {} ELSE {frame[p]} \ sent)
      /\ UNCHANGED <<kiss, frame, turning, dropped>>
  BY DEF FrameDone
<1>2. PageTypeOK
  BY DEF Typed, TypeOK
<1>3. frame[p] = started[p] \/ Past(frame[p])
  BY <1>1 DEF PageInv, Framed
<1>4. DoneHeard' /\ sent \subseteq sent'
  <2>1. sent \subseteq sent'
    BY DEF FrameDone, Beat
  <2>2. unheard' \subseteq unheard \union {r \in {frame[p]} : Past(r)}
    BY <1>1, <1>3 DEF PageInv, Bound
  <2> QED BY <1>1, <2>1, <2>2 DEF PageInv, DoneHeard, Past
<1>5. CASE bound[p]
  <2>1. Beat(p) /\ strays' = strays \union
               (IF started[p] \in {NoRun, frame[p]} THEN {}
                ELSE {<<frame[p], started[p]>>})
    BY <1>5 DEF FrameDone
  <2>2. Alone'
    BY <2>1, BeatAlone DEF PageInv
  <2>3. Framed' /\ started'[p] = NoRun
        /\ \A q \in Probes : q # p => started'[q] = started[q]
    BY <1>1, <2>1, BeatFrames DEF PageInv, Framed, Past
  <2>4. Bound'
    BY <1>1, <1>2, <2>3 DEF PageInv, Bound, PageTypeOK
  <2>5. \A stray \in strays' : stray[1] \in sent' \union dropped'
    BY <1>1, <1>3, <1>4, <2>1 DEF PageInv, OwnResult, Past
  <2>6. OwnResult'
    BY <1>1, <2>3, <2>5 DEF PageInv, OwnResult
  <2> QED BY <1>4, <2>2, <2>3, <2>4, <2>6 DEF PageInv
<1>6. CASE ~ bound[p]
  <2>1. UNCHANGED <<requests, started, sent, strays>>
    BY <1>6 DEF FrameDone
  <2>2. Bound'
    BY <1>1, <1>2, <1>6, <2>1 DEF PageInv, Bound, PageTypeOK
  <2>3. Alone' /\ Framed' /\ OwnResult'
    BY <1>1, <2>1 DEF PageInv, Alone, Framed, Past, OwnResult
  <2> QED BY <1>4, <2>2, <2>3 DEF PageInv
<1> QED BY <1>5, <1>6

\* An answer that names a kiss.
LEMMA RunTestKeeps ==
  ASSUME Typed, PageInv, NEW p \in Probes, NEW s \in Slots, NEW r \in Runs,
         requests[p][s].at = "answered", RunTest(p, s, r),
         requests' = [requests EXCEPT ![p][s] = Free]
  PROVE  PageInv'
<1>1. PageTypeOK /\ requests \in [Probes -> [Slots -> Requests]]
  BY DEF Typed, TypeOK
<1>2. /\ kiss' = [kiss EXCEPT ![p] = NameOf(r)]
      /\ bound' = [bound EXCEPT ![p] = TRUE]
      /\ started' = [started EXCEPT ![p] = r]
      /\ turning' = [turning EXCEPT ![p] = r]
      /\ dropped' = dropped \union
           (IF requests[p][s].alone THEN {} ELSE {started[p]} \ {NoRun})
      /\ UNCHANGED <<frame, sent, strays, unheard>>
  BY DEF RunTest, KissAfterRun, BoundAfterRun, StartAfterRun
<1>3. started[p] = NoRun \/ started[p] \in dropped'
  BY <1>2 DEF PageInv, Alone
<1>4. Alone'
  <2> SUFFICES ASSUME NEW q \in Probes, NEW k \in Slots,
                      requests'[q][k].at # "free", requests'[q][k].alone
               PROVE  /\ started'[q] = NoRun
                      /\ \A j \in Slots : requests'[q][j].at # "free" => j = k
    BY DEF Alone
  <2>1. CASE q # p
    <3>1. requests'[q] = requests[q] /\ started'[q] = started[q]
      BY <1>1, <1>2, <2>1 DEF PageTypeOK
    <3> QED BY <3>1 DEF PageInv, Alone
  <2>2. CASE q = p
    <3>1. k # s
      BY <1>1, <2>2 DEF Free
    <3>2. requests[p][k].at # "free" /\ requests[p][k].alone
      BY <1>1, <2>2, <3>1
    <3> QED BY <3>1, <3>2 DEF PageInv, Alone
  <2> QED BY <2>1, <2>2
<1>5. Framed'
  BY <1>1, <1>2, <1>3 DEF PageInv, Framed, Past, PageTypeOK
<1>6. Bound'
  BY <1>1, <1>2 DEF PageInv, Bound, PageTypeOK
<1>7. OwnResult' /\ DoneHeard'
  BY <1>1, <1>2 DEF PageInv, OwnResult, DoneHeard, PageTypeOK
<1> QED BY <1>4, <1>5, <1>6, <1>7 DEF PageInv

LEMMA BeatKeeps ==
  ASSUME Typed, PageInv, NEW p \in Probes, Ready(p) \/ TimerBeat(p)
  PROVE  PageInv'
<1>1. Beat(p) /\ UNCHANGED <<kiss, bound, frame, turning, strays, unheard, dropped>>
  BY DEF Ready, TimerBeat
<1>2. Alone'
  BY <1>1, BeatAlone DEF PageInv
<1>3. /\ sent \subseteq sent' /\ started'[p] = NoRun
      /\ \A q \in Probes : q # p => started'[q] = started[q]
  BY <1>1, BeatFrames DEF PageInv
<1>4. Framed'
  BY <1>1, BeatFrames DEF PageInv, Framed, Past
<1>5. Bound' /\ OwnResult' /\ DoneHeard'
  BY <1>1, <1>3 DEF PageInv, Bound, OwnResult, DoneHeard
<1> QED BY <1>2, <1>4, <1>5 DEF PageInv

LEMMA AnswerKeeps ==
  ASSUME Typed, PageInv, NEW p \in Probes, NEW s \in Slots, Answer(p, s)
  PROVE  PageInv'
<1> DEFINE answer == requests[p][s].answer
<1>1. PageTypeOK /\ requests \in [Probes -> [Slots -> Requests]]
  BY DEF Typed, TypeOK
<1>2. CASE answer = AnId
  BY <1>2, ResetKeeps DEF Answer
<1>3. CASE answer # AnId /\ answer # Nothing
  <2>1. answer \in Runs
    BY <1>1, <1>3 DEF Requests
  <2>2. RunTest(p, s, answer) /\ requests' = [requests EXCEPT ![p][s] = Free]
    BY <1>3 DEF Answer
  <2>3. requests[p][s].at = "answered"
    BY DEF Answer
  <2> HIDE DEF answer
  <2> QED BY <2>1, <2>2, <2>3, RunTestKeeps
<1>4. CASE answer # AnId /\ answer = Nothing
  <2>1. RemoveFrame(p) /\ requests' = [requests EXCEPT ![p][s] = Free]
    BY <1>4 DEF Answer
  <2>2. /\ frame' = [frame EXCEPT ![p] = NoRun]
        /\ turning' = [turning EXCEPT ![p] = NoRun]
        /\ UNCHANGED <<kiss, started, bound, sent, strays, unheard, dropped>>
    BY <2>1 DEF RemoveFrame, pageHistory
  <2>3. Alone'
    <3> SUFFICES ASSUME NEW q \in Probes, NEW k \in Slots,
                        requests'[q][k].at # "free", requests'[q][k].alone
                 PROVE  /\ started'[q] = NoRun
                        /\ \A j \in Slots : requests'[q][j].at # "free" => j = k
      BY DEF Alone
    <3>1. \A j \in Slots : requests'[q][j] \in {requests[q][j], Free}
      BY <1>1, <2>1
    <3>2. requests'[q][k] = requests[q][k]
      BY <3>1 DEF Free
    <3>3. /\ started[q] = NoRun
          /\ \A j \in Slots : requests[q][j].at # "free" => j = k
      BY <3>2 DEF PageInv, Alone
    <3> QED BY <2>2, <3>1, <3>3 DEF Free
  <2>4. Framed' /\ Bound'
    BY <1>1, <2>2 DEF PageInv, Framed, Past, Bound, PageTypeOK
  <2>5. OwnResult' /\ DoneHeard'
    BY <2>2 DEF PageInv, OwnResult, DoneHeard
  <2> QED BY <2>3, <2>4, <2>5 DEF PageInv
<1> QED BY <1>2, <1>3, <1>4

LEMMA PageKeeps ==
  ASSUME Typed, PageInv, NEW p \in Probes, PageStep(p)
  PROVE  PageInv'
<1>1. CASE FrameLoads(p)
  <2>1. /\ frame' = [frame EXCEPT ![p] = turning[p]]
        /\ turning' = [turning EXCEPT ![p] = NoRun]
        /\ UNCHANGED <<kiss, started, bound, requests, sent, strays, unheard,
                       dropped>>
    BY <1>1 DEF FrameLoads, pageHistory
  <2>2. Alone' /\ Bound' /\ OwnResult' /\ DoneHeard'
    BY <2>1 DEF PageInv, Alone, Bound, OwnResult, DoneHeard
  <2>3. Framed'
    BY <2>1 DEF PageInv, Framed, Past, Typed, TypeOK, PageTypeOK
  <2> QED BY <2>2, <2>3 DEF PageInv
<1> QED BY <1>1, BeatKeeps, DoneKeeps, AnswerKeeps, ResetKeeps DEF PageStep, Reopen

LEMMA ServeKeeps ==
  ASSUME Typed, PageInv, NEW p \in Probes, NEW s \in Slots,
         Lose(p, s) \/ Serve(p, s)
  PROVE  PageInv'
<1>1. requests \in [Probes -> [Slots -> Requests]]
  BY DEF Typed, TypeOK
<1>2. UNCHANGED <<pageVars, pageHistory>>
  BY DEF Lose, Serve, Register, IdleNotice, UnknownNotice, Notice, Resolve
<1>3. requests[p][s].at # "free"
  BY DEF Lose, Serve, Register, IdleNotice, UnknownNotice, Notice, Resolve
<1>4. CASE requests' = [requests EXCEPT ![p][s] = Free]
  <2>1. \A q \in Probes, k \in Slots : requests'[q][k] \in {requests[q][k], Free}
    BY <1>1, <1>4
  <2> QED BY <1>2, <2>1, ServerKeepsPages DEF Free
<1>5. CASE \E at, answer : GoesOn(p, s, at, answer)
  <2>1. PICK at, answer : GoesOn(p, s, at, answer)
    BY <1>5
  <2>2. /\ requests'[p][s].alone = requests[p][s].alone
        /\ \A q \in Probes, k \in Slots : ~ (q = p /\ k = s)
             => requests'[q][k] = requests[q][k]
    BY <2>1, ReplyFields
  <2>3. ASSUME NEW q \in Probes, NEW k \in Slots, requests'[q][k].at # "free"
        PROVE  /\ requests[q][k].at # "free"
               /\ requests'[q][k].alone = requests[q][k].alone
    <3>1. CASE q = p /\ k = s
      BY <1>3, <2>2, <3>1
    <3>2. CASE ~ (q = p /\ k = s)
      <4>1. requests'[q][k] = requests[q][k]
        BY <2>2, <3>2
      <4> QED BY <2>3, <4>1
    <3> QED BY <3>1, <3>2
  <2> QED BY <1>2, <2>3, ServerKeepsPages
<1>6. \/ requests' = [requests EXCEPT ![p][s] = Free]
      \/ \E at, answer : GoesOn(p, s, at, answer)
  <2>1. CASE Resolve(p, s)
    <3>1. requests[p][s].answer \in Runs
      BY <1>1, <2>1 DEF Resolve, Requests
    <3> QED BY <2>1, <3>1, ReplyGoesOn DEF Resolve, Fail
  <2>2. CASE Notice(p, s)
    BY <2>2, TableFacts, ReplyGoesOn DEF Notice, GoesOn
  <2>3. CASE Register(p, s) \/ IdleNotice(p, s)
    BY <2>3, ReplyGoesOn DEF Register, IdleNotice
  <2>4. CASE UnknownNotice(p, s) \/ Lose(p, s)
    BY <2>4 DEF UnknownNotice, Fail, Lose
  <2> QED BY <2>1, <2>2, <2>3, <2>4 DEF Serve
<1> QED BY <1>4, <1>5, <1>6

LEMMA InitPages == Init => PageInv
<1> SUFFICES ASSUME Init PROVE PageInv
  OBVIOUS
<1>1. Alone
  BY DEF Init, Alone, Free
<1>2. Framed /\ Bound /\ OwnResult /\ DoneHeard
  BY DEF Init, Framed, Bound, OwnResult, DoneHeard
<1> QED BY <1>1, <1>2 DEF PageInv

LEMMA NextPages == Typed /\ PageInv /\ [Next]_vars => PageInv'
<1> SUFFICES ASSUME Typed, PageInv, [Next]_vars PROVE PageInv'
  OBVIOUS
<1>1. CASE Expire \/ AddTask \/ OthersTake \/ UNCHANGED vars
  BY <1>1, ServerKeepsPages DEF Expire, AddTask, OthersTake, vars
<1>2. CASE Restart
  BY <1>2, ServerKeepsPages DEF Restart, Free
<1> QED BY <1>1, <1>2, PageKeeps, ServeKeeps DEF Next, NetStep

\* probe.js with ext_qunit.js: a page reports under the name of the kiss it
\* runs, the only page that stops another's clock has been reported or cut off
\* before, and the first done of any other finds the handler bound.
THEOREM HeardCorrect == Safety => []HeardAsItself
<1>1. PageInv => HeardAsItself
  BY DEF PageInv, HeardAsItself
<1> QED BY <1>1, InitTypes, NextTypes, InitPages, NextPages, PTL DEF Safety

-----------------------------------------------------------------------------
(***************************************************************************)
(* No kiss is forgotten.  A run that was handed out is taken care of: it   *)
(* has been sent, lost, cut off or not found, or it is in a request as a   *)
(* name or an answer, or it runs.  A run in a request is one of a task     *)
(* that was taken, and so is one whose name was not found; the queue goes  *)
(* forward only and does not come back to its task.                        *)
(***************************************************************************)
Cared(r) == \/ r \in sent \union lost \union dropped \union unresolved
            \/ Answered(r) \/ Running(r)

\* Only a request that notice has served has a name or an answer.
Blank == \A p \in Probes, s \in Slots :
           requests[p][s].at \in {"free", "sent"} => requests[p][s].answer = Nothing

\* A page without an id is told one, and runs nothing before.
Ids == \A p \in Probes :
         /\ ~ hasId[p] => started[p] = NoRun
         /\ \A s \in Slots :
              IF hasId[p] THEN requests[p][s].answer # AnId
                          ELSE requests[p][s].answer \in {Nothing, AnId}

Reached ==
  \A p \in Probes, s \in Slots :
    requests[p][s].answer \in Runs => requests[p][s].answer[1] <= taken

Passed == \A r \in unresolved : r[1] <= taken /\ r[1] # current

CareInv == /\ Blank /\ Ids /\ Reached /\ Passed
           /\ \A r \in Runs : Handed(r) => Cared(r)

LEMMA FreeFacts == Free.at = "free" /\ Free.answer = Nothing
BY DEF Free, Nothing

\* Beats do not touch answers.
LEMMA BeatAnswers ==
  ASSUME Typed, Blank, NEW p \in Probes, Beat(p)
  PROVE  \A q \in Probes, k \in Slots :
           /\ requests'[q][k].answer = requests[q][k].answer
           /\ requests'[q][k].at \in {"free", "sent"}
                => requests[q][k].at \in {"free", "sent"}
<1> SUFFICES ASSUME NEW q \in Probes, NEW k \in Slots
             PROVE  /\ requests'[q][k].answer = requests[q][k].answer
                    /\ requests'[q][k].at \in {"free", "sent"}
                         => requests[q][k].at \in {"free", "sent"}
  OBVIOUS
<1>1. PICK f \in Slots :
        /\ requests[p][f].at = "free"
        /\ requests' = [requests EXCEPT ![p] = Posted(p, f, ResultOf(p))]
        /\ \A j \in Slots : requests[p][j] \in Requests
  BY BeatFacts
<1>2. requests \in [Probes -> [Slots -> Requests]]
  BY DEF Typed, TypeOK
<1>3. CASE q # p
  BY <1>1, <1>2, <1>3
<1>4. CASE q = p /\ k = f
  <2>1. requests'[p][f] = [at |-> "sent", result |-> ResultOf(p),
                           answer |-> Nothing, alone |-> Open(p) = {}]
    BY <1>1, <1>2 DEF Posted
  <2>2. requests'[p][f].answer = Nothing
    BY <2>1
  <2>3. requests[p][f].answer = Nothing
    BY <1>1 DEF Blank
  <2> QED BY <1>1, <1>4, <2>2, <2>3
<1>5. CASE q = p /\ k # f
  <2> DEFINE old == requests[p][k]
  <2>1. requests'[p][k] = [old EXCEPT !.alone = old.alone /\ old.at = "free"]
    BY <1>1, <1>2, <1>5 DEF Posted
  <2>2. old \in Requests
    BY <1>2
  <2> HIDE DEF old
  <2>3. requests'[p][k].at = old.at /\ requests'[p][k].answer = old.answer
    BY <2>1, <2>2 DEF Requests
  <2> QED BY <1>5, <2>3 DEF old
<1> QED BY <1>3, <1>4, <1>5

LEMMA BeatCares ==
  ASSUME Typed, CareInv, NEW p \in Probes, Beat(p),
         UNCHANGED <<hasId, serverVars, lost, dropped, unresolved>>
  PROVE  CareInv'
<1>1. /\ started \in [Probes -> Runs \union {NoRun}]
      /\ started' = [started EXCEPT ![p] = NoRun]
      /\ sent' = sent \union ({started[p]} \ {NoRun})
  BY DEF Beat, StartAfterBeat, Typed, TypeOK, PageTypeOK
<1>2. \A q \in Probes, k \in Slots :
        /\ requests'[q][k].answer = requests[q][k].answer
        /\ requests'[q][k].at \in {"free", "sent"}
             => requests[q][k].at \in {"free", "sent"}
  BY BeatAnswers DEF CareInv
<1>3. Blank' /\ Reached' /\ Passed'
  BY <1>2 DEF CareInv, Blank, Reached, Passed, serverVars
<1>4. Ids'
  BY <1>1, <1>2 DEF CareInv, Ids
<1>5. \A r \in Runs : Cared(r) => Cared(r)'
  <2> SUFFICES ASSUME NEW r \in Runs, Cared(r) PROVE Cared(r)'
    OBVIOUS
  <2>1. Answered(r) => Answered(r)'
    BY <1>2 DEF Answered
  <2>2. Running(r) => Running(r)' \/ r \in sent'
    BY <1>1, RunFacts DEF Running
  <2> QED BY <1>1, <2>1, <2>2 DEF Cared
<1>6. \A r \in Runs : Handed(r)' => Handed(r)
  BY DEF Handed, serverVars
<1> QED BY <1>3, <1>4, <1>5, <1>6 DEF CareInv

\* A page is opened again: what it had is lost, or it had nothing.
LEMMA ResetCares ==
  ASSUME Typed, CareInv, NEW p \in Probes, Reset(p), hasId' \in [Probes -> BOOLEAN],
         \A q \in Probes : q # p => hasId'[q] = hasId[q],
         lost \subseteq lost', UNCHANGED <<serverVars, unresolved>>,
         \/ LostWith(p) \subseteq lost'
         \/ ~ hasId[p]
  PROVE  CareInv'
<1>1. /\ started' = [started EXCEPT ![p] = NoRun]
      /\ requests' = [requests EXCEPT ![p] = [s \in Slots |-> Free]]
      /\ UNCHANGED <<sent, dropped>>
  BY DEF Reset, pageHistory
<1>2. /\ started \in [Probes -> Runs \union {NoRun}]
      /\ requests \in [Probes -> [Slots -> Requests]]
  BY DEF Typed, TypeOK, PageTypeOK
<1>3. \A s \in Slots : /\ requests'[p][s].at = "free"
                     /\ requests'[p][s].answer = Nothing
  BY <1>1, <1>2, FreeFacts
<1>4. \A q \in Probes : q # p => requests'[q] = requests[q] /\ started'[q] = started[q]
  BY <1>1, <1>2
<1>5. started'[p] = NoRun
  BY <1>1, <1>2
<1>6. Blank' /\ Reached' /\ Passed'
  BY <1>3, <1>4, RunFacts DEF CareInv, Blank, Reached, Passed, serverVars, Nothing
<1>7. Ids'
  BY <1>3, <1>4, <1>5, RunFacts DEF CareInv, Ids, Nothing
<1>8. ASSUME NEW r \in Runs, Cared(r) PROVE Cared(r)'
  <2>1. CASE r \in sent \union lost \union dropped \union unresolved
    BY <1>1, <2>1 DEF Cared
  <2>2. ASSUME NEW q \in Probes, NEW s \in Slots, requests[q][s].answer = r
        PROVE  Cared(r)'
    <3>1. CASE q # p
      BY <1>4, <2>2, <3>1 DEF Cared, Answered
    <3>2. CASE q = p
      <4>1. hasId[p]
        BY <2>2, <3>2, RunFacts DEF CareInv, Ids, Nothing
      <4>2. r \in RunsOf(requests[p][s])
        BY <2>2, <3>2 DEF RunsOf
      <4>3. r \in LostWith(p)
        BY <4>2 DEF LostWith, InRequests
      <4> QED BY <4>1, <4>3 DEF Cared
    <3> QED BY <3>1, <3>2
  <2>3. ASSUME NEW q \in Probes, started[q] = r PROVE Cared(r)'
    <3>1. CASE q # p
      BY <1>4, <2>3, <3>1 DEF Cared, Running
    <3>2. CASE q = p
      <4>1. LostWith(p) \subseteq lost' => r \in lost'
        BY <2>3, <3>2 DEF LostWith
      <4>2. CASE ~ hasId[p]
        BY <2>3, <3>2, <4>2, RunFacts DEF CareInv, Ids
      <4> QED BY <4>1, <4>2 DEF Cared
    <3> QED BY <3>1, <3>2
  <2> QED BY <1>8, <2>1, <2>2, <2>3 DEF Cared, Answered, Running
<1>9. \A r \in Runs : Handed(r)' => Handed(r)
  BY DEF Handed, serverVars
<1> QED BY <1>6, <1>7, <1>8, <1>9 DEF CareInv

LEMMA AnswerCares ==
  ASSUME Typed, PageInv, CareInv, NEW p \in Probes, NEW s \in Slots, Answer(p, s)
  PROVE  CareInv'
<1> DEFINE answer == requests[p][s].answer
<1>1. PageTypeOK /\ requests \in [Probes -> [Slots -> Requests]]
  BY DEF Typed, TypeOK
<1>2. /\ requests[p][s].at = "answered"
      /\ UNCHANGED <<serverVars, lost, unresolved>>
  BY DEF Answer, serverHistory
<1>3. CASE answer = AnId
  <2>1. Reset(p) /\ hasId' = [hasId EXCEPT ![p] = TRUE]
    BY <1>3 DEF Answer
  <2>2. ~ hasId[p]
    BY <1>3 DEF CareInv, Ids
  <2>3. /\ hasId' \in [Probes -> BOOLEAN]
        /\ \A q \in Probes : q # p => hasId'[q] = hasId[q]
    BY <1>1, <2>1 DEF PageTypeOK
  <2> QED BY <1>2, <2>1, <2>2, <2>3, ResetCares
<1>4. CASE answer # AnId
  <2>1. requests' = [requests EXCEPT ![p][s] = Free]
    BY <1>4 DEF Answer
  <2>2. /\ requests'[p][s] = Free
        /\ \A q \in Probes, k \in Slots : ~ (q = p /\ k = s)
             => requests'[q][k] = requests[q][k]
    BY <1>1, <2>1
  <2>3. Blank' /\ Reached' /\ Passed'
    BY <1>2, <2>2, FreeFacts, RunFacts
       DEF CareInv, Blank, Reached, Passed, serverVars, Nothing
  <2>4. \A r \in Runs : Handed(r)' => Handed(r)
    BY <1>2 DEF Handed, serverVars
  <2>5. CASE answer = Nothing
    <3>1. UNCHANGED <<hasId, started, sent, dropped>>
      BY <1>4, <2>5 DEF Answer, RemoveFrame, pageHistory
    <3>2. Ids'
      BY <2>2, <3>1, FreeFacts, RunFacts DEF CareInv, Ids, Nothing
    <3>3. ASSUME NEW r \in Runs, Cared(r) PROVE Cared(r)'
      <4>1. Answered(r) => Answered(r)'
        BY <2>2, <2>5, RunFacts DEF Answered, Nothing
      <4>2. Running(r) => Running(r)'
        BY <3>1 DEF Running
      <4> QED BY <1>2, <3>1, <3>3, <4>1, <4>2 DEF Cared
    <3> QED BY <2>3, <2>4, <3>2, <3>3 DEF CareInv
  <2>6. CASE answer # Nothing
    <3>1. RunTest(p, s, answer)
      BY <1>4, <2>6 DEF Answer
    <3>2. /\ started' = [started EXCEPT ![p] = answer]
          /\ dropped' = dropped \union
               (IF requests[p][s].alone THEN {} ELSE {started[p]} \ {NoRun})
          /\ UNCHANGED <<hasId, sent>>
      BY <3>1 DEF RunTest, StartAfterRun
    <3>3. started[p] = NoRun \/ started[p] \in dropped'
      BY <1>2, <3>2 DEF PageInv, Alone
    <3>4. hasId[p]
      BY <1>4, <2>6 DEF CareInv, Ids
    <3>5. /\ started'[p] = answer
          /\ \A q \in Probes : q # p => started'[q] = started[q]
      BY <1>1, <3>2 DEF PageTypeOK
    <3>6. Ids'
      BY <2>2, <3>2, <3>4, <3>5, FreeFacts, RunFacts DEF CareInv, Ids, Nothing
    <3>7. ASSUME NEW r \in Runs, Cared(r) PROVE Cared(r)'
      <4>1. Answered(r) => Answered(r)' \/ Running(r)'
        BY <2>2, <3>5 DEF Answered, Running
      <4>2. Running(r) => Running(r)' \/ r \in dropped'
        BY <3>3, <3>5, RunFacts DEF Running
      <4> QED BY <1>2, <3>2, <3>7, <4>1, <4>2 DEF Cared
    <3> QED BY <2>3, <2>4, <3>6, <3>7 DEF CareInv
  <2> QED BY <2>5, <2>6
<1> QED BY <1>3, <1>4

LEMMA PageCares ==
  ASSUME Typed, PageInv, CareInv, NEW p \in Probes, PageStep(p)
  PROVE  CareInv'
<1>1. CASE Ready(p) \/ TimerBeat(p)
  BY <1>1, BeatCares DEF Ready, TimerBeat, serverHistory
<1>2. CASE FrameDone(p)
  <2>1. UNCHANGED <<hasId, serverVars, lost, dropped, unresolved>>
    BY <1>2 DEF FrameDone, serverHistory
  <2>2. CASE bound[p]
    BY <1>2, <2>1, <2>2, BeatCares DEF FrameDone
  <2>3. CASE ~ bound[p]
    <3>1. UNCHANGED <<requests, started, sent>>
      BY <1>2, <2>3 DEF FrameDone
    <3> QED BY <2>1, <3>1 DEF CareInv, Blank, Ids, Reached, Passed, Handed,
                              Cared, Answered, Running, serverVars
  <2> QED BY <2>2, <2>3
<1>3. CASE FrameLoads(p)
  BY <1>3 DEF FrameLoads, CareInv, Blank, Ids, Reached, Passed, Handed, Cared,
              Answered, Running, serverVars, pageHistory, serverHistory
<1>4. CASE Reopen(p)
  BY <1>4, ResetCares DEF Reopen, serverHistory, Typed, TypeOK, PageTypeOK
<1>5. CASE \E s \in Slots : Answer(p, s)
  BY <1>5, AnswerCares
<1> QED BY <1>1, <1>2, <1>3, <1>4, <1>5 DEF PageStep

\* A request that has not been served is served; any other is lost, or its
\* name looked up.
LEMMA ServerCares ==
  ASSUME Typed, CareInv, NEW p \in Probes, NEW s \in Slots,
         UNCHANGED <<hasId, started, sent, dropped>>, lost \subseteq lost',
         unresolved \subseteq unresolved',
         \A q \in Probes, k \in Slots : ~ (q = p /\ k = s)
           => requests'[q][k] = requests[q][k],
         \/ requests[p][s].at = "sent"
         \/ RunsOf(requests[p][s]) \subseteq lost'
         \/ requests[p][s].answer \in unresolved'
         \/ requests'[p][s].answer = requests[p][s].answer
  PROVE  \A r \in Runs : Cared(r) => Cared(r)'
<1> SUFFICES ASSUME NEW r \in Runs, Cared(r) PROVE Cared(r)'
  OBVIOUS
<1>1. Running(r) => Running(r)'
  BY DEF Running
<1>2. ASSUME NEW q \in Probes, NEW k \in Slots, requests[q][k].answer = r
      PROVE  Cared(r)'
  <2>1. CASE q = p /\ k = s
    <3>1. requests[p][s].at # "sent"
      BY <1>2, <2>1, RunFacts DEF CareInv, Blank, Nothing
    <3>2. r \in RunsOf(requests[p][s])
      BY <1>2, <2>1 DEF RunsOf
    <3>3. requests'[p][s].answer = requests[p][s].answer => Answered(r)'
      BY <1>2, <2>1 DEF Answered
    <3>4. requests[p][s].answer \in unresolved' => r \in unresolved'
      BY <1>2, <2>1
    <3> QED BY <3>1, <3>2, <3>3, <3>4 DEF Cared
  <2>2. CASE ~ (q = p /\ k = s)
    BY <1>2, <2>2 DEF Cared, Answered
  <2> QED BY <2>1, <2>2
<1> QED BY <1>1, <1>2 DEF Cared, Answered

LEMMA LoseCares ==
  ASSUME Typed, CareInv, NEW p \in Probes, NEW s \in Slots,
         requests' = [requests EXCEPT ![p][s] = Free],
         UNCHANGED <<pageVars, serverVars, pageHistory, unresolved>>,
         lost \subseteq lost',
         \/ requests[p][s].at = "sent"
         \/ RunsOf(requests[p][s]) \subseteq lost'
  PROVE  CareInv'
<1>1. /\ requests'[p][s] = Free
      /\ \A q \in Probes, k \in Slots : ~ (q = p /\ k = s)
           => requests'[q][k] = requests[q][k]
  BY DEF Typed, TypeOK
<1>2. UNCHANGED <<hasId, started, sent, dropped>>
  BY DEF pageVars, pageHistory
<1>3. Blank' /\ Ids' /\ Reached' /\ Passed'
  BY <1>1, <1>2, FreeFacts, RunFacts
     DEF CareInv, Blank, Ids, Reached, Passed, serverVars, Nothing
<1>4. \A r \in Runs : Cared(r) => Cared(r)'
  BY <1>1, <1>2, ServerCares
<1>5. \A r \in Runs : Handed(r)' => Handed(r)
  BY DEF Handed, serverVars
<1> QED BY <1>3, <1>4, <1>5 DEF CareInv

\* The queue goes forward.
LEMMA StartGoesOn ==
  ASSUME Typed, NEW n \in Nat, NEW otherwise, NEW counted, NEW late,
         Start(Polled(n), otherwise, counted, late)
  PROVE  /\ taken \in Nat /\ taken' \in Nat /\ taken <= taken'
         /\ current' = 0 \/ current' = taken + 1
<1>1. taken \in Nat
  BY ListsLength DEF Typed, TypeOK, ServerTypeOK
<1> QED BY <1>1 DEF Start, Polled

\* What was passed by stays so, and is not the task that comes.
LEMMA PassedOn ==
  ASSUME Typed, CareInv,
         \/ UNCHANGED <<taken, current>>
         \/ /\ taken \in Nat /\ taken' \in Nat /\ taken <= taken'
            /\ current' = 0 \/ current' = taken + 1
  PROVE  \A r \in unresolved : r[1] <= taken' /\ r[1] # current'
<1>1. \A r \in unresolved : r[1] \in Nat \ {0} /\ r[1] <= taken
  BY RunFacts, ListsLength DEF Typed, TypeOK, HistoryTypeOK, CareInv, Passed, Tasks
<1>2. taken \in Nat
  BY ListsLength DEF Typed, TypeOK, ServerTypeOK
<1> QED BY <1>1, <1>2 DEF CareInv, Passed

\* The runs in the requests are of tasks that have been taken.
LEMMA ReachedOn ==
  ASSUME Typed, CareInv, taken' \in Nat, taken <= taken',
         \A q \in Probes, k \in Slots :
           \/ requests'[q][k].answer = requests[q][k].answer
           \/ requests'[q][k].answer \in Runs
                => requests'[q][k].answer[1] \in Nat
                   /\ requests'[q][k].answer[1] <= taken
  PROVE  Reached'
<1>1. \A r \in Runs : r[1] \in Nat
  BY RunFacts, ListsLength DEF Tasks
<1>2. taken \in Nat
  BY ListsLength DEF Typed, TypeOK, ServerTypeOK
<1> QED BY <1>1, <1>2 DEF CareInv, Reached

LEMMA ReplyCares ==
  ASSUME Typed, CareInv, NEW p \in Probes, NEW s \in Slots, NEW at, NEW answer,
         GoesOn(p, s, at, answer), hasId[p] <=> answer # AnId,
         \/ requests[p][s].at = "sent"
         \/ requests[p][s].answer \in {answer} \union unresolved',
         UNCHANGED <<pageVars, pageHistory, lost>>,
         unresolved \subseteq unresolved'
  PROVE  /\ Blank' /\ Ids'
         /\ \A r \in Runs : Cared(r) => Cared(r)'
         /\ answer \in Runs => Cared(answer)'
<1>1. /\ requests'[p][s].at = at /\ requests'[p][s].answer = answer
      /\ at \in {"named", "answered"}
      /\ \A q \in Probes, k \in Slots : ~ (q = p /\ k = s)
           => requests'[q][k] = requests[q][k]
  BY ReplyFields DEF GoesOn
<1>2. UNCHANGED <<hasId, started, sent, dropped>>
  BY DEF pageVars, pageHistory
<1>3. Blank'
  BY <1>1 DEF CareInv, Blank
<1>4. Ids'
  BY <1>1, <1>2, RunFacts DEF CareInv, Ids, Nothing, GoesOn
<1>5. \A r \in Runs : Cared(r) => Cared(r)'
  BY <1>1, <1>2, ServerCares
<1>6. answer \in Runs => Cared(answer)'
  BY <1>1 DEF Cared, Answered
<1> QED BY <1>3, <1>4, <1>5, <1>6

LEMMA NoticeCares ==
  ASSUME Typed, CareInv, NEW p \in Probes, NEW s \in Slots, Notice(p, s)
  PROVE  CareInv'
<1>1. /\ requests[p][s].at = "sent" /\ hasId[p] /\ processor # 0
      /\ UNCHANGED <<pageVars, submitted, pageHistory, lost, unresolved>>
  BY DEF Notice
<1>2. /\ processor \in Tasks /\ processor \in Nat /\ processor <= taken
      /\ Size \in Nat /\ next \in [Tasks -> Nat \ {0}]
      /\ next[processor] <= Size => <<processor, next[processor]>> \in Runs
  BY <1>1, TableFacts DEF Tasks
<1>3. /\ taken \in Nat /\ taken' \in Nat /\ taken <= taken'
      /\ \/ UNCHANGED <<taken, current>>
         \/ current' = 0 \/ current' = taken + 1
  <2>1. submitted \in Nat /\ taken \in Nat
    BY ListsLength DEF Typed, TypeOK, ServerTypeOK
  <2>2. CASE UNCHANGED <<taken, current>>
    BY <2>1, <2>2
  <2>3. CASE ~ UNCHANGED <<taken, current>>
    <3>1. \E otherwise, counted, late :
            Start(Polled(submitted), otherwise, counted, late)
      BY <2>3 DEF Notice
    <3> QED BY <2>1, <3>1, StartGoesOn
  <2> QED BY <2>2, <2>3
<1>4. Passed'
  BY <1>1, <1>3, PassedOn DEF Passed
<1>5. CASE next[processor] <= Size
  <2>1. PICK new \in Runs : new = <<processor, next[processor]>>
    BY <1>2, <1>5
  <2>2. GoesOn(p, s, "named", new) /\ next' = [next EXCEPT ![processor] = @ + 1]
    BY <1>5, <2>1 DEF Notice, GoesOn
  <2>3. /\ Blank' /\ Ids' /\ Cared(new)'
        /\ \A r \in Runs : Cared(r) => Cared(r)'
    BY <1>1, <2>2, RunFacts, ReplyCares
  <2>4. ASSUME NEW r \in Runs, Handed(r)' PROVE r = new \/ Handed(r)
    <3>1. r = <<r[1], r[2]>> /\ r[1] \in Tasks /\ r[2] \in Nat
      BY RunFacts, ListsAssumption DEF Tasks
    <3>2. next[r[1]] \in Nat
      BY <1>2, <3>1
    <3>3. CASE r[1] = processor
      BY <1>2, <2>1, <2>2, <2>4, <3>1, <3>2, <3>3 DEF Handed
    <3>4. CASE r[1] # processor
      BY <1>2, <2>2, <2>4, <3>1, <3>4 DEF Handed
    <3> QED BY <3>3, <3>4
  <2>5. Reached'
    <3>1. /\ requests'[p][s].answer = new
          /\ \A q \in Probes, k \in Slots : ~ (q = p /\ k = s)
               => requests'[q][k] = requests[q][k]
      BY <2>2, ReplyFields
    <3>2. new[1] = processor
      BY <2>1
    <3> QED BY <1>2, <1>3, <3>1, <3>2, ReachedOn
  <2> QED BY <1>4, <2>3, <2>4, <2>5 DEF CareInv
<1>6. CASE ~ next[processor] <= Size
  <2>1. GoesOn(p, s, "answered", Nothing) /\ next' = next
    BY <1>2, <1>6, ReplyGoesOn DEF Notice
  <2>2. /\ Blank' /\ Ids'
        /\ \A r \in Runs : Cared(r) => Cared(r)'
    BY <1>1, <2>1, RunFacts, ReplyCares DEF Nothing
  <2>3. Reached'
    <3>1. /\ requests'[p][s].answer = Nothing
          /\ \A q \in Probes, k \in Slots : ~ (q = p /\ k = s)
               => requests'[q][k] = requests[q][k]
      BY <2>1, ReplyFields
    <3> QED BY <1>3, <3>1, RunFacts, ReachedOn DEF Nothing
  <2> QED BY <1>4, <2>1, <2>2, <2>3 DEF CareInv, Handed
<1> QED BY <1>5, <1>6

\* A name that is not found belongs to a task that is not current.
LEMMA ResolveCares ==
  ASSUME Typed, CareInv, NEW p \in Probes, NEW s \in Slots, Resolve(p, s)
  PROVE  CareInv'
<1> DEFINE run == requests[p][s].answer
           found == current # 0 /\ HasName(current, NameOf(run))
<1>1. /\ requests[p][s].at = "named"
      /\ UNCHANGED <<pageVars, serverVars, pageHistory, lost>>
      /\ unresolved' = IF found THEN unresolved ELSE unresolved \union {run}
  BY DEF Resolve
<1>2. requests[p][s] \in Requests /\ requests \in [Probes -> [Slots -> Requests]]
  BY DEF Typed, TypeOK
<1>3. run \in Runs
  BY <1>1, <1>2 DEF Requests
<1>4. run[1] \in Nat \ {0} /\ run[1] <= taken
  BY <1>3, RunFacts, ListsLength DEF CareInv, Reached, Tasks
<1>5. run[1] = current => found
  <2> SUFFICES ASSUME run[1] = current PROVE found
    OBVIOUS
  <2>1. run[2] \in 1..Len(KissList[run[1]])
    BY <1>3, RunFacts
  <2> QED BY <1>4, <2>1 DEF HasName, NameOf
<1>6. Passed'
  BY <1>1, <1>4, <1>5 DEF CareInv, Passed, serverVars
<1>7. hasId[p]
  BY <1>3, RunFacts DEF CareInv, Ids, Nothing
<1>8. taken \in Nat
  BY ListsLength DEF Typed, TypeOK, ServerTypeOK
<1>9. ASSUME NEW answer \in {run, Nothing}, Reply(p, s, answer),
             answer = run \/ ~ found
      PROVE  /\ Blank' /\ Ids' /\ Reached'
             /\ \A r \in Runs : Cared(r) => Cared(r)'
  <2>1. GoesOn(p, s, "answered", answer)
    BY <1>3, <1>9, ReplyGoesOn
  <2>2. run \in {answer} \union unresolved' /\ unresolved \subseteq unresolved'
    BY <1>1, <1>9
  <2>3. hasId[p] <=> answer # AnId
    BY <1>3, <1>7, <1>9, RunFacts DEF Nothing
  <2>4. Blank' /\ Ids' /\ \A r \in Runs : Cared(r) => Cared(r)'
    BY <1>1, <2>1, <2>2, <2>3, ReplyCares
  <2>5. /\ requests'[p][s].answer = answer
        /\ \A q \in Probes, k \in Slots : ~ (q = p /\ k = s)
             => requests'[q][k] = requests[q][k]
    BY <2>1, ReplyFields
  <2>6. Reached'
    <3> USE DEF CareInv, Reached, serverVars
    <3>1. CASE answer = run
      BY <1>1, <1>4, <2>5, <3>1
    <3>2. CASE answer # run
      <4>1. answer \notin Runs
        BY <1>9, <3>2, RunFacts DEF Nothing
      <4> QED BY <1>1, <2>5, <4>1
    <3> QED BY <3>1, <3>2
  <2> QED BY <2>4, <2>6
<1>10. CASE ~ found /\ Fail(p, s)
  <2>1. /\ requests'[p][s] = Free
        /\ \A q \in Probes, k \in Slots : ~ (q = p /\ k = s)
             => requests'[q][k] = requests[q][k]
    BY <1>2, <1>10 DEF Fail
  <2>2. UNCHANGED <<hasId, started, sent, dropped>>
    BY <1>1 DEF pageVars, pageHistory
  <2>3. Blank' /\ Ids' /\ Reached'
    BY <1>1, <2>1, <2>2, FreeFacts, RunFacts
       DEF CareInv, Blank, Ids, Reached, serverVars, Nothing
  <2>4. \A r \in Runs : Cared(r) => Cared(r)'
    BY <1>1, <1>10, <2>1, <2>2, ServerCares
  <2> QED BY <1>1, <1>6, <2>3, <2>4 DEF CareInv, Handed, serverVars
<1>11. CASE found /\ Reply(p, s, run)
  <2>1. Blank' /\ Ids' /\ Reached' /\ \A r \in Runs : Cared(r) => Cared(r)'
    BY <1>9, <1>11
  <2> QED BY <1>1, <1>6, <2>1 DEF CareInv, Handed, serverVars
<1>12. CASE ~ found /\ Reply(p, s, Nothing)
  <2>1. Blank' /\ Ids' /\ Reached' /\ \A r \in Runs : Cared(r) => Cared(r)'
    BY <1>9, <1>12
  <2> QED BY <1>1, <1>6, <2>1 DEF CareInv, Handed, serverVars
<1> QED BY <1>10, <1>11, <1>12 DEF Resolve

LEMMA NextCares == Typed /\ PageInv /\ CareInv /\ [Next]_vars => CareInv'
<1> SUFFICES ASSUME Typed, PageInv, CareInv, [Next]_vars PROVE CareInv'
  OBVIOUS
<1>1. ASSUME NEW p \in Probes, NEW s \in Slots, Lose(p, s) PROVE CareInv'
  BY <1>1, LoseCares DEF Lose, serverHistory
<1>2. ASSUME NEW p \in Probes, NEW s \in Slots, Serve(p, s) PROVE CareInv'
  <2>1. CASE UnknownNotice(p, s)
    BY <2>1, LoseCares DEF UnknownNotice, Fail, serverHistory
  <2>2. CASE Register(p, s) \/ IdleNotice(p, s)
    <3>1. PICK answer \in {Nothing, AnId} :
            Reply(p, s, answer) /\ (hasId[p] <=> answer # AnId)
      BY <2>2, RunFacts DEF Register, IdleNotice, Nothing
    <3>2. /\ requests[p][s].at = "sent"
          /\ UNCHANGED <<pageVars, serverVars, pageHistory, lost, unresolved>>
      BY <2>2 DEF Register, IdleNotice, serverHistory
    <3>3. GoesOn(p, s, "answered", answer)
      BY <3>1, ReplyGoesOn
    <3>4. Blank' /\ Ids' /\ \A r \in Runs : Cared(r) => Cared(r)'
      BY <3>1, <3>2, <3>3, ReplyCares
    <3>5. /\ requests'[p][s].answer = answer
          /\ \A q \in Probes, k \in Slots : ~ (q = p /\ k = s)
               => requests'[q][k] = requests[q][k]
      BY <3>3, ReplyFields
    <3>6. Reached'
      BY <3>2, <3>5, RunFacts DEF CareInv, Reached, serverVars, Nothing
    <3> QED BY <3>2, <3>4, <3>6 DEF CareInv, Passed, Handed, serverVars
  <2> QED BY <1>2, <2>1, <2>2, NoticeCares, ResolveCares DEF Serve
<1>3. CASE Expire \/ UNCHANGED vars
  BY <1>3 DEF Expire, vars, CareInv, Blank, Ids, Reached, Passed, Handed, Cared, Answered,
              Running, pageVars, serverVars, pageHistory, serverHistory
<1>4. CASE AddTask \/ OthersTake
  <2>1. UNCHANGED <<pageVars, requests, next, pageHistory, lost, unresolved>>
    BY <1>4 DEF AddTask, OthersTake
  <2>2. Blank' /\ Ids' /\ \A r \in Runs : Cared(r)' <=> Cared(r)
    BY <2>1 DEF CareInv, Blank, Ids, Cared, Answered, Running, pageVars, pageHistory
  <2>3. /\ taken \in Nat /\ taken' \in Nat /\ taken <= taken'
        /\ \/ UNCHANGED <<taken, current>>
           \/ current' = 0 \/ current' = taken + 1
    <3>1. submitted \in Nat /\ submitted' \in Nat /\ taken \in Nat
      BY <1>4, ListsLength DEF AddTask, OthersTake, Typed, TypeOK, ServerTypeOK
    <3>2. CASE UNCHANGED <<taken, current>>
      BY <3>1, <3>2
    <3>3. CASE ~ UNCHANGED <<taken, current>>
      <4>1. Start(Polled(submitted'), processor, count, expired)
        BY <1>4, <3>3 DEF AddTask, OthersTake
      <4> QED BY <3>1, <4>1, StartGoesOn
    <3> QED BY <3>2, <3>3
  <2>4. Passed'
    BY <2>1, <2>3, PassedOn DEF Passed
  <2>5. Reached'
    BY <2>1, <2>3, ReachedOn
  <2> QED BY <2>1, <2>2, <2>4, <2>5 DEF CareInv, Handed
<1>5. CASE Restart
  <2>1. /\ requests' = [p \in Probes |-> [s \in Slots |-> Free]]
        /\ lost' = lost \union UNION {InRequests(p) : p \in Probes}
        /\ UNCHANGED <<hasId, started, taken, current, next, sent, dropped,
                       unresolved>>
    BY <1>5 DEF Restart, pageVars, serverVars, pageHistory, serverHistory
  <2>2. Blank' /\ Ids' /\ Reached' /\ Passed'
    BY <2>1, FreeFacts, RunFacts
       DEF CareInv, Blank, Ids, Reached, Passed, Nothing
  <2>3. ASSUME NEW r \in Runs, Cared(r) PROVE Cared(r)'
    <3>1. Answered(r) => r \in lost'
      BY <2>1 DEF Answered, InRequests, RunsOf
    <3> QED BY <2>1, <2>3, <3>1 DEF Cared, Running
  <2> QED BY <2>1, <2>2, <2>3 DEF CareInv, Handed
<1> QED BY <1>1, <1>2, <1>3, <1>4, <1>5, PageCares DEF Next, NetStep

LEMMA InitCares == Init => CareInv
<1> SUFFICES ASSUME Init PROVE CareInv
  OBVIOUS
<1>1. Blank /\ Ids /\ Reached /\ Passed
  BY FreeFacts, RunFacts DEF Init, Blank, Ids, Reached, Passed, Nothing
<1>2. ASSUME NEW r \in Runs PROVE ~ Handed(r)
  <2>1. r[1] \in Tasks /\ r[2] \in Nat \ {0}
    BY RunFacts, ListsAssumption DEF Tasks
  <2>2. next[r[1]] = 1
    BY <2>1 DEF Init
  <2> QED BY <2>1, <2>2 DEF Handed
<1> QED BY <1>1, <1>2 DEF CareInv

\* probe.js, CaptureHandler.probe and BrowserHolderImpl.notice: a kiss that was
\* handed out is reported unless it was lost on the way, two requests of the
\* page overlapped, or its name was looked up when the queue had left its task;
\* no other step forgets it.
THEOREM NoneForgottenCorrect == Safety => []NoneForgotten
<1>1. CareInv => NoneForgotten
  BY DEF CareInv, Passed, Cared, NoneForgotten
<1> QED BY <1>1, InitTypes, NextTypes, InitPages, NextPages, InitCares, NextCares,
           PTL DEF Safety
-----------------------------------------------------------------------------
(***************************************************************************)
(* A result that is stored for a task that did not hand the kiss out.  The *)
(* argument follows a run from the answer that hands it out to the result  *)
(* that is stored: it is in one place at a time, so that its result comes  *)
(* once, and a task ends with the result of each of its runs or marks it   *)
(* as missing.                                                             *)
(***************************************************************************)
\* A request carries a run to the page, in its answer, or back, in its result.
Holds(p, s, r) == requests[p][s].result.run = r \/ requests[p][s].answer = r

Counted(r) == \E t \in Tasks : <<r, t>> \in stored

Held(r) == \/ Running(r) \/ Counted(r)
           \/ \E p \in Probes, s \in Slots : Holds(p, s, r)

\* A run is in one request or runs in one page or is stored.
Once(r) ==
  /\ \A p, q \in Probes, s, k \in Slots :
       Holds(p, s, r) /\ Holds(q, k, r) => p = q /\ s = k
  /\ \A p, q \in Probes : started[p] = r /\ started[q] = r => p = q
  /\ \A p \in Probes, s \in Slots : Holds(p, s, r) => ~ Running(r) /\ ~ Counted(r)
  /\ Running(r) => ~ Counted(r)

\* What is somewhere was handed out.
Placed(r) == Once(r) /\ (Held(r) => Handed(r))

\* A task that is over has the result of each run or marks it as missing.
Settled(r) ==
  Handed(r) /\ r[1] # processor => r \in short \/ <<r, r[1]>> \in stored

CountInv == /\ \A r \in Runs : Placed(r) /\ Settled(r)
            /\ StrayTaskShort

-----------------------------------------------------------------------------
\* A run that appears nowhere new stays in one place.
LEMMA FewerPlaces ==
  ASSUME NEW r \in Runs, Once(r),
         \A p \in Probes, s \in Slots : Holds(p, s, r)' => Holds(p, s, r),
         \A p \in Probes : started'[p] = r => started[p] = r,
         Counted(r)' => Counted(r)
  PROVE  Once(r)' /\ (Held(r)' => Held(r))
BY DEF Once, Held, Running

\* A run that is now in one request only.
LEMMA OneRequest ==
  ASSUME NEW r \in Runs, NEW p \in Probes, NEW s \in Slots,
         \A q \in Probes, k \in Slots : Holds(q, k, r)' => q = p /\ k = s,
         \A q \in Probes : started'[q] # r,
         ~ Counted(r)'
  PROVE  Once(r)'
BY DEF Once, Running

LEMMA FreeHolds == \A r \in Runs : Free.result.run # r /\ Free.answer # r
BY RunFacts DEF Free, NoResult, Result, Nothing

\* A step of pages and network that puts no run anywhere.
LEMMA NothingNew ==
  ASSUME CountInv,
         \A q \in Probes, k \in Slots :
           requests'[q][k] = requests[q][k] \/ requests'[q][k] = Free,
         \A r \in Runs, q \in Probes : started'[q] = r => started[q] = r,
         UNCHANGED <<serverVars, serverHistory>>
  PROVE  CountInv'
<1>1. ASSUME NEW r \in Runs PROVE Placed(r)' /\ Settled(r)'
  <2>1. \A p \in Probes, s \in Slots : Holds(p, s, r)' => Holds(p, s, r)
    BY FreeHolds DEF Holds
  <2>2. (Counted(r)' => Counted(r)) /\ (Handed(r) => Handed(r)')
    BY DEF Counted, Handed, serverVars, serverHistory
  <2>3. Placed(r)'
    BY <2>1, <2>2, FewerPlaces DEF CountInv, Placed
  <2> QED BY <2>3 DEF CountInv, Settled, Handed, serverVars, serverHistory
<1>2. StrayTaskShort'
  BY DEF CountInv, StrayTaskShort, serverHistory
<1> QED BY <1>1, <1>2 DEF CountInv

\* A beat takes the run from the page into a request that was free.
LEMMA BeatCounts ==
  ASSUME Typed, CountInv, NEW p \in Probes, Beat(p),
         UNCHANGED <<serverVars, serverHistory>>
  PROVE  CountInv'
<1>1. PICK f \in Slots :
        /\ requests[p][f].at = "free"
        /\ requests' = [requests EXCEPT ![p] = Posted(p, f, ResultOf(p))]
        /\ \A k \in Slots : requests[p][k] \in Requests
  BY BeatFacts
<1>2. requests \in [Probes -> [Slots -> Requests]] /\ PageTypeOK
  BY DEF Typed, TypeOK
<1>3. /\ requests'[p][f].result = ResultOf(p)
      /\ requests'[p][f].answer = Nothing
  <2>1. requests'[p][f] = [at |-> "sent", result |-> ResultOf(p),
                           answer |-> Nothing, alone |-> Open(p) = {}]
    BY <1>1, <1>2 DEF Posted
  <2> QED BY <2>1
<1>4. ASSUME NEW q \in Probes, NEW k \in Slots, ~ (q = p /\ k = f)
      PROVE  /\ requests'[q][k].result = requests[q][k].result
             /\ requests'[q][k].answer = requests[q][k].answer
  <2>1. CASE q # p
    BY <1>1, <1>2, <2>1
  <2>2. CASE q = p
    <3>1. requests'[p][k] = [requests[p][k] EXCEPT
                               !.alone = @ /\ requests[p][k].at = "free"]
      BY <1>1, <1>2, <1>4, <2>2 DEF Posted
    <3>2. requests[p][k] \in Requests
      BY <1>1
    <3> QED BY <2>2, <3>1, <3>2 DEF Requests
  <2> QED BY <2>1, <2>2
<1>5. /\ started'[p] = NoRun
      /\ \A q \in Probes : q # p => started'[q] = started[q]
  BY <1>2 DEF Beat, StartAfterBeat, PageTypeOK
<1>6. \A r \in Runs : /\ Counted(r)' <=> Counted(r)
                      /\ Handed(r)' <=> Handed(r)
  BY DEF Counted, Handed, serverVars, serverHistory
<1>7. ASSUME NEW r \in Runs PROVE Placed(r)'
  <2>1. Once(r) /\ (Held(r) => Handed(r))
    BY DEF CountInv, Placed
  <2>2. CASE r = started[p]
    <3>1. Handed(r) /\ ~ Counted(r)
          /\ \A q \in Probes, k \in Slots : ~ Holds(q, k, r)
      BY <2>1, <2>2 DEF Once, Held, Running
    <3>2. \A q \in Probes, k \in Slots : Holds(q, k, r)' => q = p /\ k = f
      BY <1>4, <3>1 DEF Holds
    <3>3. \A q \in Probes : started'[q] # r
      BY <1>5, <2>1, <2>2, RunFacts DEF Once
    <3> QED BY <1>6, <3>1, <3>2, <3>3, OneRequest DEF Placed
  <2>3. CASE r # started[p]
    <3>1. ResultOf(p).run # r
      BY <2>3, RunFacts DEF ResultOf, Result, NoResult
    <3>2. \A q \in Probes, k \in Slots : Holds(q, k, r)' => Holds(q, k, r)
      BY <1>3, <1>4, <3>1, RunFacts DEF Holds, Nothing
    <3>3. \A q \in Probes : started'[q] = r => started[q] = r
      BY <1>5, RunFacts
    <3> QED BY <1>6, <2>1, <3>2, <3>3, FewerPlaces DEF Placed
  <2> QED BY <2>2, <2>3
<1>8. \A r \in Runs : Settled(r)'
  BY DEF CountInv, Settled, Handed, serverVars, serverHistory
<1>9. StrayTaskShort'
  BY DEF CountInv, StrayTaskShort, serverHistory
<1> QED BY <1>7, <1>8, <1>9 DEF CountInv

\* Nothing of the old document is left.
LEMMA ResetCounts ==
  ASSUME Typed, CountInv, NEW p \in Probes, Reset(p),
         UNCHANGED <<serverVars, serverHistory>>
  PROVE  CountInv'
<1>1. PageTypeOK /\ requests \in [Probes -> [Slots -> Requests]]
  BY DEF Typed, TypeOK
<1>2. \A q \in Probes, k \in Slots :
        requests'[q][k] = requests[q][k] \/ requests'[q][k] = Free
  BY <1>1 DEF Reset
<1>3. \A r \in Runs, q \in Probes : started'[q] = r => started[q] = r
  BY <1>1, RunFacts DEF Reset, PageTypeOK
<1> QED BY <1>2, <1>3, NothingNew

\* runtest takes the run from the answer into the page.
LEMMA AnswerCounts ==
  ASSUME Typed, CountInv, NEW p \in Probes, NEW s \in Slots, Answer(p, s)
  PROVE  CountInv'
<1> DEFINE answer == requests[p][s].answer
<1>1. PageTypeOK /\ requests \in [Probes -> [Slots -> Requests]]
  BY DEF Typed, TypeOK
<1>2. UNCHANGED <<serverVars, serverHistory>>
  BY DEF Answer
<1>3. CASE answer = AnId
  BY <1>2, <1>3, ResetCounts DEF Answer
<1>4. CASE answer # AnId
  <2>1. requests' = [requests EXCEPT ![p][s] = Free]
    BY <1>4 DEF Answer
  <2>2. /\ requests'[p][s] = Free
        /\ \A q \in Probes, k \in Slots : ~ (q = p /\ k = s)
             => requests'[q][k] = requests[q][k]
    BY <1>1, <2>1
  <2>3. CASE answer = Nothing
    <3>1. started' = started
      BY <1>4, <2>3 DEF Answer, RemoveFrame
    <3> QED BY <1>2, <2>2, <3>1, NothingNew
  <2>4. CASE answer # Nothing
    <3>1. started' = [started EXCEPT ![p] = answer]
      BY <1>4, <2>4 DEF Answer, RunTest, StartAfterRun
    <3>2. /\ started'[p] = answer
          /\ \A q \in Probes : q # p => started'[q] = started[q]
      BY <1>1, <3>1 DEF PageTypeOK
    <3>3. \A r \in Runs : /\ Counted(r)' <=> Counted(r)
                          /\ Handed(r)' <=> Handed(r)
      BY <1>2 DEF Counted, Handed, serverVars, serverHistory
    <3>4. \A r \in Runs, q \in Probes, k \in Slots :
            Holds(q, k, r)' => Holds(q, k, r) /\ ~ (q = p /\ k = s)
      BY <2>2, FreeHolds DEF Holds
    <3>5. ASSUME NEW r \in Runs PROVE Placed(r)'
      <4>1. Once(r) /\ (Held(r) => Handed(r))
        BY DEF CountInv, Placed
      <4>2. CASE r = answer
        <5>1. Holds(p, s, r)
          BY <4>2 DEF Holds
        <5>2. Handed(r) /\ ~ Counted(r) /\ \A q \in Probes : started[q] # r
          BY <4>1, <5>1 DEF Once, Held, Running
        <5>3. \A q \in Probes, k \in Slots : ~ Holds(q, k, r)'
          BY <3>4, <4>1, <5>1 DEF Once
        <5>4. \A q \in Probes : started'[q] = r => q = p
          BY <3>2, <5>2
        <5>5. Once(r)'
          BY <3>3, <5>2, <5>3, <5>4 DEF Once
        <5> QED BY <3>3, <5>2, <5>5 DEF Placed
      <4>3. CASE r # answer
        <5>1. \A q \in Probes : started'[q] = r => started[q] = r
          BY <3>2, <4>3
        <5> QED BY <3>3, <3>4, <4>1, <5>1, FewerPlaces DEF Placed
      <4> QED BY <4>2, <4>3
    <3>6. (\A r \in Runs : Settled(r)') /\ StrayTaskShort'
      BY <1>2 DEF CountInv, Settled, Handed, StrayTaskShort, serverVars, serverHistory
    <3> QED BY <3>5, <3>6 DEF CountInv
  <2> QED BY <2>3, <2>4
<1> QED BY <1>3, <1>4

LEMMA PageCounts ==
  ASSUME Typed, CountInv, NEW p \in Probes, PageStep(p)
  PROVE  CountInv'
<1>1. CASE Ready(p) \/ TimerBeat(p)
  BY <1>1, BeatCounts DEF Ready, TimerBeat
<1>2. CASE FrameDone(p)
  <2>1. UNCHANGED <<serverVars, serverHistory>>
    BY <1>2 DEF FrameDone
  <2>2. CASE bound[p]
    BY <1>2, <2>1, <2>2, BeatCounts DEF FrameDone
  <2>3. CASE ~ bound[p]
    BY <1>2, <2>1, <2>3, NothingNew DEF FrameDone
  <2> QED BY <2>2, <2>3
<1>3. CASE FrameLoads(p)
  BY <1>3, NothingNew DEF FrameLoads
<1>4. CASE Reopen(p)
  BY <1>4, ResetCounts DEF Reopen
<1>5. CASE \E s \in Slots : Answer(p, s)
  BY <1>5, AnswerCounts
<1> QED BY <1>1, <1>2, <1>3, <1>4, <1>5 DEF PageStep

-----------------------------------------------------------------------------
(* The server. *)

\* A request the server goes on with holds the run that it names, no other.
LEMMA ReplyHolds ==
  ASSUME Typed, NEW p \in Probes, NEW s \in Slots, NEW at, NEW answer,
         GoesOn(p, s, at, answer)
  PROVE  \A r \in Runs, q \in Probes, k \in Slots :
           Holds(q, k, r)' => \/ Holds(q, k, r) /\ ~ (q = p /\ k = s)
                              \/ q = p /\ k = s /\ r = answer
<1>1. /\ requests'[p][s].result = NoResult /\ requests'[p][s].answer = answer
      /\ \A q \in Probes, k \in Slots : ~ (q = p /\ k = s)
           => requests'[q][k] = requests[q][k]
  BY ReplyFields
<1>2. \A r \in Runs : NoResult.run # r
  BY RunFacts DEF NoResult, Result
<1> QED BY <1>1, <1>2 DEF Holds

\* A step of the network or the server that puts no run anywhere and leaves
\* the tables as they are.
LEMMA NothingMore ==
  ASSUME CountInv,
         \A r \in Runs, q \in Probes, k \in Slots :
           Holds(q, k, r)' => Holds(q, k, r),
         UNCHANGED <<started, next, processor, stored, short>>
  PROVE  CountInv'
<1>1. ASSUME NEW r \in Runs PROVE Placed(r)' /\ Settled(r)'
  <2>1. (Counted(r)' => Counted(r)) /\ (Handed(r)' <=> Handed(r))
    BY DEF Counted, Handed
  <2>2. Placed(r)'
    BY <2>1, FewerPlaces DEF CountInv, Placed
  <2> QED BY <2>1, <2>2 DEF CountInv, Settled
<1> QED BY <1>1 DEF CountInv, StrayTaskShort

\* A table that is left settles its runs.
LEMMA StartSettles ==
  ASSUME Typed, \A r \in Runs : Settled(r), NEW t, NEW otherwise, NEW counted,
         NEW late, Start(t, otherwise, counted, late), next' = next,
         stored \subseteq stored'
  PROVE  /\ short \subseteq short'
         /\ \A r \in Runs : Settled(r)'
<1>1. short \subseteq short'
  BY DEF Start
<1>2. ASSUME NEW r \in Runs PROVE Settled(r)'
  <2>1. CASE r[1] = processor
    BY <2>1, <1>2 DEF Start, Settled
  <2>2. CASE r[1] # processor
    BY <1>1, <2>2 DEF Settled, Handed
  <2> QED BY <2>1, <2>2
<1> QED BY <1>1, <1>2

\* What a notice stores came in its request, so it was handed out, is nowhere
\* else and was not stored before.
LEMMA StoredFacts ==
  ASSUME Typed, CountInv, NEW p \in Probes, NEW s \in Slots, Notice(p, s)
  PROVE  /\ processor \in Tasks
         /\ stored' = stored \/ Stores(p, s)
         /\ Stores(p, s) =>
              \E r \in Runs : /\ stored' = stored \union {<<r, processor>>}
                              /\ Handed(r) /\ ~ Running(r) /\ ~ Counted(r)
                              /\ Holds(p, s, r)
<1>1. processor \in Tasks
  BY TableFacts DEF Notice
<1>2. stored' = stored \/ Stores(p, s)
  BY DEF Notice
<1>3. ASSUME Stores(p, s)
      PROVE  \E r \in Runs : /\ stored' = stored \union {<<r, processor>>}
                             /\ Handed(r) /\ ~ Running(r) /\ ~ Counted(r)
                             /\ Holds(p, s, r)
  <2>1. requests[p][s] \in Requests
    BY DEF Typed, TypeOK
  <2>2. PICK r \in Runs : r = requests[p][s].result.run
    BY <1>3, <2>1 DEF Stores, Requests
  <2>3. stored' = stored \union {<<r, processor>>}
    BY <1>3, <2>2 DEF Notice
  <2>4. Holds(p, s, r)
    BY <2>2 DEF Holds
  <2>5. Handed(r) /\ ~ Running(r) /\ ~ Counted(r)
    BY <2>4 DEF CountInv, Placed, Once, Held
  <2> QED BY <2>3, <2>4, <2>5
<1> QED BY <1>1, <1>2, <1>3

\* The run an answer names is nowhere yet; what is stored leaves its request.
LEMMA NoticePlaces ==
  ASSUME Typed, CountInv, NEW p \in Probes, NEW s \in Slots, Notice(p, s),
         NEW at, NEW answer, GoesOn(p, s, at, answer),
         answer \in Runs => ~ Handed(answer) /\ Handed(answer)',
         \A r \in Runs : Handed(r) => Handed(r)'
  PROVE  \A r \in Runs : Placed(r)'
<1> SUFFICES ASSUME NEW r \in Runs PROVE Placed(r)'
  OBVIOUS
<1>1. Once(r) /\ (Held(r) => Handed(r))
  BY DEF CountInv, Placed
<1>2. started' = started
  BY DEF Notice, pageVars
<1>3. \A q \in Probes, k \in Slots :
        Holds(q, k, r)' => \/ Holds(q, k, r) /\ ~ (q = p /\ k = s)
                           \/ q = p /\ k = s /\ r = answer
  BY ReplyHolds
<1>4. CASE r = answer
  <2>1. ~ Held(r) /\ Handed(r)'
    BY <1>1, <1>4
  <2>2. ~ Counted(r)'
    BY <2>1, StoredFacts DEF Counted, Held
  <2>3. \A q \in Probes, k \in Slots : Holds(q, k, r)' => q = p /\ k = s
    BY <1>3, <2>1 DEF Held
  <2>4. \A q \in Probes : started'[q] # r
    BY <1>2, <2>1 DEF Held, Running
  <2> QED BY <2>1, <2>2, <2>3, <2>4, OneRequest DEF Placed
<1>5. CASE r # answer /\ Counted(r)' /\ ~ Counted(r)
  <2>1. Handed(r) /\ ~ Running(r) /\ Holds(p, s, r)
    BY <1>5, StoredFacts DEF Counted
  <2>2. \A q \in Probes, k \in Slots : ~ Holds(q, k, r)'
    BY <1>1, <1>3, <1>5, <2>1 DEF Once
  <2>3. ~ Running(r)'
    BY <1>2, <2>1 DEF Running
  <2>4. Once(r)'
    BY <2>2, <2>3 DEF Once, Running
  <2> QED BY <2>1, <2>4 DEF Placed
<1>6. CASE r # answer /\ (Counted(r)' => Counted(r))
  BY <1>1, <1>2, <1>3, <1>6, FewerPlaces DEF Placed
<1> QED BY <1>4, <1>5, <1>6

\* A result for another task's run is of a run that task is missing.
LEMMA StrayShort ==
  ASSUME Typed, CountInv, NEW p \in Probes, NEW s \in Slots, Notice(p, s)
  PROVE  StrayTaskShort'
<1>1. short \subseteq short'
  BY DEF Notice, Start
<1> SUFFICES ASSUME NEW pair \in stored', pair[1][1] # pair[2]
             PROVE  pair[1] \in short'
  BY DEF StrayTaskShort
<1>2. CASE pair \in stored
  BY <1>1, <1>2 DEF CountInv, StrayTaskShort
<1>3. CASE pair \notin stored
  <2>1. PICK r \in Runs : /\ stored' = stored \union {<<r, processor>>}
                         /\ Handed(r) /\ ~ Counted(r)
    BY <1>3, StoredFacts
  <2>2. pair = <<r, processor>> /\ r[1] # processor
    BY <1>3, <2>1
  <2>3. r[1] \in Tasks
    BY RunFacts
  <2>4. r \in short
    BY <2>1, <2>2, <2>3 DEF CountInv, Settled, Counted
  <2> QED BY <1>1, <2>2, <2>4
<1> QED BY <1>2, <1>3

LEMMA NoticeCounts ==
  ASSUME Typed, CountInv, NEW p \in Probes, NEW s \in Slots, Notice(p, s)
  PROVE  CountInv'
<1>1. /\ processor \in Tasks /\ Size \in Nat /\ next \in [Tasks -> Nat \ {0}]
      /\ next[processor] \in Nat
      /\ next[processor] <= Size => <<processor, next[processor]>> \in Runs
  BY TableFacts DEF Notice
<1>2. stored \subseteq stored'
  BY DEF Notice
<1>3. CASE next[processor] <= Size
  <2>1. PICK new \in Runs : new = <<processor, next[processor]>>
    BY <1>1, <1>3
  <2>2. /\ GoesOn(p, s, "named", new)
        /\ next' = [next EXCEPT ![processor] = @ + 1]
        /\ UNCHANGED <<processor, short>>
    BY <1>1, <1>3, <2>1 DEF Notice, GoesOn
  <2>3. new[1] = processor /\ new[2] = next[processor]
    BY <2>1
  <2>4. next'[processor] = next[processor] + 1
        /\ \A t \in Tasks : t # processor => next'[t] = next[t]
    BY <1>1, <2>2
  <2>5. ~ Handed(new) /\ Handed(new)'
    BY <1>1, <2>3, <2>4 DEF Handed
  <2>6. \A r \in Runs :
          /\ Handed(r) => Handed(r)'
          /\ r[1] # processor => (Handed(r)' <=> Handed(r))
    <3>1. \A r \in Runs : r[1] \in Tasks /\ r[2] \in Nat
      BY RunFacts, ListsAssumption DEF Tasks
    <3> QED BY <1>1, <2>4, <3>1 DEF Handed
  <2>7. \A r \in Runs : Placed(r)'
    <3>1. new \in Runs => ~ Handed(new) /\ Handed(new)'
      BY <2>5
    <3>2. \A r \in Runs : Handed(r) => Handed(r)'
      BY <2>6
    <3>3. GoesOn(p, s, "named", new)
      BY <2>2
    <3> QED BY <3>1, <3>2, <3>3, NoticePlaces
  <2>8. \A r \in Runs : Settled(r)'
    BY <1>2, <2>2, <2>6 DEF CountInv, Settled
  <2> QED BY <2>7, <2>8, StrayShort DEF CountInv
<1>4. CASE ~ next[processor] <= Size
  <2>1. GoesOn(p, s, "answered", Nothing) /\ next' = next
    BY <1>4, ReplyGoesOn DEF Notice
  <2>2. \A r \in Runs : Placed(r)'
    <3>1. \A r \in Runs : Handed(r) => Handed(r)'
      BY <2>1 DEF Handed
    <3> QED BY <2>1, <3>1, NoticePlaces, RunFacts DEF Nothing
  <2>3. \A r \in Runs : Settled(r)'
    <3>1. CASE UNCHANGED <<processor, short>>
      BY <1>2, <2>1, <3>1 DEF CountInv, Settled, Handed
    <3>2. CASE ~ UNCHANGED <<processor, short>>
      <4>1. \E t, otherwise, counted, late : Start(t, otherwise, counted, late)
        BY <3>2 DEF Notice
      <4> QED BY <1>2, <2>1, <4>1, StartSettles DEF CountInv
    <3> QED BY <3>1, <3>2
  <2> QED BY <2>2, <2>3, StrayShort DEF CountInv
<1> QED BY <1>3, <1>4

\* A name that was looked up stays where it is or is gone.
LEMMA ResolveCounts ==
  ASSUME Typed, CountInv, NEW p \in Probes, NEW s \in Slots, Resolve(p, s)
  PROVE  CountInv'
<1> DEFINE run == requests[p][s].answer
<1>1. /\ requests[p][s].at = "named"
      /\ UNCHANGED <<pageVars, serverVars, stored, short>>
  BY DEF Resolve
<1>2. requests \in [Probes -> [Slots -> Requests]] /\ requests[p][s] \in Requests
  BY DEF Typed, TypeOK
<1>3. run \in Runs
  BY <1>1, <1>2 DEF Requests
<1>4. \A r \in Runs, q \in Probes, k \in Slots : Holds(q, k, r)' => Holds(q, k, r)
  <2>1. CASE Fail(p, s)
    <3>1. \A q \in Probes, k \in Slots :
            requests'[q][k] = requests[q][k] \/ requests'[q][k] = Free
      BY <1>2, <2>1 DEF Fail
    <3> QED BY <3>1, FreeHolds DEF Holds
  <2>2. CASE \E answer \in {run, Nothing} : Reply(p, s, answer)
    <3>1. PICK answer \in {run, Nothing} : GoesOn(p, s, "answered", answer)
      BY <1>3, <2>2, ReplyGoesOn
    <3>2. Holds(p, s, run)
      BY DEF Holds
    <3> QED BY <3>1, <3>2, ReplyHolds, RunFacts DEF Nothing
  <2> QED BY <2>1, <2>2 DEF Resolve
<1> QED BY <1>1, <1>4, NothingMore DEF pageVars, serverVars

LEMMA NextCounts == Typed /\ CountInv /\ [Next]_vars => CountInv'
<1> SUFFICES ASSUME Typed, CountInv, [Next]_vars PROVE CountInv'
  OBVIOUS
<1>1. ASSUME NEW p \in Probes, NEW s \in Slots,
             Lose(p, s) \/ UnknownNotice(p, s)
      PROVE  CountInv'
  <2>1. \A q \in Probes, k \in Slots :
          requests'[q][k] = requests[q][k] \/ requests'[q][k] = Free
    BY <1>1 DEF Lose, UnknownNotice, Fail, Typed, TypeOK
  <2> QED BY <1>1, <2>1, NothingNew DEF Lose, UnknownNotice, pageVars
<1>2. ASSUME NEW p \in Probes, NEW s \in Slots,
             Register(p, s) \/ IdleNotice(p, s)
      PROVE  CountInv'
  <2>1. PICK answer \in {Nothing, AnId} : GoesOn(p, s, "answered", answer)
    BY <1>2, ReplyGoesOn DEF Register, IdleNotice
  <2>2. UNCHANGED <<started, next, processor, stored, short>>
    BY <1>2 DEF Register, IdleNotice, pageVars, serverVars, serverHistory
  <2>3. \A r \in Runs, q \in Probes, k \in Slots : Holds(q, k, r)' => Holds(q, k, r)
    BY <2>1, ReplyHolds, RunFacts DEF Nothing
  <2> QED BY <2>2, <2>3, NothingMore
<1>3. CASE Expire \/ UNCHANGED vars
  <2>1. UNCHANGED <<requests, started, next, processor, stored, short>>
    BY <1>3 DEF Expire, vars, pageVars, serverVars, serverHistory
  <2> QED BY <2>1, NothingMore DEF Holds
<1>4. CASE AddTask \/ OthersTake
  <2>1. UNCHANGED <<requests, started, next, stored>>
    BY <1>4 DEF AddTask, OthersTake, pageVars
  <2>2. CASE UNCHANGED <<processor, short>>
    BY <2>1, <2>2, NothingMore DEF Holds
  <2>3. CASE ~ UNCHANGED <<processor, short>>
    <3>1. \E t : Start(t, processor, count, expired)
      BY <1>4, <2>3 DEF AddTask, OthersTake
    <3>2. short \subseteq short' /\ \A r \in Runs : Settled(r)'
      BY <2>1, <3>1, StartSettles DEF CountInv
    <3>3. \A r \in Runs : Placed(r)'
      BY <2>1 DEF CountInv, Placed, Once, Held, Handed, Holds, Counted, Running
    <3>4. StrayTaskShort'
      BY <2>1, <3>2 DEF CountInv, StrayTaskShort
    <3> QED BY <3>2, <3>3, <3>4 DEF CountInv
  <2> QED BY <2>2, <2>3
<1>5. CASE Restart
  <2>1. \A q \in Probes, k \in Slots : requests'[q][k] = Free
    BY <1>5 DEF Restart
  <2> QED BY <1>5, <2>1, NothingNew DEF Restart, pageVars
<1> QED BY <1>1, <1>2, <1>3, <1>4, <1>5, PageCounts, NoticeCounts, ResolveCounts
        DEF Next, NetStep, Serve

LEMMA InitCounts == Init => CountInv
<1> SUFFICES ASSUME Init PROVE CountInv
  OBVIOUS
<1>1. ASSUME NEW r \in Runs PROVE Placed(r) /\ Settled(r)
  <2>1. ~ Held(r)
    BY FreeHolds, RunFacts DEF Init, Held, Holds, Counted, Running
  <2>2. Once(r)
    BY <2>1 DEF Once, Held, Running
  <2>3. ~ Handed(r)
    <3>1. r[1] \in Tasks /\ r[2] \in Nat \ {0}
      BY RunFacts, ListsAssumption DEF Tasks
    <3>2. next[r[1]] = 1
      BY <3>1 DEF Init
    <3> QED BY <3>1, <3>2 DEF Handed
  <2> QED BY <2>1, <2>2, <2>3 DEF Placed, Settled
<1> QED BY <1>1 DEF Init, CountInv, StrayTaskShort

\* ResultTableImpl.store, BrowserHolderImpl.notice: a result counts for a later task
\* that has a kiss of the same name only if its own task ended without it.
THEOREM StrayCorrect == Safety => []StrayTaskShort
<1>1. CountInv => StrayTaskShort
  BY DEF CountInv
<1> QED BY <1>1, InitTypes, NextTypes, InitCounts, NextCounts, PTL DEF Safety
=============================================================================
